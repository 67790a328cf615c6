--------------------------- MODULE DocumentTrees ---------------------------
(***************************************************************************)
(* No edit breaks the document: the list holds each token once, the nodes  *)
(* in use nest in it, and the anchors in it are the ends of their fields   *)
(* and elements.  Between the nodes there is nothing but blanks and, where *)
(* they belong, separators.                                                *)
(***************************************************************************)
EXTENDS Document, SyntaxProofs

-----------------------------------------------------------------------------
(***************************************************************************)
(* A document, and the tokens of its list.  A node is in use as long as    *)
(* its first token is in the list.                                         *)
(***************************************************************************)
Here == [tokens |-> token, nodes |-> node, list |-> list]

Held(d, e) == \E i \in DOMAIN d.list : d.list[i] = e
Pos(d, e) == CHOOSE i \in DOMAIN d.list : d.list[i] = e

Live(d, k) == Held(d, Begins(d, k))
From(d, k) == Pos(d, Begins(d, k))
To(d, k) == Pos(d, Ends(d, k))

\* The list holds tokens, each once.
Listed(d) ==
  /\ d.tokens \in Toks /\ d.nodes \in Seq(NodeRecord) /\ d.list \in Seq(Nat)
  /\ \A i \in DOMAIN d.list : d.list[i] \in DOMAIN d.tokens
  /\ \A i, j \in DOMAIN d.list : d.list[i] = d.list[j] => i = j

\* Nodes are over tokens, and children are younger than their parent.
LinkedAt(d, k) ==
  /\ Begins(d, k) \in DOMAIN d.tokens /\ Ends(d, k) \in DOMAIN d.tokens
  /\ \A i \in DOMAIN Kids(d, k) : Kids(d, k)[i] \in DOMAIN d.nodes /\ k < Kids(d, k)[i]

Linked(d) == \A k \in DOMAIN d.nodes : LinkedAt(d, k)

\* What each kind of node has for children and tokens.
FormedAt(d, k) ==
  /\ Full(d, k)
  /\ Kind(d, k) \notin ContainerType \union WrapperType =>
       Kids(d, k) = <<>> /\ Ends(d, k) = Begins(d, k)
  /\ Kind(d, k) \in ContainerType => Opening(d.tokens[Begins(d, k)])
  /\ \A i \in DOMAIN Kids(d, k) :
       /\ Kind(d, k) = "object" => Kind(d, Kids(d, k)[i]) = "field"
       /\ Kind(d, k) = "array" => Kind(d, Kids(d, k)[i]) = "element"
       /\ Kind(d, k) \in WrapperType => Kind(d, Kids(d, k)[i]) \notin WrapperType

Formed(d) == \A k \in DOMAIN d.nodes : FormedAt(d, k)

\* No node is a child twice.
OneParent(d) ==
  \A m, n \in DOMAIN d.nodes : \A i \in DOMAIN Kids(d, m), j \in DOMAIN Kids(d, n) :
    Kids(d, m)[i] = Kids(d, n)[j] => m = n /\ i = j

\* The nodes in use nest.
StandingAt(d, k) ==
  Live(d, k) =>
    /\ Held(d, Ends(d, k)) /\ From(d, k) <= To(d, k)
    /\ Kind(d, k) \in ContainerType => From(d, k) < To(d, k)
    /\ \A i \in DOMAIN Kids(d, k) :
         LET c == Kids(d, k)[i]
         IN  /\ Live(d, c) /\ From(d, k) < From(d, c) /\ To(d, c) < To(d, k)
             /\ i > 1 => To(d, Kids(d, k)[i - 1]) < From(d, c)

Standing(d) == \A k \in DOMAIN d.nodes : StandingAt(d, k)

\* A node that was removed was removed with its last token and its children.
FallenAt(d, k) ==
  ~Live(d, k) =>
    /\ ~Held(d, Ends(d, k))
    /\ \A i \in DOMAIN Kids(d, k) : ~Live(d, Kids(d, k)[i])

Fallen(d) == \A k \in DOMAIN d.nodes : FallenAt(d, k)

\* Every node in use but the first is a child.
Kept(d) ==
  /\ 1 \in DOMAIN d.nodes /\ Live(d, 1) /\ Kind(d, 1) \notin WrapperType
  /\ \A k \in DOMAIN d.nodes :
       Live(d, k) /\ k # 1 => \E m \in DOMAIN d.nodes : \E i \in DOMAIN Kids(d, m) : Kids(d, m)[i] = k

\* The anchors are the ends of the fields and elements in use.
Marked(d) ==
  \A e \in DOMAIN d.tokens :
    Held(d, e) =>
      (d.tokens[e] = Anchor <=>
         \E k \in DOMAIN d.nodes :
           Kind(d, k) \in WrapperType /\ Live(d, k) /\ e \in {Begins(d, k), Ends(d, k)})

WellFormed(d) ==
  /\ Listed(d) /\ Linked(d) /\ Formed(d) /\ OneParent(d)
  /\ Standing(d) /\ Fallen(d) /\ Kept(d) /\ Marked(d)

-----------------------------------------------------------------------------
(***************************************************************************)
(* A fragment is a document whose list is all its tokens.  Its first node  *)
(* need not be at the ends of the list, and may be a field or an element.  *)
(***************************************************************************)
Nests(f) ==
  \A k \in DOMAIN f.nodes :
    /\ Begins(f, k) <= Ends(f, k)
    /\ Kind(f, k) \in ContainerType => Begins(f, k) < Ends(f, k)
    /\ \A i \in DOMAIN Kids(f, k) :
         LET c == Kids(f, k)[i]
         IN  /\ Begins(f, k) < Begins(f, c) /\ Ends(f, c) < Ends(f, k)
             /\ i > 1 => Ends(f, Kids(f, k)[i - 1]) < Begins(f, c)

Rooted(f) ==
  \A k \in DOMAIN f.nodes :
    k # 1 => \E m \in DOMAIN f.nodes : \E i \in DOMAIN Kids(f, m) : Kids(f, m)[i] = k

Ended(f) ==
  \A e \in DOMAIN f.tokens :
    f.tokens[e] = Anchor <=>
      \E k \in DOMAIN f.nodes : Kind(f, k) \in WrapperType /\ e \in {Begins(f, k), Ends(f, k)}

Fragment(f) ==
  /\ f.tokens \in Toks /\ f.nodes \in Seq(NodeRecord)
  /\ Linked(f) /\ Formed(f) /\ OneParent(f) /\ Nests(f) /\ Rooted(f) /\ Ended(f)

-----------------------------------------------------------------------------
(***************************************************************************)
(* Positions.                                                              *)
(***************************************************************************)
LEMMA DocumentIs ==
  ASSUME NEW d, d.tokens \in Toks, d.nodes \in Seq(NodeRecord)
  PROVE  /\ Len(d.tokens) \in Nat /\ DOMAIN d.tokens = 1 .. Len(d.tokens)
         /\ Len(d.nodes) \in Nat /\ DOMAIN d.nodes = 1 .. Len(d.nodes)
         /\ \A k \in DOMAIN d.nodes :
              /\ Kind(d, k) \in NodeType /\ Begins(d, k) \in Nat /\ Ends(d, k) \in Nat
              /\ Kids(d, k) \in Seq(Nat)
              /\ Len(Kids(d, k)) \in Nat /\ DOMAIN Kids(d, k) = 1 .. Len(Kids(d, k))
<1>1. d.tokens \in Seq(Tok)
  BY DEF Toks
<1>2. Len(d.tokens) \in Nat /\ DOMAIN d.tokens = 1 .. Len(d.tokens)
  <2> HIDE DEF Tok
  <2> QED BY <1>1
<1>3. Len(d.nodes) \in Nat /\ DOMAIN d.nodes = 1 .. Len(d.nodes)
  <2> HIDE DEF NodeRecord
  <2> QED OBVIOUS
<1>4. \A k \in DOMAIN d.nodes : d.nodes[k] \in NodeRecord
  <2> HIDE DEF NodeRecord
  <2> QED OBVIOUS
<1>5. ASSUME NEW k \in DOMAIN d.nodes
      PROVE  /\ Kind(d, k) \in NodeType /\ Begins(d, k) \in Nat /\ Ends(d, k) \in Nat
             /\ Kids(d, k) \in Seq(Nat)
  <2> HIDE DEF NodeType
  <2> QED BY <1>4 DEF NodeRecord, Kind, Begins, Ends, Kids
<1> QED BY <1>2, <1>3, <1>5

LEMMA PosIs ==
  ASSUME NEW d, Listed(d), NEW e, Held(d, e)
  PROVE  /\ Pos(d, e) \in DOMAIN d.list /\ d.list[Pos(d, e)] = e
         /\ Pos(d, e) \in 1 .. Len(d.list) /\ e \in DOMAIN d.tokens
<1>1. Pos(d, e) \in DOMAIN d.list /\ d.list[Pos(d, e)] = e
  BY Zenon DEF Held, Pos
<1>2. e \in DOMAIN d.tokens
  BY <1>1 DEF Listed
<1>3. DOMAIN d.list = 1 .. Len(d.list)
  BY DEF Listed
<1> QED BY <1>1, <1>2, <1>3

LEMMA PosOf ==
  ASSUME NEW d, Listed(d), NEW i \in DOMAIN d.list
  PROVE  Held(d, d.list[i]) /\ Pos(d, d.list[i]) = i
<1>1. Held(d, d.list[i])
  BY DEF Held
<1>2. Pos(d, d.list[i]) \in DOMAIN d.list /\ d.list[Pos(d, d.list[i])] = d.list[i]
  BY <1>1, PosIs
<1>3. Pos(d, d.list[i]) = i
  BY <1>2 DEF Listed
<1> QED BY <1>1, <1>3

\* A node in use, and its children.
Within(d, k, c) ==
  /\ c \in DOMAIN d.nodes /\ k < c /\ Live(d, c) /\ c # 1
  /\ From(d, k) < From(d, c) /\ To(d, c) < To(d, k)

LEMMA LiveNode ==
  ASSUME NEW d, WellFormed(d), NEW k \in DOMAIN d.nodes, Live(d, k)
  PROVE  /\ Held(d, Begins(d, k)) /\ Held(d, Ends(d, k)) /\ Len(d.list) \in Nat
         /\ From(d, k) \in 1 .. Len(d.list) /\ To(d, k) \in 1 .. Len(d.list)
         /\ From(d, k) \in Nat /\ To(d, k) \in Nat /\ From(d, k) <= To(d, k)
         /\ Kind(d, k) \in ContainerType => From(d, k) < To(d, k)
         /\ \A i \in DOMAIN Kids(d, k) : Within(d, k, Kids(d, k)[i])
<1>0. Listed(d) /\ Linked(d) /\ Standing(d)
  BY DEF WellFormed
<1>1. /\ Held(d, Begins(d, k)) /\ Held(d, Ends(d, k)) /\ From(d, k) <= To(d, k)
      /\ Kind(d, k) \in ContainerType => From(d, k) < To(d, k)
      /\ \A i \in DOMAIN Kids(d, k) :
           Live(d, Kids(d, k)[i]) /\ From(d, k) < From(d, Kids(d, k)[i]) /\ To(d, Kids(d, k)[i]) < To(d, k)
  BY <1>0 DEF Standing, StandingAt, Live
<1>2. \A i \in DOMAIN Kids(d, k) : Kids(d, k)[i] \in DOMAIN d.nodes /\ k < Kids(d, k)[i]
  BY <1>0 DEF Linked, LinkedAt
<1>3. Len(d.list) \in Nat
  BY <1>0 DEF Listed
<1>4. From(d, k) \in 1 .. Len(d.list) /\ To(d, k) \in 1 .. Len(d.list)
  BY <1>0, <1>1, PosIs DEF From, To
<1>5. DOMAIN d.nodes = 1 .. Len(d.nodes) /\ Len(d.nodes) \in Nat
  BY <1>0, DocumentIs DEF Listed
<1>6. \A i \in DOMAIN Kids(d, k) : Within(d, k, Kids(d, k)[i])
  BY <1>1, <1>2, <1>5 DEF Within
<1>7. From(d, k) \in Nat /\ To(d, k) \in Nat
  BY <1>3, <1>4
<1> QED BY <1>1, <1>3, <1>4, <1>6, <1>7

\* Children are one behind the other.
LEMMA KidsInOrder ==
  ASSUME NEW d, WellFormed(d), NEW k \in DOMAIN d.nodes, Live(d, k),
         NEW i \in DOMAIN Kids(d, k), NEW j \in DOMAIN Kids(d, k), i < j
  PROVE  To(d, Kids(d, k)[i]) < From(d, Kids(d, k)[j])
<1> DEFINE N == Len(Kids(d, k))
           F(n) == From(d, Kids(d, k)[n])
           T(n) == To(d, Kids(d, k)[n])
           S == {n \in 0 .. N : i < n => T(i) < F(n)}
<1>1. N \in Nat /\ DOMAIN Kids(d, k) = 1 .. N
  BY DocumentIs DEF WellFormed, Listed
<1>2. \A n \in 1 .. N : F(n) \in Nat /\ T(n) \in Nat /\ F(n) <= T(n)
  <2>1. ASSUME NEW n \in 1 .. N PROVE F(n) \in Nat /\ T(n) \in Nat /\ F(n) <= T(n)
    <3>1. Within(d, k, Kids(d, k)[n])
      BY <1>1, LiveNode
    <3> QED BY <3>1, LiveNode DEF Within
  <2> QED BY <2>1
<1>3. \A n \in 1 .. N : n > 1 => T(n - 1) < F(n)
  BY <1>1 DEF WellFormed, Standing, StandingAt
<1> HIDE DEF N, F, T
<1>4. 0 \in S
  BY <1>1
<1>5. ASSUME NEW n \in 1 .. N, n - 1 \in S PROVE n \in S
  <2>1. CASE i = n - 1
    BY <1>1, <1>3, <2>1
  <2>2. CASE i < n - 1
    <3>1. n - 1 \in 1 .. N /\ T(i) < F(n - 1) /\ F(n - 1) <= T(n - 1) /\ T(n - 1) < F(n)
      BY <1>1, <1>2, <1>3, <1>5, <2>2
    <3>2. T(i) \in Nat /\ F(n - 1) \in Nat /\ T(n - 1) \in Nat /\ F(n) \in Nat
      BY <1>1, <1>2, <3>1
    <3> QED BY <1>1, <3>1, <3>2
  <2>3. CASE i >= n
    BY <1>1, <2>3
  <2> QED BY <1>1, <2>1, <2>2, <2>3
<1>6. \A n \in 0 .. N : n \in S
  <2> HIDE DEF S
  <2> QED BY <1>1, <1>4, <1>5, UpTo
<1> QED BY <1>1, <1>6 DEF F, T

LEMMA HasParent ==
  ASSUME NEW d, WellFormed(d), NEW k \in DOMAIN d.nodes, Live(d, k), k # 1
  PROVE  \E m \in DOMAIN d.nodes : /\ Live(d, m) /\ m < k /\ Within(d, m, k)
                                   /\ \E i \in DOMAIN Kids(d, m) : Kids(d, m)[i] = k
<1>1. PICK m \in DOMAIN d.nodes : \E i \in DOMAIN Kids(d, m) : Kids(d, m)[i] = k
  BY DEF WellFormed, Kept
<1>2. Live(d, m)
  BY <1>1 DEF WellFormed, Fallen, FallenAt
<1>3. Within(d, m, k) /\ m < k
  BY <1>1, <1>2, LiveNode DEF Within
<1> QED BY <1>1, <1>2, <1>3

-----------------------------------------------------------------------------
(***************************************************************************)
(* Two nodes in use are apart, or one is inside a child of the other.      *)
(***************************************************************************)
Apart(d, m, n) == To(d, m) < From(d, n) \/ To(d, n) < From(d, m)

Inside(d, m, n) ==
  \E i \in DOMAIN Kids(d, n) :
    \/ Kids(d, n)[i] = m
    \/ From(d, Kids(d, n)[i]) < From(d, m) /\ To(d, m) < To(d, Kids(d, n)[i])

Related(d, m, n) == Apart(d, m, n) \/ Inside(d, m, n) \/ Inside(d, n, m)

LEMMA InsideIs ==
  ASSUME NEW d, WellFormed(d), NEW m \in DOMAIN d.nodes, Live(d, m),
         NEW n \in DOMAIN d.nodes, Live(d, n), Inside(d, m, n)
  PROVE  From(d, n) < From(d, m) /\ To(d, m) < To(d, n)
<1>1. PICK i \in DOMAIN Kids(d, n) :
             \/ Kids(d, n)[i] = m
             \/ From(d, Kids(d, n)[i]) < From(d, m) /\ To(d, m) < To(d, Kids(d, n)[i])
  BY DEF Inside
<1> DEFINE c == Kids(d, n)[i]
<1>2. Within(d, n, c)
  BY LiveNode
<1> HIDE DEF c
<1>3. c \in DOMAIN d.nodes /\ Live(d, c) /\ From(d, n) < From(d, c) /\ To(d, c) < To(d, n)
  BY <1>2 DEF Within
<1>4. /\ From(d, n) \in Nat /\ To(d, n) \in Nat /\ From(d, m) \in Nat /\ To(d, m) \in Nat
      /\ From(d, c) \in Nat /\ To(d, c) \in Nat
  BY <1>3, LiveNode
<1>5. c = m \/ (From(d, c) < From(d, m) /\ To(d, m) < To(d, c))
  BY <1>1 DEF c
<1> QED BY <1>3, <1>4, <1>5

\* What is inside a child is inside.
LEMMA InsideOf ==
  ASSUME NEW d, WellFormed(d), NEW m \in DOMAIN d.nodes, Live(d, m),
         NEW n \in DOMAIN d.nodes, Live(d, n), NEW i \in DOMAIN Kids(d, n), Inside(d, m, Kids(d, n)[i])
  PROVE  Inside(d, m, n)
<1> DEFINE c == Kids(d, n)[i]
<1>1. c \in DOMAIN d.nodes /\ Live(d, c)
  BY LiveNode DEF Within
<1>2. From(d, c) < From(d, m) /\ To(d, m) < To(d, c)
  <2> HIDE DEF c
  <2>1. Inside(d, m, c)
    BY DEF c
  <2> QED BY <1>1, <2>1, InsideIs
<1> QED BY <1>2 DEF Inside

LEMMA InsideBelow ==
  ASSUME NEW d, WellFormed(d), NEW m \in DOMAIN d.nodes, Live(d, m),
         NEW p \in DOMAIN d.nodes, Live(d, p), From(d, p) < From(d, m), To(d, m) < To(d, p),
         NEW n \in DOMAIN d.nodes, Live(d, n), Inside(d, p, n)
  PROVE  Inside(d, m, n)
<1>1. PICK i \in DOMAIN Kids(d, n) :
             \/ Kids(d, n)[i] = p
             \/ From(d, Kids(d, n)[i]) < From(d, p) /\ To(d, p) < To(d, Kids(d, n)[i])
  BY DEF Inside
<1> DEFINE c == Kids(d, n)[i]
<1>2. c \in DOMAIN d.nodes /\ Live(d, c)
  BY LiveNode DEF Within
<1> HIDE DEF c
<1>3. /\ From(d, p) \in Nat /\ To(d, p) \in Nat /\ From(d, m) \in Nat /\ To(d, m) \in Nat
      /\ From(d, c) \in Nat /\ To(d, c) \in Nat
  BY <1>2, LiveNode
<1>4. c = p \/ (From(d, c) < From(d, p) /\ To(d, p) < To(d, c))
  BY <1>1 DEF c
<1>5. From(d, c) < From(d, m) /\ To(d, m) < To(d, c)
  BY <1>3, <1>4
<1> QED BY <1>5 DEF Inside, c

LEMMA RootHolds ==
  ASSUME NEW d, WellFormed(d)
  PROVE  \A m \in DOMAIN d.nodes : Live(d, m) /\ m # 1 => Inside(d, m, 1)
<1> DEFINE B == {m \in DOMAIN d.nodes : Live(d, m) /\ m # 1 /\ ~Inside(d, m, 1)}
<1>1. SUFFICES ASSUME B # {} PROVE FALSE
  OBVIOUS
<1>2. DOMAIN d.nodes = 1 .. Len(d.nodes) /\ Len(d.nodes) \in Nat
  BY DocumentIs DEF WellFormed, Listed
<1>3. PICK m \in B : \A k \in B : m <= k
  <2>1. B \in SUBSET Nat
    BY <1>2
  <2> HIDE DEF B
  <2> QED BY <1>1, <2>1, LeastNat
<1>4. PICK p \in DOMAIN d.nodes : /\ Live(d, p) /\ p < m /\ Within(d, p, m)
                                  /\ \E i \in DOMAIN Kids(d, p) : Kids(d, p)[i] = m
  BY <1>3, HasParent
<1>5. CASE p = 1
  BY <1>3, <1>4, <1>5 DEF Inside
<1>6. CASE p # 1
  <2>1. p \notin B
    BY <1>2, <1>3, <1>4
  <2>2. Inside(d, p, 1) /\ 1 \in DOMAIN d.nodes /\ Live(d, 1)
    BY <1>4, <1>6, <2>1 DEF WellFormed, Kept
  <2>3. Inside(d, m, 1)
    BY <1>3, <1>4, <2>2, InsideBelow DEF Within
  <2> QED BY <1>3, <2>3
<1> QED BY <1>5, <1>6

LEMMA Siblings ==
  ASSUME NEW d, WellFormed(d), NEW k \in DOMAIN d.nodes, Live(d, k),
         NEW i \in DOMAIN Kids(d, k), NEW j \in DOMAIN Kids(d, k), i # j
  PROVE  Apart(d, Kids(d, k)[i], Kids(d, k)[j])
<1>1. i \in Nat /\ j \in Nat
  BY DocumentIs DEF WellFormed, Listed
<1>2. i < j \/ j < i
  BY <1>1
<1> QED BY <1>2, KidsInOrder DEF Apart

LEMMA LaminarStep ==
  ASSUME NEW d, WellFormed(d), NEW m \in DOMAIN d.nodes, Live(d, m),
         NEW n \in DOMAIN d.nodes, Live(d, n), n < m,
         \A a, b \in DOMAIN d.nodes : Live(d, a) /\ Live(d, b) /\ a # b /\ a + b < m + n => Related(d, a, b)
  PROVE  Related(d, m, n)
<1>0. DOMAIN d.nodes = 1 .. Len(d.nodes) /\ Len(d.nodes) \in Nat
  BY DocumentIs DEF WellFormed, Listed
<1>1. m # 1 /\ m # n
  BY <1>0
<1>2. PICK p \in DOMAIN d.nodes : /\ Live(d, p) /\ p < m /\ Within(d, p, m)
                                  /\ \E i \in DOMAIN Kids(d, p) : Kids(d, p)[i] = m
  BY <1>1, HasParent
<1>3. PICK i \in DOMAIN Kids(d, p) : Kids(d, p)[i] = m
  BY <1>2
<1>4. From(d, p) < From(d, m) /\ To(d, m) < To(d, p)
  BY <1>2 DEF Within
<1>5. /\ From(d, p) \in Nat /\ To(d, p) \in Nat /\ From(d, m) \in Nat /\ To(d, m) \in Nat
      /\ From(d, n) \in Nat /\ To(d, n) \in Nat
      /\ From(d, m) <= To(d, m) /\ From(d, n) <= To(d, n)
  BY <1>2, LiveNode
<1>6. CASE p = n
  BY <1>3, <1>6 DEF Related, Inside
<1>7. ASSUME p # n PROVE Related(d, p, n)
  BY <1>0, <1>2, <1>7
<1>8. CASE p # n /\ Apart(d, p, n)
  BY <1>4, <1>5, <1>8 DEF Related, Apart
<1>9. CASE p # n /\ Inside(d, p, n)
  BY <1>2, <1>4, <1>9, InsideBelow DEF Related
<1>10. CASE p # n /\ Inside(d, n, p)
  <2>1. PICK j \in DOMAIN Kids(d, p) :
               \/ Kids(d, p)[j] = n
               \/ From(d, Kids(d, p)[j]) < From(d, n) /\ To(d, n) < To(d, Kids(d, p)[j])
    BY <1>10 DEF Inside
  <2> DEFINE c == Kids(d, p)[j]
  <2>2. c \in DOMAIN d.nodes /\ Live(d, c)
    BY <1>2, LiveNode DEF Within
  <2>3. c = n \/ (From(d, c) < From(d, n) /\ To(d, n) < To(d, c))
    BY <2>1
  <2>4. CASE j # i
    <3>1. Apart(d, c, m)
      BY <1>2, <1>3, <2>4, Siblings
    <3> HIDE DEF c
    <3>2. From(d, c) \in Nat /\ To(d, c) \in Nat /\ From(d, c) <= To(d, c)
      BY <2>2, LiveNode
    <3> QED BY <1>5, <2>3, <3>1, <3>2 DEF Related, Apart
  <2>5. CASE j = i
    <3>1. From(d, m) < From(d, n) /\ To(d, n) < To(d, m)
      BY <1>1, <1>3, <2>3, <2>5
    <3>2. CASE n = 1
      BY <1>1, <3>2, RootHolds DEF Related
    <3>3. CASE n # 1
      <4>1. PICK r \in DOMAIN d.nodes : /\ Live(d, r) /\ r < n /\ Within(d, r, n)
                                        /\ \E l \in DOMAIN Kids(d, r) : Kids(d, r)[l] = n
        BY <3>3, HasParent
      <4>2. PICK l \in DOMAIN Kids(d, r) : Kids(d, r)[l] = n
        BY <4>1
      <4>3. From(d, r) < From(d, n) /\ To(d, n) < To(d, r) /\ From(d, r) \in Nat /\ To(d, r) \in Nat
        BY <4>1, LiveNode DEF Within
      <4>4. Related(d, r, m)
        <5>1. r # m /\ r + m < m + n
          BY <1>0, <4>1
        <5> QED BY <4>1, <5>1
      <4>5. CASE Apart(d, r, m)
        BY <1>5, <3>1, <4>3, <4>5 DEF Apart
      <4>6. CASE Inside(d, r, m)
        BY <4>1, <4>3, <4>6, InsideBelow DEF Related
      <4>7. CASE Inside(d, m, r)
        <5>1. PICK h \in DOMAIN Kids(d, r) :
                     \/ Kids(d, r)[h] = m
                     \/ From(d, Kids(d, r)[h]) < From(d, m) /\ To(d, m) < To(d, Kids(d, r)[h])
          BY <4>7 DEF Inside
        <5> DEFINE e == Kids(d, r)[h]
        <5>2. e \in DOMAIN d.nodes /\ Live(d, e)
          BY <4>1, LiveNode DEF Within
        <5>3. e = m \/ (From(d, e) < From(d, m) /\ To(d, m) < To(d, e))
          BY <5>1
        <5>4. h # l => Apart(d, e, n)
          BY <4>1, <4>2, Siblings
        <5>5. h = l => e = n
          BY <4>2
        <5> HIDE DEF e
        <5>6. From(d, e) \in Nat /\ To(d, e) \in Nat
          BY <5>2, LiveNode
        <5>7. h = l
          BY <1>5, <3>1, <5>3, <5>4, <5>6 DEF Apart
        <5> QED BY <1>1, <1>5, <3>1, <5>3, <5>5, <5>7
      <4> QED BY <4>4, <4>5, <4>6, <4>7 DEF Related
    <3> QED BY <3>2, <3>3
  <2> QED BY <2>4, <2>5
<1> QED BY <1>6, <1>7, <1>8, <1>9, <1>10 DEF Related

LEMMA Laminar ==
  ASSUME NEW d, WellFormed(d)
  PROVE  \A m, n \in DOMAIN d.nodes : Live(d, m) /\ Live(d, n) /\ m # n => Related(d, m, n)
<1> DEFINE Bad(m, n) == Live(d, m) /\ Live(d, n) /\ m # n /\ ~Related(d, m, n)
           B == {s \in Nat : \E m, n \in DOMAIN d.nodes : Bad(m, n) /\ s = m + n}
<1>1. SUFFICES ASSUME NEW a \in DOMAIN d.nodes, NEW b \in DOMAIN d.nodes, Bad(a, b) PROVE FALSE
  OBVIOUS
<1>2. DOMAIN d.nodes = 1 .. Len(d.nodes) /\ Len(d.nodes) \in Nat
  BY DocumentIs DEF WellFormed, Listed
<1> HIDE DEF Bad
<1>3. PICK s \in B : \A t \in B : s <= t
  <2>1. B \in SUBSET Nat
    OBVIOUS
  <2>2. a + b \in B
    BY <1>1, <1>2
  <2> HIDE DEF B
  <2> QED BY <2>1, <2>2, LeastNat
<1>4. PICK m \in DOMAIN d.nodes, n \in DOMAIN d.nodes : Bad(m, n) /\ s = m + n
  BY <1>3
<1>5. \A e, f \in DOMAIN d.nodes : e + f < m + n => ~Bad(e, f)
  BY <1>2, <1>3, <1>4
<1>6. \A e, f \in DOMAIN d.nodes : Related(d, e, f) <=> Related(d, f, e)
  BY DEF Related, Apart
<1>7. \A e, f \in DOMAIN d.nodes :
        Live(d, e) /\ Live(d, f) /\ e # f /\ e + f < m + n => Related(d, e, f)
  BY <1>5 DEF Bad
<1>8. CASE n < m
  BY <1>4, <1>7, <1>8, LaminarStep DEF Bad
<1>9. CASE m < n
  <2>1. \A e, f \in DOMAIN d.nodes :
          Live(d, e) /\ Live(d, f) /\ e # f /\ e + f < n + m => Related(d, e, f)
    BY <1>2, <1>7
  <2>2. Related(d, n, m)
    BY <1>4, <1>9, <2>1, LaminarStep DEF Bad
  <2> QED BY <1>4, <1>6, <2>2 DEF Bad
<1> QED BY <1>2, <1>4, <1>8, <1>9 DEF Bad

\* Tokens at the ends of different nodes are different.
LEMMA OwnEnds ==
  ASSUME NEW d, WellFormed(d), NEW m \in DOMAIN d.nodes, Live(d, m),
         NEW n \in DOMAIN d.nodes, Live(d, n)
  PROVE  /\ From(d, m) \in From(d, n) .. To(d, n) \/ To(d, m) \in From(d, n) .. To(d, n)
              => m = n \/ Inside(d, m, n) \/ Inside(d, n, m)
         /\ m # n => From(d, m) # From(d, n) /\ From(d, m) # To(d, n) /\ To(d, m) # To(d, n)
<1>1. /\ From(d, m) \in Nat /\ To(d, m) \in Nat /\ From(d, m) <= To(d, m)
      /\ From(d, n) \in Nat /\ To(d, n) \in Nat /\ From(d, n) <= To(d, n)
  BY LiveNode
<1>2. m # n => Related(d, m, n)
  BY Laminar
<1>3. /\ Inside(d, m, n) => From(d, n) < From(d, m) /\ To(d, m) < To(d, n)
      /\ Inside(d, n, m) => From(d, m) < From(d, n) /\ To(d, n) < To(d, m)
  BY InsideIs
<1> QED BY <1>1, <1>2, <1>3 DEF Related, Apart

\* A child inside a node it is no child of has its parent inside it.
LEMMA ParentInside ==
  ASSUME NEW d, WellFormed(d), NEW n \in DOMAIN d.nodes, Live(d, n),
         NEW m \in DOMAIN d.nodes, Live(d, m), m # n, NEW i \in DOMAIN Kids(d, m),
         Inside(d, Kids(d, m)[i], n)
  PROVE  Inside(d, m, n)
<1> DEFINE c == Kids(d, m)[i]
<1>1. c \in DOMAIN d.nodes /\ Live(d, c) /\ From(d, m) < From(d, c) /\ To(d, c) < To(d, m)
  BY LiveNode DEF Within
<1>2. From(d, n) < From(d, c) /\ To(d, c) < To(d, n)
  <2> HIDE DEF c
  <2>1. Inside(d, c, n)
    BY DEF c
  <2> QED BY <1>1, <2>1, InsideIs
<1>3. /\ From(d, m) \in Nat /\ To(d, m) \in Nat /\ From(d, c) \in Nat /\ To(d, c) \in Nat
      /\ From(d, n) \in Nat /\ To(d, n) \in Nat /\ From(d, c) <= To(d, c)
  <2> HIDE DEF c
  <2> QED BY <1>1, LiveNode
<1>4. SUFFICES ASSUME Inside(d, n, m) PROVE FALSE
  <2>1. ~Apart(d, m, n)
    <3> HIDE DEF c
    <3> QED BY <1>1, <1>2, <1>3 DEF Apart
  <2> QED BY <2>1, Laminar DEF Related
<1>5. PICK j \in DOMAIN Kids(d, m) :
             \/ Kids(d, m)[j] = n
             \/ From(d, Kids(d, m)[j]) < From(d, n) /\ To(d, n) < To(d, Kids(d, m)[j])
  BY <1>4 DEF Inside
<1> DEFINE e == Kids(d, m)[j]
<1>6. e \in DOMAIN d.nodes /\ Live(d, e)
  BY LiveNode DEF Within
<1>7. i # j => Apart(d, c, e)
  BY Siblings
<1>8. i = j => c = e
  OBVIOUS
<1>9. e = n \/ (From(d, e) < From(d, n) /\ To(d, n) < To(d, e))
  BY <1>5
<1> HIDE DEF c, e
<1>10. From(d, e) \in Nat /\ To(d, e) \in Nat
  BY <1>6, LiveNode
<1> QED BY <1>2, <1>3, <1>7, <1>8, <1>9, <1>10 DEF Apart

-----------------------------------------------------------------------------
(***************************************************************************)
(* An edit takes the tokens between positions a and b out of the list and  *)
(* puts k new ones in their place.                                         *)
(***************************************************************************)
Splice(s, a, b, t, k) ==
  SubSeq(s, 1, a) \o [i \in 1 .. k |-> t + i] \o SubSeq(s, b, Len(s))

Moved(i, a, b, k) == IF i <= a THEN i ELSE i + k - (b - a - 1)

LEMMA ConcatIs ==
  ASSUME NEW S, NEW x \in Seq(S), NEW y \in Seq(S)
  PROVE  /\ x \o y \in Seq(S) /\ Len(x \o y) = Len(x) + Len(y)
         /\ Len(x) \in Nat /\ Len(y) \in Nat
         /\ \A i \in 1 .. Len(x) : (x \o y)[i] = x[i]
         /\ \A i \in 1 .. Len(y) : (x \o y)[Len(x) + i] = y[i]
OBVIOUS

Pasted(r, s, a, b, t, k) ==
  /\ r \in Seq(Nat) /\ Len(r) = a + k + (Len(s) - b + 1)
  /\ \A i \in 1 .. a : r[i] = s[i]
  /\ \A i \in 1 .. k : r[a + i] = t + i
  /\ \A i \in b .. Len(s) : r[i + k - (b - a - 1)] = s[i]

LEMMA SpliceIs ==
  ASSUME NEW s \in Seq(Nat), NEW a \in 0 .. Len(s), NEW b \in a + 1 .. Len(s) + 1,
         NEW t \in Nat, NEW k \in Nat
  PROVE  Pasted(Splice(s, a, b, t, k), s, a, b, t, k)
<1> DEFINE x == SubSeq(s, 1, a)
           y == [i \in 1 .. k |-> t + i]
           z == SubSeq(s, b, Len(s))
<1>0. a \in Nat /\ b \in Nat /\ Len(s) \in Nat /\ a < b /\ b <= Len(s) + 1
  OBVIOUS
<1>1. x \in Seq(Nat) /\ Len(x) = a /\ \A i \in 1 .. a : x[i] = s[i]
  OBVIOUS
<1>2. y \in Seq(Nat) /\ Len(y) = k /\ \A i \in 1 .. k : y[i] = t + i
  OBVIOUS
<1>3. z \in Seq(Nat) /\ Len(z) = Len(s) - b + 1 /\ \A i \in b .. Len(s) : z[i - b + 1] = s[i]
  <2>1. z \in Seq(Nat) /\ Len(z) = Len(s) - b + 1
    BY SMTT(30)
  <2>2. \A j \in 1 .. Len(s) - b + 1 : z[j] = s[b + j - 1]
    BY SMTT(30)
  <2> HIDE DEF z
  <2>3. \A i \in b .. Len(s) : i - b + 1 \in 1 .. Len(s) - b + 1 /\ b + (i - b + 1) - 1 = i
    BY <1>0
  <2> QED BY <2>1, <2>2, <2>3
<1>4. Splice(s, a, b, t, k) = (x \o y) \o z
  BY DEF Splice
<1> HIDE DEF x, y, z
<1>5. /\ x \o y \in Seq(Nat) /\ Len(x \o y) = a + k
      /\ \A i \in 1 .. a : (x \o y)[i] = x[i]
      /\ \A i \in 1 .. k : (x \o y)[a + i] = y[i]
  <2>1. /\ x \o y \in Seq(Nat) /\ Len(x \o y) = Len(x) + Len(y)
        /\ \A i \in 1 .. Len(x) : (x \o y)[i] = x[i]
        /\ \A i \in 1 .. Len(y) : (x \o y)[Len(x) + i] = y[i]
    <3>1. x \in Seq(Nat) /\ y \in Seq(Nat)
      BY <1>1, <1>2
    <3> QED BY ONLY <3>1, ConcatIs, SMTT(30)
  <2> QED BY <1>1, <1>2, <2>1
<1> DEFINE w == x \o y
           r == w \o z
<1>6. /\ r \in Seq(Nat) /\ Len(r) = a + k + (Len(s) - b + 1)
      /\ \A i \in 1 .. a + k : r[i] = w[i]
      /\ \A i \in 1 .. Len(z) : r[a + k + i] = z[i]
  <2>1. w \in Seq(Nat) /\ Len(w) = a + k
    BY <1>5
  <2> HIDE DEF w
  <2>2. /\ w \o z \in Seq(Nat) /\ Len(w \o z) = Len(w) + Len(z)
        /\ \A i \in 1 .. Len(w) : (w \o z)[i] = w[i]
        /\ \A i \in 1 .. Len(z) : (w \o z)[Len(w) + i] = z[i]
    <3>1. w \in Seq(Nat) /\ z \in Seq(Nat)
      BY <1>3, <2>1
    <3> QED BY ONLY <3>1, ConcatIs
  <2> QED BY <1>3, <2>1, <2>2
<1>7. \A i \in 1 .. a : r[i] = s[i]
  <2>1. \A i \in 1 .. a : i \in 1 .. a + k
    BY <1>0
  <2>2. \A i \in 1 .. a : w[i] = s[i]
    BY <1>1, <1>5
  <2> HIDE DEF w, r
  <2> QED BY <1>6, <2>1, <2>2
<1>8. \A i \in 1 .. k : r[a + i] = t + i
  <2>1. \A i \in 1 .. k : a + i \in 1 .. a + k
    BY <1>0
  <2>2. \A i \in 1 .. k : w[a + i] = t + i
    BY <1>2, <1>5
  <2> HIDE DEF w, r
  <2> QED BY <1>6, <2>1, <2>2
<1> HIDE DEF w, r
<1>9. ASSUME NEW i \in b .. Len(s) PROVE r[i + k - (b - a - 1)] = s[i]
  <2>1. i - b + 1 \in 1 .. Len(z) /\ i + k - (b - a - 1) = a + k + (i - b + 1)
    BY <1>0, <1>3
  <2> QED BY <1>3, <1>6, <2>1
<1>10. Pasted(r, s, a, b, t, k)
  BY <1>6, <1>7, <1>8, <1>9 DEF Pasted
<1>11. r = Splice(s, a, b, t, k)
  BY <1>4 DEF r, w
<1> QED BY <1>10, <1>11

\* The positions after the edit.
Moves(d, q, a, b, k) ==
  /\ \A e \in DOMAIN d.tokens :
       /\ Held(q, e) <=> Held(d, e) /\ (Pos(d, e) <= a \/ b <= Pos(d, e))
       /\ Held(q, e) => Pos(q, e) = Moved(Pos(d, e), a, b, k)
  /\ \A i \in 1 .. k : Held(q, Len(d.tokens) + i) /\ Pos(q, Len(d.tokens) + i) = a + i

LEMMA ListMoves ==
  ASSUME NEW d, Listed(d), NEW q, q.tokens \in Toks, q.nodes \in Seq(NodeRecord),
         NEW k \in Nat, Len(q.tokens) = Len(d.tokens) + k,
         NEW a \in 0 .. Len(d.list), NEW b \in a + 1 .. Len(d.list) + 1,
         q.list = Splice(d.list, a, b, Len(d.tokens), k)
  PROVE  Listed(q) /\ Moves(d, q, a, b, k)
<1> DEFINE T == Len(d.tokens)
           L == Len(d.list)
           R == a + k + (L - b + 1)
           g == b - a - 1
<1>1. /\ d.list \in Seq(Nat) /\ L \in Nat /\ T \in Nat
      /\ DOMAIN d.tokens = 1 .. T /\ DOMAIN q.tokens = 1 .. T + k
      /\ DOMAIN d.list = 1 .. L
      /\ a \in Nat /\ b \in Nat /\ a < b /\ b <= L + 1
  BY DocumentIs DEF Listed
<1>2. /\ q.list \in Seq(Nat) /\ Len(q.list) = R /\ DOMAIN q.list = 1 .. R
      /\ \A i \in 1 .. a : q.list[i] = d.list[i]
      /\ \A i \in 1 .. k : q.list[a + i] = T + i
      /\ \A i \in b .. L : q.list[i + k - g] = d.list[i]
  <2>1. /\ q.list \in Seq(Nat) /\ Len(q.list) = R
        /\ \A i \in 1 .. a : q.list[i] = d.list[i]
        /\ \A i \in 1 .. k : q.list[a + i] = T + i
        /\ \A i \in b .. L : q.list[i + k - g] = d.list[i]
    <3>1. Pasted(Splice(d.list, a, b, Len(d.tokens), k), d.list, a, b, Len(d.tokens), k)
      BY <1>1, SpliceIs
    <3> QED BY <3>1 DEF Pasted
  <2>2. DOMAIN q.list = 1 .. Len(q.list)
    <3>1. q.list \in Seq(Nat)
      BY <2>1
    <3> QED BY <3>1
  <2> QED BY <2>1, <2>2
<1>3. \A i \in 1 .. L : d.list[i] \in 1 .. T
  BY <1>1 DEF Listed
<1>4. \A i, j \in 1 .. L : d.list[i] = d.list[j] => i = j
  BY <1>1 DEF Listed
<1> HIDE DEF T, L
<1>0. R \in Nat /\ g \in Nat /\ a <= L /\ R = a + k + (L - b + 1) /\ g = b - a - 1
  BY <1>1
<1> HIDE DEF R, g
\* Where a position of the new list comes from.
<1>5. ASSUME NEW i \in 1 .. R
      PROVE  \/ i \in 1 .. a /\ i \in 1 .. L /\ q.list[i] = d.list[i]
             \/ i - a \in 1 .. k /\ q.list[i] = T + (i - a)
             \/ i - k + g \in b .. L /\ i - k + g \in 1 .. L /\ q.list[i] = d.list[i - k + g]
  <2>1. a \in Nat /\ b \in Nat /\ a < b /\ b <= L + 1 /\ a <= L
    BY <1>0, <1>1
  <2>2. CASE i \in 1 .. a
    <3>1. i \in 1 .. L
      BY <1>1, <2>1, <2>2
    <3>2. q.list[i] = d.list[i]
      BY <1>2, <2>2
    <3> QED BY <2>2, <3>1, <3>2
  <2>3. CASE i - a \in 1 .. k
    <3>1. i = a + (i - a)
      BY <2>1
    <3> QED BY <1>0, <1>1, <1>2, <2>3, <3>1
  <2>4. CASE i > a + k
    <3>0. i \in Nat /\ k \in Nat /\ g \in Nat /\ L \in Nat /\ b \in Nat /\ a \in Nat /\ i <= R
      BY <1>0, <1>1, <2>1
    <3>1. i - k + g \in b .. L /\ i - k + g \in 1 .. L /\ (i - k + g) + k - g = i
      BY ONLY <1>0, <2>1, <2>4, <3>0
    <3> QED BY <1>2, <3>1
  <2> QED BY <2>1, <2>2, <2>3, <2>4
<1>6. Listed(q)
  <2>1. ASSUME NEW i \in 1 .. R PROVE q.list[i] \in 1 .. T + k
    <3>0. T \in Nat
      BY <1>1
    <3>1. CASE i - a \in 1 .. k /\ q.list[i] = T + (i - a)
      BY ONLY k \in Nat, <3>0, <3>1
    <3>2. CASE \E j \in 1 .. L : q.list[i] = d.list[j]
      BY ONLY k \in Nat, <1>3, <3>0, <3>2
    <3> QED BY <1>5, <3>1, <3>2
  <2>2. ASSUME NEW i \in 1 .. R, NEW j \in 1 .. R, q.list[i] = q.list[j] PROVE i = j
    <3>0. i \in Nat /\ j \in Nat /\ k \in Nat /\ g \in Nat /\ T \in Nat
      BY <1>0, <1>1
    <3>1. ASSUME NEW n \in 1 .. k, NEW o \in 1 .. L PROVE T + n # d.list[o]
      <4>1. d.list[o] \in 1 .. T
        BY <1>3
      <4> QED BY <3>0, <4>1
    <3>2. CASE i - a \in 1 .. k /\ q.list[i] = T + (i - a)
      <4>1. j - a \in 1 .. k /\ q.list[j] = T + (j - a)
        BY <1>5, <2>2, <3>1, <3>2
      <4>2. T + (i - a) = T + (j - a)
        BY <2>2, <3>2, <4>1
      <4>3. a \in Nat
        BY <1>1
      <4> QED BY ONLY <3>0, <4>2, <4>3
    <3>3. CASE i \in 1 .. a /\ i \in 1 .. L /\ q.list[i] = d.list[i]
      <4>1. CASE j \in 1 .. a /\ j \in 1 .. L /\ q.list[j] = d.list[j]
        BY <1>4, <2>2, <3>3, <4>1
      <4>2. CASE j - k + g \in b .. L /\ j - k + g \in 1 .. L /\ q.list[j] = d.list[j - k + g]
        <5>1. i = j - k + g
          BY <1>4, <2>2, <3>3, <4>2
        <5> QED BY <3>3, <4>2, <5>1
      <4> QED BY <1>5, <2>2, <3>1, <3>3, <4>1, <4>2
    <3>4. CASE i - k + g \in b .. L /\ i - k + g \in 1 .. L /\ q.list[i] = d.list[i - k + g]
      <4>1. CASE j \in 1 .. a /\ j \in 1 .. L /\ q.list[j] = d.list[j]
        <5>1. j = i - k + g
          BY <1>4, <2>2, <3>4, <4>1
        <5> QED BY <3>4, <4>1, <5>1
      <4>2. CASE j - k + g \in b .. L /\ j - k + g \in 1 .. L /\ q.list[j] = d.list[j - k + g]
        <5>1. i - k + g = j - k + g
          BY <1>4, <2>2, <3>4, <4>2
        <5> QED BY <3>0, <5>1
      <4> QED BY <1>5, <2>2, <3>1, <3>4, <4>1, <4>2
    <3> QED BY <1>5, <3>2, <3>3, <3>4
  <2> HIDE DEF Toks, NodeRecord
  <2> QED BY <1>0, <1>1, <1>2, <2>1, <2>2 DEF Listed
<1>7. ASSUME NEW i \in 1 .. k PROVE Held(q, T + i) /\ Pos(q, T + i) = a + i
  <2>1. a + i \in 1 .. R
    BY <1>0, <1>1
  <2>2. q.list[a + i] = T + i
    BY <1>2
  <2> QED BY <1>2, <1>6, <2>1, <2>2, PosOf
<1>8. ASSUME NEW e \in 1 .. T, Held(d, e), Pos(d, e) <= a
      PROVE  Held(q, e) /\ Pos(q, e) = Pos(d, e)
  <2>1. Pos(d, e) \in 1 .. L /\ d.list[Pos(d, e)] = e
    BY <1>8, PosIs DEF L
  <2>2. Pos(d, e) \in 1 .. a /\ Pos(d, e) \in 1 .. R
    BY <1>0, <1>1, <1>8, <2>1
  <2>3. q.list[Pos(d, e)] = e
    BY <1>2, <2>1, <2>2
  <2> QED BY <1>2, <1>6, <2>2, <2>3, PosOf
<1>9. ASSUME NEW e \in 1 .. T, Held(d, e), b <= Pos(d, e)
      PROVE  Held(q, e) /\ Pos(q, e) = Pos(d, e) + k - g
  <2>1. Pos(d, e) \in 1 .. L /\ d.list[Pos(d, e)] = e
    BY <1>9, PosIs DEF L
  <2> DEFINE i == Pos(d, e)
  <2>2. i \in b .. L /\ i + k - g \in 1 .. R
    <3>1. i \in 1 .. L /\ b <= i
      BY <1>9, <2>1
    <3> HIDE DEF i
    <3> QED BY <1>0, <1>1, <3>1
  <2>3. q.list[Pos(d, e) + k - g] = e
    BY <1>2, <2>1, <2>2
  <2> QED BY <1>2, <1>6, <2>2, <2>3, PosOf
<1>10. ASSUME NEW e \in 1 .. T, Held(q, e)
       PROVE  Held(d, e) /\ (Pos(d, e) <= a \/ b <= Pos(d, e))
  <2>1. Pos(q, e) \in 1 .. R /\ q.list[Pos(q, e)] = e
    BY <1>2, <1>6, <1>10, PosIs
  <2>2. ASSUME NEW j \in 1 .. L, e = d.list[j] PROVE Held(d, e) /\ Pos(d, e) = j
    BY <1>0, <1>1, <2>2, PosOf
  <2>3. CASE Pos(q, e) \in 1 .. a /\ Pos(q, e) \in 1 .. L /\ q.list[Pos(q, e)] = d.list[Pos(q, e)]
    BY <2>1, <2>2, <2>3
  <2>4. CASE /\ Pos(q, e) - k + g \in b .. L /\ Pos(q, e) - k + g \in 1 .. L
             /\ q.list[Pos(q, e)] = d.list[Pos(q, e) - k + g]
    <3>1. Pos(d, e) = Pos(q, e) - k + g /\ Held(d, e)
      BY <2>1, <2>2, <2>4
    <3> QED BY <2>4, <3>1
  <2>5. CASE Pos(q, e) - a \in 1 .. k /\ q.list[Pos(q, e)] = T + (Pos(q, e) - a)
    BY <1>0, <1>1, <2>1, <2>5
  <2> QED BY <1>5, <2>1, <2>3, <2>4, <2>5
<1>11. ASSUME NEW e \in 1 .. T
       PROVE  /\ Held(q, e) <=> Held(d, e) /\ (Pos(d, e) <= a \/ b <= Pos(d, e))
              /\ Held(q, e) => Pos(q, e) = Moved(Pos(d, e), a, b, k)
  <2>1. Held(d, e) => Pos(d, e) \in Nat
    BY <1>1, PosIs DEF L
  <2>2. b <= Pos(d, e) /\ Pos(d, e) \in Nat => ~(Pos(d, e) <= a)
    OBVIOUS
  <2> QED BY <1>8, <1>9, <1>10, <2>1, <2>2, <1>0 DEF Moved
<1>12. Moves(d, q, a, b, k)
  BY <1>0, <1>1, <1>7, <1>11 DEF Moves, T, g
<1> QED BY <1>6, <1>12

-----------------------------------------------------------------------------
(***************************************************************************)
(* The nodes that an edit leaves as they are.  Those with their ends       *)
(* between a and b go, the others stay.                                    *)
(***************************************************************************)
Goes(d, y, a, b) == a < From(d, y) /\ From(d, y) < b /\ a < To(d, y) /\ To(d, y) < b
Beside(i, a, b) == i <= a \/ b <= i
Stays(d, y, a, b) == Beside(From(d, y), a, b) /\ Beside(To(d, y), a, b)

\* A node goes with its parent, unless it is the one that the edit is about.
Parts(d, a, b, c) ==
  \A m \in DOMAIN d.nodes :
    Live(d, m) =>
      /\ Stays(d, m, a, b) \/ Goes(d, m, a, b)
      /\ \A i \in DOMAIN Kids(d, m) :
           /\ Goes(d, m, a, b) => Goes(d, Kids(d, m)[i], a, b)
           /\ Stays(d, m, a, b) /\ Goes(d, Kids(d, m)[i], a, b) => Kids(d, m)[i] = c

Survives(d, q, y, a, b, k) ==
  /\ Live(q, y) /\ Held(q, Ends(q, y))
  /\ From(q, y) = Moved(From(d, y), a, b, k) /\ To(q, y) = Moved(To(d, y), a, b, k)

Perishes(q, y) == ~Live(q, y) /\ ~Held(q, Ends(q, y))

LEMMA Moving ==
  ASSUME NEW a \in Nat, NEW b \in Nat, a < b, NEW k \in Nat,
         NEW i \in Nat, NEW j \in Nat, Beside(i, a, b), Beside(j, a, b)
  PROVE  /\ Moved(i, a, b, k) \in Nat
         /\ i < j => Moved(i, a, b, k) < Moved(j, a, b, k)
         /\ i <= j => Moved(i, a, b, k) <= Moved(j, a, b, k)
         /\ i <= a => Moved(i, a, b, k) <= a
         /\ b <= i => a + k < Moved(i, a, b, k)
BY DEF Beside, Moved

LEMMA Survival ==
  ASSUME NEW d, WellFormed(d), NEW q, NEW a \in Nat, NEW b \in Nat, a < b, NEW k \in Nat,
         Moves(d, q, a, b, k), NEW y \in DOMAIN d.nodes,
         Begins(q, y) = Begins(d, y), Ends(q, y) = Ends(d, y)
  PROVE  /\ ~Live(d, y) => Perishes(q, y)
         /\ Live(d, y) /\ Goes(d, y, a, b) => Perishes(q, y)
         /\ Live(d, y) /\ Stays(d, y, a, b) => Survives(d, q, y, a, b, k)
<1>0. Begins(d, y) \in DOMAIN d.tokens /\ Ends(d, y) \in DOMAIN d.tokens
  BY DEF WellFormed, Linked, LinkedAt
<1>1. ASSUME NEW e \in {Begins(d, y), Ends(d, y)}
      PROVE  /\ Held(q, e) <=> Held(d, e) /\ (Pos(d, e) <= a \/ b <= Pos(d, e))
             /\ Held(q, e) => Pos(q, e) = Moved(Pos(d, e), a, b, k)
  BY <1>0, <1>1 DEF Moves
<1>2. ASSUME ~Live(d, y) PROVE Perishes(q, y)
  <2>1. ~Held(d, Begins(d, y)) /\ ~Held(d, Ends(d, y))
    BY <1>2 DEF WellFormed, Fallen, FallenAt, Live
  <2> QED BY <1>1, <2>1 DEF Perishes, Live
<1>3. ASSUME Live(d, y)
      PROVE  /\ From(d, y) \in Nat /\ To(d, y) \in Nat
             /\ Held(d, Begins(d, y)) /\ Held(d, Ends(d, y))
  BY <1>3, LiveNode
<1>4. ASSUME Live(d, y), Goes(d, y, a, b) PROVE Perishes(q, y)
  <2>1. ~(From(d, y) <= a) /\ ~(b <= From(d, y)) /\ ~(To(d, y) <= a) /\ ~(b <= To(d, y))
    BY <1>3, <1>4 DEF Goes
  <2> QED BY <1>1, <2>1 DEF Perishes, Live, From, To
<1>5. ASSUME Live(d, y), Stays(d, y, a, b) PROVE Survives(d, q, y, a, b, k)
  BY <1>1, <1>3, <1>5 DEF Survives, Stays, Beside, Live, From, To
<1> QED BY <1>2, <1>4, <1>5

-----------------------------------------------------------------------------
(***************************************************************************)
(* An edit takes the tokens between a and b out of the list, and with them *)
(* node c, if there is one, and what is in it; the tokens of a fragment f  *)
(* take their place.  The nodes of f become new ones, from dn on, but the  *)
(* first one becomes `top', which may be an old node.                      *)
(***************************************************************************)
Plant(j, dn, top) == IF j = 1 THEN top ELSE j + dn

Grafts(d, q, f, dn, top) ==
  /\ dn \in Nat /\ top \in Nat /\ Len(d.nodes) <= dn + 1 /\ top <= dn + 1
  /\ Len(q.tokens) = Len(d.tokens) + Len(f.tokens)
  /\ \A e \in DOMAIN d.tokens : q.tokens[e] = d.tokens[e]
  /\ \A e \in DOMAIN f.tokens : q.tokens[Len(d.tokens) + e] = f.tokens[e]
  /\ DOMAIN q.nodes = DOMAIN d.nodes \union {Plant(j, dn, top) : j \in DOMAIN f.nodes}
  /\ \A y \in DOMAIN d.nodes :
       y # top => Begins(q, y) = Begins(d, y) /\ Ends(q, y) = Ends(d, y) /\ Kind(q, y) = Kind(d, y)
  /\ \A j \in DOMAIN f.nodes :
       LET x == Plant(j, dn, top)
       IN  /\ Kind(q, x) = Kind(f, j)
           /\ Begins(q, x) = Len(d.tokens) + Begins(f, j) /\ Ends(q, x) = Len(d.tokens) + Ends(f, j)
           /\ Kids(q, x) = [i \in DOMAIN Kids(f, j) |-> Kids(f, j)[i] + dn]

\* Child i of node m was its child o before, or is the top of what came in.
Stayed(d, q, m, i, o, c) ==
  o \in DOMAIN Kids(d, m) /\ Kids(q, m)[i] = Kids(d, m)[o] /\ Kids(d, m)[o] # c

Came(d, q, m, i, a, b, top) ==
  /\ Kids(q, m)[i] = top /\ top # 0 /\ m < top /\ Live(d, m) /\ From(d, m) <= a /\ b <= To(d, m)
  /\ Kind(d, m) = "object" => Kind(q, top) = "field"
  /\ Kind(d, m) = "array" => Kind(q, top) = "element"
  /\ Kind(d, m) \in WrapperType => Kind(q, top) \notin WrapperType

\* The children of an old node are still in their order.
Row(d, q, m, a, b, c, top) ==
  /\ Kind(d, m) \notin ContainerType => Len(Kids(q, m)) = Len(Kids(d, m))
  /\ \A o \in DOMAIN Kids(d, m) :
       Kids(d, m)[o] # c => \E i \in DOMAIN Kids(q, m) : Kids(q, m)[i] = Kids(d, m)[o]
  /\ \A i, j \in DOMAIN Kids(q, m) : Kids(q, m)[i] = Kids(q, m)[j] => i = j
  /\ \A i \in DOMAIN Kids(q, m) :
       /\ Came(d, q, m, i, a, b, top) \/ \E o \in DOMAIN Kids(d, m) : Stayed(d, q, m, i, o, c)
       /\ i > 1 =>
            \/ \E o, p \in DOMAIN Kids(d, m) :
                 o < p /\ Stayed(d, q, m, i - 1, o, c) /\ Stayed(d, q, m, i, p, c)
            \/ \E o \in DOMAIN Kids(d, m) :
                 /\ Stayed(d, q, m, i - 1, o, c) /\ To(d, Kids(d, m)[o]) <= a
                 /\ Came(d, q, m, i, a, b, top)
            \/ \E p \in DOMAIN Kids(d, m) :
                 /\ Came(d, q, m, i - 1, a, b, top)
                 /\ Stayed(d, q, m, i, p, c) /\ b <= From(d, Kids(d, m)[p])

Hosts(q, m, top) == \E i \in DOMAIN Kids(q, m) : Kids(q, m)[i] = top

Edits(d, q, f, a, b, c, dn, top) ==
  /\ WellFormed(d) /\ Fragment(f)
  /\ a \in Nat /\ b \in Nat /\ a < b
  /\ Listed(q) /\ Moves(d, q, a, b, Len(f.tokens)) /\ Parts(d, a, b, c)
  /\ Grafts(d, q, f, dn, top)
  /\ top \in DOMAIN d.nodes => top = c
  /\ top # 0 <=> f.nodes # <<>>
  /\ c \in DOMAIN d.nodes => Live(d, c) /\ Goes(d, c, a, b)
  /\ IF top = 1 THEN Kind(q, top) \notin WrapperType ELSE Stays(d, 1, a, b)
  /\ top \notin {0, 1} => \E m \in DOMAIN d.nodes : m # top /\ Hosts(q, m, top)
  /\ \A m, n \in DOMAIN d.nodes \ {top} : Hosts(q, m, top) /\ Hosts(q, n, top) => m = n
  /\ \A m \in DOMAIN d.nodes \ {top} : Row(d, q, m, a, b, c, top)

\* What has to be shown of each node.
Fits(d, k) == LinkedAt(d, k) /\ FormedAt(d, k) /\ StandingAt(d, k) /\ FallenAt(d, k)

LEMMA Shifted ==
  ASSUME NEW m \in Nat, NEW n \in Nat
  PROVE  /\ \A i \in 1 .. n : m + i \in 1 .. m + n
         /\ \A i, j \in Nat : (i < j => m + i < m + j) /\ (i <= j => m + i <= m + j)
OBVIOUS

\* The nodes of the fragment.
LEMMA Planted ==
  ASSUME NEW d, NEW q, NEW f, NEW a, NEW b, NEW c, NEW dn, NEW top,
         Edits(d, q, f, a, b, c, dn, top), NEW j \in DOMAIN f.nodes
  PROVE  LET x == Plant(j, dn, top)
         IN  /\ x \in DOMAIN q.nodes /\ x <= j + dn /\ x \in Nat
             /\ Live(q, x) /\ Held(q, Ends(q, x))
             /\ From(q, x) = a + Begins(f, j) /\ To(q, x) = a + Ends(f, j)
             /\ Begins(f, j) \in 1 .. Len(f.tokens) /\ Ends(f, j) \in 1 .. Len(f.tokens)
             /\ Kind(q, x) = Kind(f, j)
             /\ Begins(q, x) = Len(d.tokens) + Begins(f, j) /\ Ends(q, x) = Len(d.tokens) + Ends(f, j)
<1> DEFINE x == Plant(j, dn, top)
           B == Begins(f, j)
           E == Ends(f, j)
<1>1. /\ Len(f.tokens) \in Nat /\ DOMAIN f.tokens = 1 .. Len(f.tokens)
      /\ Len(f.nodes) \in Nat /\ DOMAIN f.nodes = 1 .. Len(f.nodes)
  BY DocumentIs DEF Edits, Fragment
<1>2. B \in 1 .. Len(f.tokens) /\ E \in 1 .. Len(f.tokens)
  BY <1>1 DEF Edits, Fragment, Linked, LinkedAt
<1>3. /\ Kind(q, x) = Kind(f, j)
      /\ Begins(q, x) = Len(d.tokens) + B /\ Ends(q, x) = Len(d.tokens) + E
  BY DEF Edits, Grafts
<1>4. /\ Held(q, Len(d.tokens) + B) /\ Pos(q, Len(d.tokens) + B) = a + B
      /\ Held(q, Len(d.tokens) + E) /\ Pos(q, Len(d.tokens) + E) = a + E
  BY <1>2 DEF Edits, Moves
<1>5. x \in DOMAIN q.nodes
  BY DEF Edits, Grafts
<1>6. dn \in Nat /\ top \in Nat /\ top <= dn + 1 /\ j \in Nat
  BY <1>1 DEF Edits, Grafts
<1>7. x <= j + dn /\ x \in Nat
  BY <1>6 DEF Plant
<1> HIDE DEF x, B, E
<1>8. Live(q, x) /\ Held(q, Ends(q, x)) /\ From(q, x) = a + B /\ To(q, x) = a + E
  BY <1>3, <1>4 DEF Live, From, To
<1> QED BY <1>2, <1>3, <1>5, <1>7, <1>8 DEF x, B, E

LEMMA NewFits ==
  ASSUME NEW d, NEW q, NEW f, NEW a, NEW b, NEW c, NEW dn, NEW top,
         Edits(d, q, f, a, b, c, dn, top), NEW j \in DOMAIN f.nodes
  PROVE  Fits(q, Plant(j, dn, top))
<1> DEFINE x == Plant(j, dn, top)
<1>1. /\ Len(f.tokens) \in Nat /\ DOMAIN f.tokens = 1 .. Len(f.tokens)
      /\ Len(f.nodes) \in Nat /\ DOMAIN f.nodes = 1 .. Len(f.nodes)
      /\ Len(d.tokens) \in Nat /\ DOMAIN q.tokens = 1 .. Len(q.tokens)
      /\ Len(q.tokens) = Len(d.tokens) + Len(f.tokens) /\ dn \in Nat /\ a \in Nat
      /\ Begins(f, j) \in Nat /\ Ends(f, j) \in Nat
  BY DocumentIs DEF Edits, Fragment, Listed, WellFormed, Grafts
<1>2. /\ x \in DOMAIN q.nodes /\ x <= j + dn /\ x \in Nat
      /\ Live(q, x) /\ Held(q, Ends(q, x))
      /\ From(q, x) = a + Begins(f, j) /\ To(q, x) = a + Ends(f, j)
      /\ Begins(f, j) \in 1 .. Len(f.tokens) /\ Ends(f, j) \in 1 .. Len(f.tokens)
      /\ Kind(q, x) = Kind(f, j)
      /\ Begins(q, x) = Len(d.tokens) + Begins(f, j) /\ Ends(q, x) = Len(d.tokens) + Ends(f, j)
  BY Planted
<1>3. Kids(q, x) = [i \in DOMAIN Kids(f, j) |-> Kids(f, j)[i] + dn]
  BY DEF Edits, Grafts
<1>4. LinkedAt(f, j) /\ FormedAt(f, j)
  BY DEF Edits, Fragment, Linked, Formed
<1> HIDE DEF x
\* A child.
<1>5. ASSUME NEW i \in DOMAIN Kids(f, j)
      PROVE  LET e == Kids(f, j)[i] + dn
             IN  /\ Kids(q, x)[i] = e /\ e \in DOMAIN q.nodes /\ x < e
                 /\ Live(q, e) /\ Kind(q, e) = Kind(f, Kids(f, j)[i])
                 /\ From(q, e) = a + Begins(f, Kids(f, j)[i]) /\ To(q, e) = a + Ends(f, Kids(f, j)[i])
                 /\ Begins(f, Kids(f, j)[i]) \in Nat /\ Ends(f, Kids(f, j)[i]) \in Nat
  <2> DEFINE g == Kids(f, j)[i]
  <2>1. g \in DOMAIN f.nodes /\ j < g
    BY <1>4 DEF LinkedAt
  <2>2. Kids(q, x)[i] = g + dn
    BY <1>3
  <2> HIDE DEF g
  <2>3. Plant(g, dn, top) = g + dn
    BY <1>1, <2>1 DEF Plant
  <2>4. /\ g + dn \in DOMAIN q.nodes /\ Live(q, g + dn) /\ Kind(q, g + dn) = Kind(f, g)
        /\ From(q, g + dn) = a + Begins(f, g) /\ To(q, g + dn) = a + Ends(f, g)
        /\ Begins(f, g) \in 1 .. Len(f.tokens) /\ Ends(f, g) \in 1 .. Len(f.tokens)
    BY <2>1, <2>3, Planted
  <2>5. x < g + dn
    BY <1>1, <1>2, <2>1
  <2> QED BY <1>1, <2>2, <2>4, <2>5 DEF g
<1>6. DOMAIN Kids(q, x) = DOMAIN Kids(f, j) /\ Len(Kids(q, x)) = Len(Kids(f, j))
  <2>1. Len(Kids(f, j)) \in Nat /\ DOMAIN Kids(f, j) = 1 .. Len(Kids(f, j))
    BY DocumentIs DEF Edits, Fragment
  <2> QED BY <1>3, <2>1
<1>7. LinkedAt(q, x)
  <2>1. ASSUME NEW e \in 1 .. Len(f.tokens) PROVE Len(d.tokens) + e \in DOMAIN q.tokens
    <3>1. Len(d.tokens) + e \in 1 .. Len(d.tokens) + Len(f.tokens)
      BY <1>1, Shifted
    <3> QED BY <1>1, <3>1, Zenon
  <2>2. Begins(q, x) \in DOMAIN q.tokens /\ Ends(q, x) \in DOMAIN q.tokens
    BY <1>2, <2>1
  <2> QED BY <1>5, <1>6, <2>2 DEF LinkedAt
<1>8. FormedAt(q, x)
  <2>1. Full(q, x)
    BY <1>2, <1>4, <1>6 DEF FormedAt, Full
  <2>2. Kind(q, x) \notin ContainerType \union WrapperType => Kids(q, x) = <<>> /\ Ends(q, x) = Begins(q, x)
    BY <1>2, <1>3, <1>4 DEF FormedAt
  <2>3. Kind(q, x) \in ContainerType => Opening(q.tokens[Begins(q, x)])
    <3>1. q.tokens[Begins(q, x)] = f.tokens[Begins(f, j)]
      BY <1>1, <1>2 DEF Edits, Grafts
    <3> QED BY <1>2, <1>4, <3>1 DEF FormedAt
  <2>4. ASSUME NEW i \in DOMAIN Kids(q, x)
        PROVE  /\ Kind(q, x) = "object" => Kind(q, Kids(q, x)[i]) = "field"
               /\ Kind(q, x) = "array" => Kind(q, Kids(q, x)[i]) = "element"
               /\ Kind(q, x) \in WrapperType => Kind(q, Kids(q, x)[i]) \notin WrapperType
    BY <1>2, <1>4, <1>5, <1>6 DEF FormedAt
  <2> QED BY <2>1, <2>2, <2>3, <2>4 DEF FormedAt
<1>9. StandingAt(q, x)
  <2>1. /\ Begins(f, j) <= Ends(f, j)
        /\ Kind(f, j) \in ContainerType => Begins(f, j) < Ends(f, j)
    BY DEF Edits, Fragment, Nests
  <2>2. From(q, x) <= To(q, x) /\ (Kind(q, x) \in ContainerType => From(q, x) < To(q, x))
    BY <1>1, <1>2, <2>1
  <2>3. ASSUME NEW i \in DOMAIN Kids(q, x)
        PROVE  LET e == Kids(q, x)[i]
               IN  /\ Live(q, e) /\ From(q, x) < From(q, e) /\ To(q, e) < To(q, x)
                   /\ i > 1 => To(q, Kids(q, x)[i - 1]) < From(q, e)
    <3>1. i \in DOMAIN Kids(f, j)
      BY <1>6
    <3>2. /\ Begins(f, j) < Begins(f, Kids(f, j)[i]) /\ Ends(f, Kids(f, j)[i]) < Ends(f, j)
          /\ i > 1 => Ends(f, Kids(f, j)[i - 1]) < Begins(f, Kids(f, j)[i])
      BY <3>1 DEF Edits, Fragment, Nests
    <3>3. Live(q, Kids(q, x)[i]) /\ From(q, x) < From(q, Kids(q, x)[i]) /\ To(q, Kids(q, x)[i]) < To(q, x)
      <4>1. /\ Live(q, Kids(q, x)[i])
            /\ From(q, Kids(q, x)[i]) = a + Begins(f, Kids(f, j)[i])
            /\ To(q, Kids(q, x)[i]) = a + Ends(f, Kids(f, j)[i])
            /\ Begins(f, Kids(f, j)[i]) \in Nat /\ Ends(f, Kids(f, j)[i]) \in Nat
        BY <1>5, <3>1
      <4>2. /\ a + Begins(f, j) < a + Begins(f, Kids(f, j)[i])
            /\ a + Ends(f, Kids(f, j)[i]) < a + Ends(f, j)
        BY <1>1, <3>2, <4>1, Shifted
      <4> QED BY <1>2, <4>1, <4>2, Zenon
    <3>4. ASSUME i > 1 PROVE To(q, Kids(q, x)[i - 1]) < From(q, Kids(q, x)[i])
      <4>1. i - 1 \in DOMAIN Kids(f, j)
        <5>1. Len(Kids(f, j)) \in Nat /\ DOMAIN Kids(f, j) = 1 .. Len(Kids(f, j))
          BY DocumentIs DEF Edits, Fragment
        <5> QED BY <3>1, <3>4, <5>1
      <4>2. To(q, Kids(q, x)[i - 1]) = a + Ends(f, Kids(f, j)[i - 1]) /\ Ends(f, Kids(f, j)[i - 1]) \in Nat
        BY <1>5, <4>1
      <4>3. From(q, Kids(q, x)[i]) = a + Begins(f, Kids(f, j)[i]) /\ Begins(f, Kids(f, j)[i]) \in Nat
        BY <1>5, <3>1
      <4> QED BY <1>1, <3>2, <3>4, <4>2, <4>3
    <3> QED BY <3>3, <3>4
  <2> QED BY <1>2, <2>2, <2>3 DEF StandingAt
<1>10. FallenAt(q, x)
  BY <1>2 DEF FallenAt
<1> QED BY <1>7, <1>8, <1>9, <1>10 DEF Fits, x

LEMMA TopPlanted ==
  ASSUME NEW d, NEW q, NEW f, NEW a, NEW b, NEW c, NEW dn, NEW top,
         Edits(d, q, f, a, b, c, dn, top), top # 0
  PROVE  /\ top \in DOMAIN q.nodes /\ 1 \in DOMAIN f.nodes /\ Plant(1, dn, top) = top
         /\ Live(q, top) /\ Held(q, Ends(q, top))
         /\ From(q, top) \in Nat /\ To(q, top) \in Nat
         /\ a < From(q, top) /\ To(q, top) <= a + Len(f.tokens)
<1>1. 1 \in DOMAIN f.nodes
  <2>1. f.nodes \in Seq(NodeRecord) /\ f.nodes # <<>>
    BY DEF Edits, Fragment
  <2> HIDE DEF NodeRecord
  <2> QED BY <2>1
<1>2. Plant(1, dn, top) = top
  BY DEF Plant
<1>3. /\ top \in DOMAIN q.nodes /\ Live(q, top) /\ Held(q, Ends(q, top))
      /\ From(q, top) = a + Begins(f, 1) /\ To(q, top) = a + Ends(f, 1)
      /\ Begins(f, 1) \in 1 .. Len(f.tokens) /\ Ends(f, 1) \in 1 .. Len(f.tokens)
  BY <1>1, <1>2, Planted
<1>4. Len(f.tokens) \in Nat /\ a \in Nat
  BY DocumentIs DEF Edits, Fragment
<1>5. \A i \in 1 .. Len(f.tokens) : a + i \in Nat /\ a < a + i /\ a + i <= a + Len(f.tokens)
  <2> DEFINE k == Len(f.tokens)
  <2>1. k \in Nat /\ a \in Nat
    BY <1>4
  <2> HIDE DEF k
  <2>2. \A i \in 1 .. k : a + i \in Nat /\ a < a + i /\ a + i <= a + k
    BY <2>1
  <2> QED BY <2>2 DEF k
<1> QED BY <1>1, <1>2, <1>3, <1>5

\* What becomes of a node that is not replaced.
LEMMA Remains ==
  ASSUME NEW d, NEW q, NEW f, NEW a, NEW b, NEW c, NEW dn, NEW top,
         Edits(d, q, f, a, b, c, dn, top), NEW y \in DOMAIN d.nodes, y # top
  PROVE  /\ Begins(q, y) = Begins(d, y) /\ Ends(q, y) = Ends(d, y) /\ Kind(q, y) = Kind(d, y)
         /\ y \in DOMAIN q.nodes
         /\ ~Live(d, y) => Perishes(q, y)
         /\ Live(d, y) /\ Goes(d, y, a, b) => Perishes(q, y)
         /\ Live(d, y) /\ Stays(d, y, a, b) => Survives(d, q, y, a, b, Len(f.tokens))
         /\ Live(d, y) => Stays(d, y, a, b) \/ Goes(d, y, a, b)
<1>1. /\ Begins(q, y) = Begins(d, y) /\ Ends(q, y) = Ends(d, y) /\ Kind(q, y) = Kind(d, y)
      /\ y \in DOMAIN q.nodes
  BY DEF Edits, Grafts
<1>2. Len(f.tokens) \in Nat /\ a \in Nat /\ b \in Nat /\ a < b
  BY DocumentIs DEF Edits, Fragment
<1>3. WellFormed(d) /\ Moves(d, q, a, b, Len(f.tokens))
  BY DEF Edits
<1>4. Live(d, y) => Stays(d, y, a, b) \/ Goes(d, y, a, b)
  BY DEF Edits, Parts
<1> QED BY <1>1, <1>2, <1>3, <1>4, Survival

LEMMA OldFits ==
  ASSUME NEW d, NEW q, NEW f, NEW a, NEW b, NEW c, NEW dn, NEW top,
         Edits(d, q, f, a, b, c, dn, top), NEW m \in DOMAIN d.nodes, m # top
  PROVE  Fits(q, m)
<1> DEFINE k == Len(f.tokens)
           K == Kids(d, m)
           R == Kids(q, m)
<1>0. a \in Nat /\ b \in Nat /\ a < b /\ k \in Nat /\ WellFormed(d)
  BY DocumentIs DEF Edits, Fragment
<1>1. LinkedAt(d, m) /\ FormedAt(d, m) /\ StandingAt(d, m) /\ FallenAt(d, m)
  BY <1>0 DEF WellFormed, Linked, Formed, Standing, Fallen
<1>2. /\ Begins(q, m) = Begins(d, m) /\ Ends(q, m) = Ends(d, m) /\ Kind(q, m) = Kind(d, m)
      /\ m \in DOMAIN q.nodes
      /\ ~Live(d, m) => Perishes(q, m)
      /\ Live(d, m) /\ Goes(d, m, a, b) => Perishes(q, m)
      /\ Live(d, m) /\ Stays(d, m, a, b) => Survives(d, q, m, a, b, k)
      /\ Live(d, m) => Stays(d, m, a, b) \/ Goes(d, m, a, b)
  BY Remains
<1>3. Row(d, q, m, a, b, c, top)
  BY DEF Edits
<1>4. /\ Len(K) \in Nat /\ DOMAIN K = 1 .. Len(K) /\ Len(R) \in Nat /\ DOMAIN R = 1 .. Len(R)
      /\ Kind(d, m) \in NodeType
  BY <1>0, <1>2, DocumentIs DEF Edits, WellFormed, Listed
\* A child that was there before.
<1>5. ASSUME NEW o \in DOMAIN K, K[o] # c
      PROVE  /\ K[o] \in DOMAIN d.nodes /\ K[o] # top /\ m < K[o]
             /\ K[o] \in DOMAIN q.nodes /\ Kind(q, K[o]) = Kind(d, K[o])
             /\ ~Live(d, K[o]) => Perishes(q, K[o])
             /\ Live(d, K[o]) /\ Goes(d, K[o], a, b) => Perishes(q, K[o])
             /\ Live(d, K[o]) /\ Stays(d, K[o], a, b) => Survives(d, q, K[o], a, b, k)
             /\ Live(d, K[o]) => Stays(d, K[o], a, b) \/ Goes(d, K[o], a, b)
  <2> DEFINE e == K[o]
  <2>1. e \in DOMAIN d.nodes /\ m < e
    BY <1>1, <1>5 DEF LinkedAt
  <2>2. e # top
    BY <1>5, <2>1 DEF Edits
  <2> HIDE DEF e
  <2>3. /\ e \in DOMAIN q.nodes /\ Kind(q, e) = Kind(d, e)
        /\ ~Live(d, e) => Perishes(q, e)
        /\ Live(d, e) /\ Goes(d, e, a, b) => Perishes(q, e)
        /\ Live(d, e) /\ Stays(d, e, a, b) => Survives(d, q, e, a, b, k)
        /\ Live(d, e) => Stays(d, e, a, b) \/ Goes(d, e, a, b)
    BY <2>1, <2>2, Remains
  <2> QED BY <2>1, <2>2, <2>3 DEF e
<1> HIDE DEF K, R, k
<1>6. \A i \in DOMAIN R : Came(d, q, m, i, a, b, top) \/ \E o \in DOMAIN K : Stayed(d, q, m, i, o, c)
  BY <1>3 DEF Row, R, K
<1>7. /\ \A i : Came(d, q, m, i, a, b, top) =>
             /\ R[i] = top /\ top # 0 /\ m < top /\ Live(d, m) /\ From(d, m) <= a /\ b <= To(d, m)
             /\ Kind(d, m) = "object" => Kind(q, top) = "field"
             /\ Kind(d, m) = "array" => Kind(q, top) = "element"
             /\ Kind(d, m) \in WrapperType => Kind(q, top) \notin WrapperType
      /\ \A i, o : Stayed(d, q, m, i, o, c) => o \in DOMAIN K /\ R[i] = K[o] /\ K[o] # c
  BY DEF Came, Stayed, R, K
<1>8. top # 0 => /\ top \in DOMAIN q.nodes /\ Live(q, top) /\ Held(q, Ends(q, top))
                 /\ From(q, top) \in Nat /\ To(q, top) \in Nat
                 /\ a < From(q, top) /\ To(q, top) <= a + k
  BY TopPlanted DEF k
<1>9. LinkedAt(q, m)
  <2>1. Begins(q, m) \in DOMAIN q.tokens /\ Ends(q, m) \in DOMAIN q.tokens
    <3>1. Begins(d, m) \in DOMAIN d.tokens /\ Ends(d, m) \in DOMAIN d.tokens
      BY <1>1 DEF LinkedAt
    <3>2. \A e \in DOMAIN d.tokens : e \in DOMAIN q.tokens
      <4> DEFINE T == Len(d.tokens)
      <4>1. T \in Nat /\ DOMAIN d.tokens = 1 .. T /\ DOMAIN q.tokens = 1 .. T + k
        BY <1>0, DocumentIs DEF Edits, WellFormed, Listed, Grafts, k
      <4> HIDE DEF T
      <4> QED BY <1>0, <4>1
    <3> QED BY <1>2, <3>1, <3>2
  <2>2. ASSUME NEW i \in DOMAIN R PROVE R[i] \in DOMAIN q.nodes /\ m < R[i]
    <3>1. CASE Came(d, q, m, i, a, b, top)
      BY <1>7, <1>8, <3>1
    <3>2. CASE \E o \in DOMAIN K : Stayed(d, q, m, i, o, c)
      BY <1>5, <1>7, <3>2
    <3> QED BY <1>6, <3>1, <3>2
  <2> QED BY <2>1, <2>2 DEF LinkedAt, R
<1>10. FormedAt(q, m)
  <2>1. Kind(d, m) \notin ContainerType => Len(R) = Len(K)
    BY <1>3 DEF Row, R, K
  <2>2. Full(q, m)
    BY <1>1, <1>2, <2>1 DEF FormedAt, Full, R, K, ContainerType
  <2>3. Kind(q, m) \notin ContainerType \union WrapperType => R = <<>> /\ Ends(q, m) = Begins(q, m)
    <3>1. Kind(d, m) \notin ContainerType \union WrapperType => K = <<>> /\ Ends(d, m) = Begins(d, m)
      BY <1>1 DEF FormedAt, K
    <3>2. Len(R) = 0 => R = <<>>
      <4>1. R \in Seq(Nat)
        BY <1>2, DocumentIs DEF R, Edits, Listed
      <4> QED BY <4>1
    <3> QED BY <1>2, <2>1, <3>1, <3>2
  <2>4. Kind(q, m) \in ContainerType => Opening(q.tokens[Begins(q, m)])
    <3>1. Begins(d, m) \in DOMAIN d.tokens /\ (Kind(d, m) \in ContainerType => Opening(d.tokens[Begins(d, m)]))
      BY <1>1 DEF FormedAt, LinkedAt
    <3>2. q.tokens[Begins(d, m)] = d.tokens[Begins(d, m)]
      BY <3>1 DEF Edits, Grafts
    <3> QED BY <1>2, <3>1, <3>2
  <2>5. ASSUME NEW i \in DOMAIN R
        PROVE  /\ Kind(q, m) = "object" => Kind(q, R[i]) = "field"
               /\ Kind(q, m) = "array" => Kind(q, R[i]) = "element"
               /\ Kind(q, m) \in WrapperType => Kind(q, R[i]) \notin WrapperType
    <3>1. CASE Came(d, q, m, i, a, b, top)
      BY <1>2, <1>7, <3>1
    <3>2. CASE \E o \in DOMAIN K : Stayed(d, q, m, i, o, c)
      <4>1. PICK o \in DOMAIN K : R[i] = K[o] /\ K[o] # c
        BY <1>7, <3>2
      <4>2. /\ Kind(d, m) = "object" => Kind(d, K[o]) = "field"
            /\ Kind(d, m) = "array" => Kind(d, K[o]) = "element"
            /\ Kind(d, m) \in WrapperType => Kind(d, K[o]) \notin WrapperType
        BY <1>1 DEF FormedAt, K
      <4>3. Kind(q, R[i]) = Kind(d, K[o])
        BY <1>5, <4>1
      <4> QED BY <1>2, <4>2, <4>3
    <3> QED BY <1>6, <3>1, <3>2
  <2> QED BY <2>2, <2>3, <2>4, <2>5 DEF FormedAt, R
\* A node that goes, or had gone before.
<1>11. ASSUME ~Live(d, m) \/ Goes(d, m, a, b), NEW i \in DOMAIN R PROVE ~Live(q, R[i])
  <2>1. ~Came(d, q, m, i, a, b, top)
    <3>1. Live(d, m) => From(d, m) \in Nat
      BY <1>0, LiveNode
    <3>2. Live(d, m) /\ Goes(d, m, a, b) => ~(From(d, m) <= a)
      BY <1>0, <3>1 DEF Goes
    <3> QED BY <1>7, <1>11, <3>2
  <2>2. PICK o \in DOMAIN K : R[i] = K[o] /\ K[o] # c
    BY <1>6, <1>7, <2>1
  <2>3. ~Live(d, m) => ~Live(d, K[o])
    BY <1>1 DEF FallenAt, K
  <2>4. Live(d, m) /\ Goes(d, m, a, b) => Goes(d, K[o], a, b)
    BY DEF Edits, Parts, K
  <2>5. Perishes(q, K[o])
    BY <1>5, <1>11, <2>2, <2>3, <2>4
  <2> QED BY <2>2, <2>5 DEF Perishes
<1>12. FallenAt(q, m)
  <2>1. ASSUME ~Live(q, m) PROVE ~Held(q, Ends(q, m)) /\ \A i \in DOMAIN R : ~Live(q, R[i])
    <3>1. ~Survives(d, q, m, a, b, k)
      BY <2>1 DEF Survives
    <3>2. Perishes(q, m) /\ (~Live(d, m) \/ Goes(d, m, a, b))
      BY <1>2, <3>1
    <3> QED BY <1>11, <3>2 DEF Perishes
  <2> QED BY <2>1 DEF FallenAt, R
<1>13. StandingAt(q, m)
  <2> SUFFICES ASSUME Live(q, m) PROVE StandingAt(q, m)
    BY DEF StandingAt
  <2>1. Live(d, m) /\ Stays(d, m, a, b) /\ Survives(d, q, m, a, b, k)
    BY <1>2 DEF Perishes
  <2>2. /\ From(d, m) \in Nat /\ To(d, m) \in Nat /\ From(d, m) <= To(d, m)
        /\ Kind(d, m) \in ContainerType => From(d, m) < To(d, m)
        /\ \A o \in DOMAIN K : Within(d, m, K[o])
    BY <1>0, <2>1, LiveNode DEF K
  <2> DEFINE V(i) == Moved(i, a, b, k)
  <2>3. /\ Held(q, Ends(q, m)) /\ From(q, m) = V(From(d, m)) /\ To(q, m) = V(To(d, m))
        /\ Beside(From(d, m), a, b) /\ Beside(To(d, m), a, b)
    BY <2>1 DEF Survives, Stays
  <2>4. \A i, j \in Nat : Beside(i, a, b) /\ Beside(j, a, b) =>
          /\ V(i) \in Nat /\ (i < j => V(i) < V(j)) /\ (i <= j => V(i) <= V(j))
          /\ (i <= a => V(i) <= a) /\ (b <= i => a + k < V(i))
    BY <1>0, Moving
  <2> HIDE DEF V
  <2>5. ASSUME NEW o \in DOMAIN K, K[o] # c
        PROVE  /\ Live(q, K[o]) /\ From(q, K[o]) = V(From(d, K[o])) /\ To(q, K[o]) = V(To(d, K[o]))
               /\ Beside(From(d, K[o]), a, b) /\ Beside(To(d, K[o]), a, b)
               /\ From(d, m) < From(d, K[o]) /\ To(d, K[o]) < To(d, m)
               /\ From(d, K[o]) \in Nat /\ To(d, K[o]) \in Nat
    <3>1. /\ K[o] \in DOMAIN d.nodes /\ Live(d, K[o])
          /\ From(d, m) < From(d, K[o]) /\ To(d, K[o]) < To(d, m)
      BY <2>2 DEF Within
    <3>2. Stays(d, m, a, b) /\ Goes(d, K[o], a, b) => K[o] = c
      BY <2>1 DEF Edits, Parts, K
    <3>3. Stays(d, K[o], a, b) /\ Survives(d, q, K[o], a, b, k)
      BY <1>5, <2>1, <2>5, <3>1, <3>2
    <3>4. From(d, K[o]) \in Nat /\ To(d, K[o]) \in Nat
      BY <1>0, <3>1, LiveNode
    <3> QED BY <3>1, <3>3, <3>4 DEF Survives, Stays, V
  <2>6. From(q, m) <= To(q, m) /\ (Kind(q, m) \in ContainerType => From(q, m) < To(q, m))
    BY <1>2, <2>2, <2>3, <2>4
  <2>7. ASSUME NEW i \in DOMAIN R
        PROVE  Live(q, R[i]) /\ From(q, m) < From(q, R[i]) /\ To(q, R[i]) < To(q, m)
    <3>1. CASE Came(d, q, m, i, a, b, top)
      <4>1. From(q, m) <= a /\ a + k < To(q, m) /\ From(q, m) \in Nat /\ To(q, m) \in Nat
        BY <1>7, <2>2, <2>3, <2>4, <3>1
      <4>2. /\ R[i] = top /\ Live(q, top) /\ From(q, top) \in Nat /\ To(q, top) \in Nat
            /\ a < From(q, top) /\ To(q, top) <= a + k
        BY <1>7, <1>8, <3>1
      <4> QED BY <1>0, <4>1, <4>2
    <3>2. CASE \E o \in DOMAIN K : Stayed(d, q, m, i, o, c)
      <4>1. PICK o \in DOMAIN K : R[i] = K[o] /\ K[o] # c
        BY <1>7, <3>2
      <4> QED BY <2>2, <2>3, <2>4, <2>5, <4>1
    <3> QED BY <1>6, <3>1, <3>2
  <2>8. ASSUME NEW i \in DOMAIN R, i > 1 PROVE To(q, R[i - 1]) < From(q, R[i])
    <3>1. CASE \E o, p \in DOMAIN K :
                 o < p /\ Stayed(d, q, m, i - 1, o, c) /\ Stayed(d, q, m, i, p, c)
      <4>1. PICK o \in DOMAIN K, p \in DOMAIN K :
                   o < p /\ R[i - 1] = K[o] /\ K[o] # c /\ R[i] = K[p] /\ K[p] # c
        BY <1>7, <3>1
      <4>2. To(d, K[o]) < From(d, K[p])
        BY <1>0, <2>1, <4>1, KidsInOrder DEF K
      <4>3. /\ To(q, K[o]) = V(To(d, K[o])) /\ Beside(To(d, K[o]), a, b) /\ To(d, K[o]) \in Nat
            /\ From(q, K[p]) = V(From(d, K[p])) /\ Beside(From(d, K[p]), a, b) /\ From(d, K[p]) \in Nat
        BY <2>5, <4>1
      <4> QED BY <2>4, <4>1, <4>2, <4>3
    <3>2. CASE \E o \in DOMAIN K :
                 /\ Stayed(d, q, m, i - 1, o, c) /\ To(d, Kids(d, m)[o]) <= a
                 /\ Came(d, q, m, i, a, b, top)
      <4>1. PICK o \in DOMAIN K : R[i - 1] = K[o] /\ K[o] # c /\ To(d, K[o]) <= a
        BY <1>7, <3>2 DEF K
      <4>2. To(q, K[o]) <= a /\ To(q, K[o]) \in Nat
        BY <2>4, <2>5, <4>1
      <4>3. R[i] = top /\ From(q, top) \in Nat /\ a < From(q, top)
        BY <1>7, <1>8, <3>2
      <4> QED BY <1>0, <4>1, <4>2, <4>3
    <3>3. CASE \E p \in DOMAIN K :
                 /\ Came(d, q, m, i - 1, a, b, top)
                 /\ Stayed(d, q, m, i, p, c) /\ b <= From(d, Kids(d, m)[p])
      <4>1. PICK p \in DOMAIN K : R[i] = K[p] /\ K[p] # c /\ b <= From(d, K[p])
        BY <1>7, <3>3 DEF K
      <4>2. a + k < From(q, K[p]) /\ From(q, K[p]) \in Nat
        BY <2>4, <2>5, <4>1
      <4>3. R[i - 1] = top /\ To(q, top) \in Nat /\ To(q, top) <= a + k
        BY <1>7, <1>8, <3>3
      <4> QED BY <1>0, <4>1, <4>2, <4>3
    <3> QED BY <1>3, <2>8, <3>1, <3>2, <3>3 DEF Row, R, K
  <2> QED BY <2>3, <2>6, <2>7, <2>8 DEF StandingAt, R
<1> QED BY <1>9, <1>10, <1>12, <1>13 DEF Fits

LEMMA EditListed ==
  ASSUME NEW d, NEW q, NEW f, NEW a, NEW b, NEW c, NEW dn, NEW top,
         Edits(d, q, f, a, b, c, dn, top)
  PROVE  /\ Listed(q) /\ Linked(q) /\ Formed(q) /\ Standing(q) /\ Fallen(q)
         /\ \A y \in DOMAIN q.nodes :
              \/ y \in DOMAIN d.nodes /\ y # top
              \/ \E j \in DOMAIN f.nodes : y = Plant(j, dn, top)
<1>1. \A y \in DOMAIN q.nodes :
        \/ y \in DOMAIN d.nodes /\ y # top
        \/ \E j \in DOMAIN f.nodes : y = Plant(j, dn, top)
  <2>1. ASSUME NEW y \in DOMAIN d.nodes, y = top PROVE 1 \in DOMAIN f.nodes /\ Plant(1, dn, top) = y
    <3>1. top # 0
      BY <2>1, DocumentIs DEF Edits, WellFormed, Listed
    <3> QED BY <2>1, <3>1, TopPlanted
  <2>2. DOMAIN q.nodes = DOMAIN d.nodes \union {Plant(j, dn, top) : j \in DOMAIN f.nodes}
    BY DEF Edits, Grafts
  <2> QED BY <2>1, <2>2
<1>2. \A y \in DOMAIN q.nodes : Fits(q, y)
  BY <1>1, OldFits, NewFits
<1>3. Listed(q)
  BY DEF Edits
<1> QED BY <1>1, <1>2, <1>3 DEF Fits, Linked, Formed, Standing, Fallen

\* The numbers of new nodes are new.
LEMMA NewNumbers ==
  ASSUME NEW d, NEW q, NEW f, NEW a, NEW b, NEW c, NEW dn, NEW top,
         Edits(d, q, f, a, b, c, dn, top), NEW j \in DOMAIN f.nodes
  PROVE  /\ j \in Nat /\ dn \in Nat
         /\ \A i \in DOMAIN Kids(f, j) :
              /\ Kids(f, j)[i] \in DOMAIN f.nodes /\ Kids(f, j)[i] \in Nat
              /\ Kids(f, j)[i] + dn \notin DOMAIN d.nodes /\ Kids(f, j)[i] + dn # top
              /\ Plant(Kids(f, j)[i], dn, top) = Kids(f, j)[i] + dn
              /\ Kids(q, Plant(j, dn, top))[i] = Kids(f, j)[i] + dn
         /\ DOMAIN Kids(q, Plant(j, dn, top)) = DOMAIN Kids(f, j)
<1>1. /\ DOMAIN f.nodes = 1 .. Len(f.nodes) /\ Len(f.nodes) \in Nat
      /\ DOMAIN d.nodes = 1 .. Len(d.nodes) /\ Len(d.nodes) \in Nat
  BY DocumentIs DEF Edits, WellFormed, Listed, Fragment
<1>2. /\ dn \in Nat /\ top \in Nat /\ Len(d.nodes) <= dn + 1 /\ top <= dn + 1
      /\ Kids(q, Plant(j, dn, top)) = [i \in DOMAIN Kids(f, j) |-> Kids(f, j)[i] + dn]
  BY DEF Edits, Grafts
<1>3. \A i \in DOMAIN Kids(f, j) : Kids(f, j)[i] \in DOMAIN f.nodes /\ j < Kids(f, j)[i]
  BY DEF Edits, Fragment, Linked, LinkedAt
<1>4. \A e \in DOMAIN f.nodes : j < e => /\ e \in Nat /\ e # 1 /\ e + dn \notin DOMAIN d.nodes /\ e + dn # top
  <2> DEFINE N == Len(d.nodes)
             M == Len(f.nodes)
  <2>1. N \in Nat /\ M \in Nat /\ N <= dn + 1 /\ DOMAIN d.nodes = 1 .. N /\ DOMAIN f.nodes = 1 .. M
    BY <1>1, <1>2
  <2> HIDE DEF N, M
  <2> QED BY <1>2, <2>1
<1> QED BY <1>1, <1>2, <1>3, <1>4 DEF Plant

LEMMA EditOneParent ==
  ASSUME NEW d, NEW q, NEW f, NEW a, NEW b, NEW c, NEW dn, NEW top,
         Edits(d, q, f, a, b, c, dn, top)
  PROVE  OneParent(q)
<1> SUFFICES ASSUME NEW m \in DOMAIN q.nodes, NEW n \in DOMAIN q.nodes,
                    NEW i \in DOMAIN Kids(q, m), NEW j \in DOMAIN Kids(q, n),
                    Kids(q, m)[i] = Kids(q, n)[j]
             PROVE  m = n /\ i = j
  BY DEF OneParent
<1> DEFINE New(y) == \E x \in DOMAIN f.nodes : y = Plant(x, dn, top)
           Old(y) == y \in DOMAIN d.nodes /\ y # top
<1>1. (Old(m) \/ New(m)) /\ (Old(n) \/ New(n))
  BY EditListed
\* A child of an old node is old or the top.
<1>2. ASSUME NEW y, Old(y), NEW o \in DOMAIN Kids(q, y)
      PROVE  /\ Row(d, q, y, a, b, c, top)
             /\ \/ Kids(q, y)[o] = top
                \/ \E p \in DOMAIN Kids(d, y) :
                     /\ Kids(q, y)[o] = Kids(d, y)[p]
                     /\ Kids(d, y)[p] \in DOMAIN d.nodes /\ Kids(d, y)[p] # top
  <2>1. Row(d, q, y, a, b, c, top)
    BY <1>2 DEF Edits
  <2>2. \A p \in DOMAIN Kids(d, y) : Kids(d, y)[p] \in DOMAIN d.nodes
    BY <1>2 DEF Edits, WellFormed, Linked, LinkedAt
  <2>3. \A p : Stayed(d, q, y, o, p, c) =>
          p \in DOMAIN Kids(d, y) /\ Kids(q, y)[o] = Kids(d, y)[p] /\ Kids(d, y)[p] # c
    BY DEF Stayed
  <2>4. Came(d, q, y, o, a, b, top) => Kids(q, y)[o] = top
    BY DEF Came
  <2>5. top \in DOMAIN d.nodes => top = c
    BY DEF Edits
  <2> QED BY <1>2, <2>1, <2>2, <2>3, <2>4, <2>5 DEF Row
\* A child of a new node is new.
<1>3. ASSUME NEW x \in DOMAIN f.nodes, NEW o \in DOMAIN Kids(q, Plant(x, dn, top))
      PROVE  LET e == Kids(q, Plant(x, dn, top))[o]
             IN  /\ e \notin DOMAIN d.nodes /\ e # top /\ e = Kids(f, x)[o] + dn
                 /\ o \in DOMAIN Kids(f, x) /\ Kids(f, x)[o] \in Nat /\ dn \in Nat
  BY <1>3, NewNumbers
<1>4. CASE New(m) /\ New(n)
  <2>1. PICK x \in DOMAIN f.nodes, y \in DOMAIN f.nodes : m = Plant(x, dn, top) /\ n = Plant(y, dn, top)
    BY <1>4
  <2>2. /\ i \in DOMAIN Kids(f, x) /\ j \in DOMAIN Kids(f, y)
        /\ Kids(f, x)[i] + dn = Kids(f, y)[j] + dn
        /\ Kids(f, x)[i] \in Nat /\ Kids(f, y)[j] \in Nat /\ dn \in Nat
    BY <1>3, <2>1
  <2>3. Kids(f, x)[i] = Kids(f, y)[j]
    BY ONLY <2>2
  <2>4. x = y /\ i = j
    BY <2>2, <2>3 DEF Edits, Fragment, OneParent
  <2> QED BY <2>1, <2>4
<1>5. CASE Old(m) /\ New(n)
  BY <1>2, <1>3, <1>5
<1>6. CASE New(m) /\ Old(n)
  BY <1>2, <1>3, <1>6
<1>7. CASE Old(m) /\ Old(n)
  <2>1. m = n
    <3>1. CASE Kids(q, m)[i] = top
      BY <1>7, <3>1 DEF Edits, Hosts
    <3>2. CASE Kids(q, m)[i] # top
      <4>1. PICK o \in DOMAIN Kids(d, m) : Kids(q, m)[i] = Kids(d, m)[o]
        BY <1>2, <1>7, <3>2
      <4>2. PICK p \in DOMAIN Kids(d, n) : Kids(q, n)[j] = Kids(d, n)[p]
        BY <1>2, <1>7, <3>2
      <4> QED BY <1>7, <4>1, <4>2 DEF Edits, WellFormed, OneParent
    <3> QED BY <3>1, <3>2
  <2> QED BY <1>2, <1>7, <2>1 DEF Row
<1> QED BY <1>1, <1>4, <1>5, <1>6, <1>7

LEMMA EditKept ==
  ASSUME NEW d, NEW q, NEW f, NEW a, NEW b, NEW c, NEW dn, NEW top,
         Edits(d, q, f, a, b, c, dn, top)
  PROVE  Kept(q)
<1>0. WellFormed(d) /\ 1 \in DOMAIN d.nodes /\ Live(d, 1) /\ Kind(d, 1) \notin WrapperType
  BY DEF Edits, WellFormed, Kept
<1>1. 1 \in DOMAIN q.nodes /\ Live(q, 1) /\ Kind(q, 1) \notin WrapperType
  <2>1. CASE top = 1
    BY <2>1, TopPlanted DEF Edits
  <2>2. CASE top # 1
    <3>1. Stays(d, 1, a, b)
      BY <2>2 DEF Edits
    <3> QED BY <1>0, <2>2, <3>1, Remains DEF Survives
  <2> QED BY <2>1, <2>2
<1>2. ASSUME NEW y \in DOMAIN q.nodes, Live(q, y), y # 1
      PROVE  \E m \in DOMAIN q.nodes : \E i \in DOMAIN Kids(q, m) : Kids(q, m)[i] = y
  <2>1. CASE y = top
    <3>1. PICK m \in DOMAIN d.nodes : m # top /\ Hosts(q, m, top)
      <4>1. top # 0
        BY <2>1, DocumentIs DEF Edits, Listed
      <4> QED BY <1>2, <2>1, <4>1 DEF Edits
    <3>2. m \in DOMAIN q.nodes
      BY <3>1, Remains
    <3> QED BY <2>1, <3>1, <3>2 DEF Hosts
  <2>2. CASE y \in DOMAIN d.nodes /\ y # top
    <3>1. Live(d, y) /\ Stays(d, y, a, b)
      BY <1>2, <2>2, Remains DEF Perishes
    <3>2. PICK m \in DOMAIN d.nodes : Live(d, m) /\ \E i \in DOMAIN Kids(d, m) : Kids(d, m)[i] = y
      BY <1>0, <1>2, <2>2, <3>1, HasParent
    <3>3. PICK i \in DOMAIN Kids(d, m) : Kids(d, m)[i] = y
      BY <3>2
    <3>4. ~Goes(d, y, a, b)
      <4>1. a \in Nat /\ b \in Nat /\ From(d, y) \in Nat
        BY <1>0, <2>2, <3>1, LiveNode DEF Edits
      <4> QED BY <3>1, <4>1 DEF Stays, Goes, Beside
    <3>5. y # c /\ m # top
      <4>1. y # c
        BY <2>2, <3>4 DEF Edits
      <4>2. ASSUME m = top PROVE FALSE
        <5>1. Goes(d, m, a, b)
          BY <4>2 DEF Edits
        <5> QED BY <3>2, <3>3, <3>4, <5>1 DEF Edits, Parts
      <4> QED BY <4>1, <4>2
    <3>6. \E h \in DOMAIN Kids(q, m) : Kids(q, m)[h] = y
      <4>1. Row(d, q, m, a, b, c, top)
        BY <3>5 DEF Edits
      <4> QED BY <3>3, <3>5, <4>1 DEF Row
    <3>7. m \in DOMAIN q.nodes
      BY <3>5, Remains
    <3> QED BY <3>6, <3>7
  <2>3. CASE \E j \in DOMAIN f.nodes : y = Plant(j, dn, top) /\ j # 1
    <3>1. PICK j \in DOMAIN f.nodes : y = Plant(j, dn, top) /\ j # 1
      BY <2>3
    <3>2. PICK g \in DOMAIN f.nodes : \E i \in DOMAIN Kids(f, g) : Kids(f, g)[i] = j
      BY <3>1 DEF Edits, Fragment, Rooted
    <3>3. PICK i \in DOMAIN Kids(f, g) : Kids(f, g)[i] = j
      BY <3>2
    <3>4. /\ i \in DOMAIN Kids(q, Plant(g, dn, top))
          /\ Kids(q, Plant(g, dn, top))[i] = y
      BY <3>1, <3>3, NewNumbers
    <3>5. Plant(g, dn, top) \in DOMAIN q.nodes
      BY Planted
    <3> QED BY <3>4, <3>5
  <2> QED BY <2>1, <2>2, <2>3, EditListed DEF Plant
<1> QED BY <1>1, <1>2 DEF Kept

LEMMA EditMarked ==
  ASSUME NEW d, NEW q, NEW f, NEW a, NEW b, NEW c, NEW dn, NEW top,
         Edits(d, q, f, a, b, c, dn, top)
  PROVE  Marked(q)
<1> DEFINE T == Len(d.tokens)
           k == Len(f.tokens)
           Marks2(p, y, e) == Kind(p, y) \in WrapperType /\ e \in {Begins(p, y), Ends(p, y)}
<1>1. /\ T \in Nat /\ k \in Nat /\ DOMAIN d.tokens = 1 .. T /\ DOMAIN f.tokens = 1 .. k
      /\ DOMAIN q.tokens = 1 .. T + k
  BY DocumentIs DEF Edits, WellFormed, Listed, Fragment, Grafts
<1>2. /\ \A e \in 1 .. T : q.tokens[e] = d.tokens[e]
      /\ \A e \in 1 .. k : q.tokens[T + e] = f.tokens[e]
  BY <1>1 DEF Edits, Grafts
<1>3. \A y \in DOMAIN q.nodes :
        \/ y \in DOMAIN d.nodes /\ y # top
        \/ \E j \in DOMAIN f.nodes : y = Plant(j, dn, top)
  BY EditListed
<1>4. ASSUME NEW y \in DOMAIN d.nodes, y # top
      PROVE  /\ Begins(q, y) = Begins(d, y) /\ Ends(q, y) = Ends(d, y) /\ Kind(q, y) = Kind(d, y)
             /\ y \in DOMAIN q.nodes
             /\ Begins(q, y) \in 1 .. T /\ Ends(q, y) \in 1 .. T
  <2>1. Begins(d, y) \in 1 .. T /\ Ends(d, y) \in 1 .. T
    BY <1>1 DEF Edits, WellFormed, Linked, LinkedAt
  <2> QED BY <1>4, <2>1, Remains
<1>5. ASSUME NEW j \in DOMAIN f.nodes
      PROVE  LET y == Plant(j, dn, top)
             IN  /\ y \in DOMAIN q.nodes /\ Live(q, y) /\ Kind(q, y) = Kind(f, j)
                 /\ Begins(q, y) = T + Begins(f, j) /\ Ends(q, y) = T + Ends(f, j)
                 /\ Begins(f, j) \in 1 .. k /\ Ends(f, j) \in 1 .. k
  BY Planted
<1> HIDE DEF T, k
\* An old token.
<1>6. ASSUME NEW e \in 1 .. T, Held(q, e)
      PROVE  d.tokens[e] = Anchor <=>
               \E y \in DOMAIN q.nodes : Live(q, y) /\ Marks2(q, y, e)
  <2>1. /\ Held(d, e) /\ Beside(Pos(d, e), a, b)
    BY <1>1, <1>6 DEF Edits, Moves, Beside, T
  <2>2. d.tokens[e] = Anchor <=> \E y \in DOMAIN d.nodes : Live(d, y) /\ Marks2(d, y, e)
    BY <1>1, <2>1 DEF Edits, WellFormed, Marked
  <2>3. ASSUME NEW y \in DOMAIN d.nodes, Live(d, y), Marks2(d, y, e)
        PROVE  y \in DOMAIN q.nodes /\ Live(q, y) /\ Marks2(q, y, e)
    <3>1. ~Goes(d, y, a, b)
      <4>1. Pos(d, e) = From(d, y) \/ Pos(d, e) = To(d, y)
        BY <2>3 DEF From, To
      <4>2. a \in Nat /\ b \in Nat /\ From(d, y) \in Nat /\ To(d, y) \in Nat
        BY <2>3, LiveNode DEF Edits
      <4> QED BY <2>1, <4>1, <4>2 DEF Goes, Beside
    <3>2. y # top
      BY <3>1 DEF Edits
    <3>3. Survives(d, q, y, a, b, Len(f.tokens))
      BY <2>3, <3>1, <3>2, Remains
    <3> QED BY <1>4, <2>3, <3>2, <3>3 DEF Survives
  <2>4. ASSUME NEW y \in DOMAIN q.nodes, Live(q, y), Marks2(q, y, e)
        PROVE  y \in DOMAIN d.nodes /\ Live(d, y) /\ Marks2(d, y, e)
    <3>1. y \in DOMAIN d.nodes /\ y # top
      <4>1. ASSUME NEW j \in DOMAIN f.nodes, y = Plant(j, dn, top) PROVE FALSE
        <5>1. e \in {T + Begins(f, j), T + Ends(f, j)} /\ Begins(f, j) \in 1 .. k /\ Ends(f, j) \in 1 .. k
          BY <1>5, <2>4, <4>1
        <5>2. \A i \in 1 .. k : T + i \notin 1 .. T
          BY <1>1
        <5> QED BY <1>6, <5>1, <5>2
      <4> QED BY <1>3, <4>1
    <3>2. Live(d, y)
      BY <2>4, <3>1, Remains DEF Perishes
    <3> QED BY <1>4, <2>4, <3>1, <3>2
  <2> HIDE DEF Marks2
  <2> QED BY <2>2, <2>3, <2>4
\* A new one.
<1>7. ASSUME NEW i \in 1 .. k
      PROVE  f.tokens[i] = Anchor <=>
               \E y \in DOMAIN q.nodes : Live(q, y) /\ Marks2(q, y, T + i)
  <2>1. f.tokens[i] = Anchor <=> \E j \in DOMAIN f.nodes : Marks2(f, j, i)
    BY <1>1 DEF Edits, Fragment, Ended
  <2>2. ASSUME NEW j \in DOMAIN f.nodes
        PROVE  Marks2(f, j, i) <=> Marks2(q, Plant(j, dn, top), T + i)
    <3>1. \A x \in 1 .. k : T + x = T + i <=> x = i
      BY <1>1
    <3> QED BY <1>5, <3>1
  <2>3. ASSUME NEW y \in DOMAIN d.nodes, y # top PROVE ~Marks2(q, y, T + i)
    <3>1. T + i \notin 1 .. T
      BY <1>1
    <3> QED BY <1>4, <2>3, <3>1
  <2> HIDE DEF Marks2
  <2> QED BY <1>3, <1>5, <2>1, <2>2, <2>3
<1>8. ASSUME NEW e \in DOMAIN q.tokens, Held(q, e)
      PROVE  q.tokens[e] = Anchor <=> \E y \in DOMAIN q.nodes : Live(q, y) /\ Marks2(q, y, e)
  <2>1. CASE e \in 1 .. T
    BY <1>2, <1>6, <1>8, <2>1
  <2>2. CASE e \notin 1 .. T
    <3>1. e - T \in 1 .. k /\ e = T + (e - T)
      BY <1>1, <1>8, <2>2
    <3>2. PICK i \in 1 .. k : e = T + i
      BY <3>1
    <3> HIDE DEF Marks2
    <3> QED BY <1>2, <1>7, <3>2
  <2> QED BY <2>1, <2>2
<1> QED BY <1>8 DEF Marked

LEMMA EditKeeps ==
  ASSUME NEW d, NEW q, NEW f, NEW a, NEW b, NEW c, NEW dn, NEW top,
         Edits(d, q, f, a, b, c, dn, top)
  PROVE  WellFormed(q)
BY EditListed, EditOneParent, EditKept, EditMarked DEF WellFormed

-----------------------------------------------------------------------------
(***************************************************************************)
(* What the edits are made of.                                             *)
(***************************************************************************)
LEMMA CutParts ==
  ASSUME NEW d, WellFormed(d), NEW a \in Nat, NEW b \in Nat, a < b,
         NEW c \in DOMAIN d.nodes, Live(d, c), a < From(d, c), To(d, c) < b,
         \A y \in DOMAIN d.nodes : Live(d, y) /\ y # c /\ ~Inside(d, y, c) => Stays(d, y, a, b)
  PROVE  Parts(d, a, b, c) /\ Goes(d, c, a, b)
<1>1. \A y \in DOMAIN d.nodes :
        Live(d, y) => From(d, y) \in Nat /\ To(d, y) \in Nat /\ From(d, y) <= To(d, y)
  BY LiveNode
<1>2. Goes(d, c, a, b)
  BY <1>1 DEF Goes
<1>3. \A y \in DOMAIN d.nodes : Live(d, y) /\ Inside(d, y, c) => Goes(d, y, a, b)
  <2>1. ASSUME NEW y \in DOMAIN d.nodes, Live(d, y), Inside(d, y, c) PROVE Goes(d, y, a, b)
    <3>1. From(d, c) < From(d, y) /\ To(d, y) < To(d, c)
      BY <2>1, InsideIs
    <3> QED BY <1>1, <2>1, <3>1 DEF Goes
  <2> QED BY <2>1
<1>4. \A y \in DOMAIN d.nodes : Live(d, y) /\ Stays(d, y, a, b) => ~Goes(d, y, a, b)
  BY <1>1 DEF Stays, Goes, Beside
<1>5. ASSUME NEW m \in DOMAIN d.nodes, Live(d, m), NEW i \in DOMAIN Kids(d, m)
      PROVE  /\ Goes(d, m, a, b) => Goes(d, Kids(d, m)[i], a, b)
             /\ Stays(d, m, a, b) /\ Goes(d, Kids(d, m)[i], a, b) => Kids(d, m)[i] = c
  <2> DEFINE e == Kids(d, m)[i]
  <2>1. e \in DOMAIN d.nodes /\ Live(d, e) /\ From(d, m) < From(d, e) /\ To(d, e) < To(d, m)
    BY <1>5, LiveNode DEF Within
  <2>2. m # c /\ Inside(d, e, c) => Inside(d, m, c)
    BY <1>5, ParentInside
  <2> HIDE DEF e
  <2>3. Goes(d, m, a, b) => Goes(d, e, a, b)
    BY <1>1, <1>5, <2>1 DEF Goes
  <2>4. ASSUME Stays(d, m, a, b), Goes(d, e, a, b), e # c PROVE FALSE
    <3>1. Inside(d, e, c)
      BY <1>4, <2>1, <2>4
    <3> QED BY <1>2, <1>3, <1>4, <1>5, <2>2, <2>4, <3>1
  <2> QED BY <2>3, <2>4 DEF e
<1> QED BY <1>2, <1>3, <1>5 DEF Parts

\* Node c gives its place to the top of what came in.
Turned(d, q, a, b, c, top) ==
  /\ top = c /\ c \in DOMAIN d.nodes /\ Live(d, c) /\ From(d, c) = a + 1 /\ To(d, c) + 1 = b
  /\ Kind(d, c) \notin WrapperType /\ Kind(q, c) \notin WrapperType

LEMMA SameRow ==
  ASSUME NEW d, WellFormed(d), NEW q, NEW a \in Nat, NEW b \in Nat, NEW c, NEW top,
         NEW m \in DOMAIN d.nodes, Kids(q, m) = Kids(d, m),
         (\E i \in DOMAIN Kids(d, m) : Kids(d, m)[i] = c) => Turned(d, q, a, b, c, top)
  PROVE  Row(d, q, m, a, b, c, top)
<1> DEFINE K == Kids(d, m)
<1>1. DOMAIN K = 1 .. Len(K) /\ Len(K) \in Nat
  BY DocumentIs DEF WellFormed, Listed
<1>2. \A i, j \in DOMAIN K : K[i] = K[j] => i = j
  BY DEF WellFormed, OneParent
<1>3. ASSUME NEW i \in DOMAIN K, K[i] = c
      PROVE  /\ Came(d, q, m, i, a, b, top) /\ Turned(d, q, a, b, c, top)
             /\ Live(d, m) /\ From(d, c) \in Nat /\ To(d, c) \in Nat
  <2>1. Turned(d, q, a, b, c, top)
    BY <1>3
  <2>2. Live(d, m) /\ m < c
    BY <1>3, <2>1 DEF WellFormed, Fallen, FallenAt, Linked, LinkedAt, Turned
  <2>3. From(d, m) < From(d, c) /\ To(d, c) < To(d, m)
    BY <1>3, <2>2, LiveNode DEF Within
  <2>4. /\ From(d, m) \in Nat /\ To(d, m) \in Nat /\ From(d, c) \in Nat /\ To(d, c) \in Nat
    BY <2>1, <2>2, LiveNode DEF Turned
  <2>5. From(d, m) <= a /\ b <= To(d, m)
    BY <2>1, <2>3, <2>4 DEF Turned
  <2>6. Kind(d, m) \notin ContainerType
    BY <1>3, <2>1 DEF WellFormed, Formed, FormedAt, Turned, ContainerType, WrapperType
  <2>7. c # 0
    BY <2>1, DocumentIs DEF WellFormed, Listed, Turned
  <2> QED BY <1>3, <2>1, <2>2, <2>4, <2>5, <2>6, <2>7 DEF Came, Turned, ContainerType
<1>4. \A i \in DOMAIN K : K[i] # c => Stayed(d, q, m, i, i, c)
  BY DEF Stayed
<1>5. ASSUME NEW i \in DOMAIN K, i > 1
      PROVE  \/ \E o, p \in DOMAIN K :
                  o < p /\ Stayed(d, q, m, i - 1, o, c) /\ Stayed(d, q, m, i, p, c)
             \/ \E o \in DOMAIN K :
                  /\ Stayed(d, q, m, i - 1, o, c) /\ To(d, K[o]) <= a
                  /\ Came(d, q, m, i, a, b, top)
             \/ \E p \in DOMAIN K :
                  /\ Came(d, q, m, i - 1, a, b, top)
                  /\ Stayed(d, q, m, i, p, c) /\ b <= From(d, K[p])
  <2>1. i - 1 \in DOMAIN K /\ i - 1 < i /\ i - 1 # i
    BY <1>1, <1>5
  <2>2. K[i - 1] # K[i]
    BY <1>2, <2>1
  <2>3. Live(d, m) =>
          /\ To(d, K[i - 1]) < From(d, K[i])
          /\ To(d, K[i - 1]) \in Nat /\ From(d, K[i]) \in Nat
    <3> SUFFICES ASSUME Live(d, m) PROVE /\ To(d, K[i - 1]) < From(d, K[i])
                                         /\ To(d, K[i - 1]) \in Nat /\ From(d, K[i]) \in Nat
      OBVIOUS
    <3>1. To(d, K[i - 1]) < From(d, K[i])
      BY <2>1, KidsInOrder
    <3>2. Within(d, m, K[i - 1]) /\ Within(d, m, K[i])
      BY <2>1, LiveNode
    <3> HIDE DEF K
    <3> QED BY <3>1, <3>2, LiveNode DEF Within
  <2> HIDE DEF K
  <2>4. CASE K[i] = c
    <3>1. /\ Came(d, q, m, i, a, b, top) /\ Turned(d, q, a, b, c, top) /\ Live(d, m)
      BY <1>3, <2>4
    <3>2. To(d, K[i - 1]) <= a
      BY <2>3, <2>4, <3>1 DEF Turned
    <3> QED BY <1>4, <2>1, <2>2, <2>4, <3>1, <3>2
  <2>5. CASE K[i - 1] = c
    <3>1. /\ Came(d, q, m, i - 1, a, b, top) /\ Turned(d, q, a, b, c, top) /\ Live(d, m)
      BY <1>3, <2>1, <2>5
    <3>2. b <= From(d, K[i])
      BY <2>3, <2>5, <3>1 DEF Turned
    <3> QED BY <1>4, <2>1, <2>2, <2>5, <3>1, <3>2
  <2>6. CASE K[i] # c /\ K[i - 1] # c
    BY <1>4, <2>1, <2>6
  <2> QED BY <2>4, <2>5, <2>6
<1> QED BY <1>2, <1>3, <1>4, <1>5 DEF Row, K

LEMMA FunctionIsSeq ==
  ASSUME NEW S, NEW n \in Nat, NEW g \in [1 .. n -> S]
  PROVE  g \in Seq(S) /\ Len(g) = n
<1>1. g = [i \in 1 .. n |-> g[i]] /\ \A i \in 1 .. n : g[i] \in S
  OBVIOUS
<1>2. [i \in 1 .. n |-> g[i]] \in Seq(S) /\ Len([i \in 1 .. n |-> g[i]]) = n
  BY <1>1
<1> QED BY <1>1, <1>2, Zenon

LEMMA NumbersShifted ==
  ASSUME NEW c \in Seq(Nat), NEW dn \in Nat
  PROVE  [i \in DOMAIN c |-> c[i] + dn] \in Seq(Nat)
<1> DEFINE r == [i \in DOMAIN c |-> c[i] + dn]
<1>1. Len(c) \in Nat /\ DOMAIN c = 1 .. Len(c)
  OBVIOUS
<1>2. \A i \in 1 .. Len(c) : c[i] + dn \in Nat
  OBVIOUS
<1>3. r \in [1 .. Len(c) -> Nat]
  BY <1>1, <1>2
<1> HIDE DEF r
<1>4. r \in Seq(Nat)
  BY <1>1, <1>3, FunctionIsSeq
<1> QED BY <1>4 DEF r

\* A node with its tokens dt further on and its children dn further on.
Further(x, dt, dn) ==
  [x EXCEPT !.start = @ + dt, !.end = @ + dt, !.children = [k \in DOMAIN @ |-> @[k] + dn]]

LEMMA FurtherIs ==
  ASSUME NEW x \in NodeRecord, NEW dt \in Nat, NEW dn \in Nat
  PROVE  LET y == Further(x, dt, dn)
         IN  /\ y \in NodeRecord /\ y.type = x.type /\ y.start = x.start + dt /\ y.end = x.end + dt
             /\ y.children = [k \in DOMAIN x.children |-> x.children[k] + dn]
<1> DEFINE c == [k \in DOMAIN x.children |-> x.children[k] + dn]
           u == x.start + dt
           v == x.end + dt
           y == [x EXCEPT !.start = u, !.end = v, !.children = c]
<1>1. /\ x.start \in Nat /\ x.end \in Nat /\ x.children \in Seq(Nat)
      /\ x \in [type : NodeType, start : Nat, end : Nat, children : Seq(Nat)]
  <2> HIDE DEF NodeType
  <2> QED BY DEF NodeRecord
<1>2. c \in Seq(Nat)
  BY <1>1, NumbersShifted
<1>3. u \in Nat /\ v \in Nat
  BY <1>1
<1>4. y = Further(x, dt, dn)
  BY DEF Further
<1> HIDE DEF c, u, v, NodeType
<1>5. /\ y \in [type : NodeType, start : Nat, end : Nat, children : Seq(Nat)]
      /\ y.type = x.type /\ y.start = u /\ y.end = v /\ y.children = c
  BY <1>1, <1>2, <1>3
<1> HIDE DEF y
<1>6. y \in NodeRecord /\ y.type = x.type /\ y.start = u /\ y.end = v /\ y.children = c
  BY <1>5 DEF NodeRecord
<1> QED BY <1>4, <1>6 DEF c, u, v

Shifts(s, ns, dt, dn) ==
  /\ s \in Seq(NodeRecord) /\ Len(s) = Len(ns) /\ Len(ns) \in Nat
  /\ \A j \in 1 .. Len(ns) :
       /\ s[j].type = ns[j].type /\ s[j].start = ns[j].start + dt /\ s[j].end = ns[j].end + dt
       /\ s[j].children = [i \in DOMAIN ns[j].children |-> ns[j].children[i] + dn]

LEMMA ShiftIs ==
  ASSUME NEW ns \in Seq(NodeRecord), NEW dt \in Nat, NEW dn \in Nat
  PROVE  Shifts(Shift(ns, dt, dn), ns, dt, dn)
<1> DEFINE s == Shift(ns, dt, dn)
<1>1. Len(ns) \in Nat /\ DOMAIN ns = 1 .. Len(ns) /\ \A j \in 1 .. Len(ns) : ns[j] \in NodeRecord
  <2> HIDE DEF NodeRecord
  <2> QED OBVIOUS
<1>2. s = [j \in DOMAIN ns |-> Further(ns[j], dt, dn)]
  BY DEF Shift, Further
<1>3. ASSUME NEW j \in 1 .. Len(ns)
      PROVE  /\ s[j] = Further(ns[j], dt, dn) /\ s[j] \in NodeRecord
             /\ s[j].type = ns[j].type /\ s[j].start = ns[j].start + dt /\ s[j].end = ns[j].end + dt
             /\ s[j].children = [i \in DOMAIN ns[j].children |-> ns[j].children[i] + dn]
  <2>1. s[j] = Further(ns[j], dt, dn)
    <3> HIDE DEF s
    <3> QED BY <1>1, <1>2
  <2> HIDE DEF s
  <2>2. ns[j] \in NodeRecord
    BY <1>1
  <2>3. LET y == Further(ns[j], dt, dn)
        IN  /\ y \in NodeRecord /\ y.type = ns[j].type
            /\ y.start = ns[j].start + dt /\ y.end = ns[j].end + dt
            /\ y.children = [i \in DOMAIN ns[j].children |-> ns[j].children[i] + dn]
    BY ONLY <2>2, dt \in Nat, dn \in Nat, FurtherIs
  <2> QED BY <2>1, <2>3, Zenon
<1>4. s \in Seq(NodeRecord) /\ Len(s) = Len(ns)
  <2>1. s \in [1 .. Len(ns) -> NodeRecord]
    <3> HIDE DEF s, NodeRecord
    <3> QED BY <1>1, <1>2, <1>3
  <2> QED BY ONLY <1>1, <2>1, FunctionIsSeq
<1> HIDE DEF s
<1>5. \A j \in 1 .. Len(ns) :
        /\ s[j].type = ns[j].type /\ s[j].start = ns[j].start + dt /\ s[j].end = ns[j].end + dt
        /\ s[j].children = [i \in DOMAIN ns[j].children |-> ns[j].children[i] + dn]
  BY <1>3
<1> QED BY <1>1, <1>4, <1>5, Zenon DEF s, Shifts

Joins(S, r, x, y) ==
  /\ r \in Seq(S) /\ Len(r) = Len(x) + Len(y) /\ DOMAIN r = 1 .. Len(x) + Len(y)
  /\ Len(x) \in Nat /\ Len(y) \in Nat
  /\ \A i \in 1 .. Len(x) : r[i] = x[i]
  /\ \A i \in 1 .. Len(y) : r[Len(x) + i] = y[i]

LEMMA ConcatOf ==
  ASSUME NEW S, NEW x \in Seq(S), NEW y \in Seq(S)
  PROVE  Joins(S, x \o y, x, y)
BY DEF Joins

\* The tokens of q are those of d and f.
TokensOf(d, f, q) ==
  /\ q.tokens \in Toks /\ Len(q.tokens) = Len(d.tokens) + Len(f.tokens)
  /\ \A e \in DOMAIN d.tokens : q.tokens[e] = d.tokens[e]
  /\ \A e \in DOMAIN f.tokens : q.tokens[Len(d.tokens) + e] = f.tokens[e]

LEMMA TokensJoin ==
  ASSUME NEW d, Listed(d), NEW f, Fragment(f), NEW q, q.tokens = d.tokens \o f.tokens
  PROVE  TokensOf(d, f, q)
<1>1. d.tokens \in Seq(Tok) /\ f.tokens \in Seq(Tok)
  BY DEF Listed, Fragment, Toks
<1>2. Joins(Tok, q.tokens, d.tokens, f.tokens)
  BY <1>1, ConcatOf
<1>3. DOMAIN d.tokens = 1 .. Len(d.tokens) /\ DOMAIN f.tokens = 1 .. Len(f.tokens)
  BY DocumentIs DEF Listed, Fragment
<1> QED BY <1>2, <1>3 DEF Joins, Toks, TokensOf

-----------------------------------------------------------------------------
(***************************************************************************)
(* An outline that stands in another, and one that an edit has changed.    *)
(***************************************************************************)
SameAt(o, i, r, j) ==
  /\ r.type[j] = o.type[i]
  /\ j \in r.opens <=> i \in o.opens
  /\ j \in r.closes <=> i \in o.closes
  /\ j \in r.shuts <=> i \in o.shuts

\* The places of o from lo to hi are in r, s further on.
Stands(o, r, lo, hi, s) ==
  /\ IsOutline(o) /\ IsOutline(r) /\ s \in Int
  /\ lo \in Nat /\ lo >= 1 /\ hi \in Nat /\ lo <= hi + 1 /\ hi <= o.n /\ 1 <= lo + s /\ hi + s <= r.n
  /\ \A i \in lo .. hi : SameAt(o, i, r, i + s)

LEMMA StandsPlace ==
  ASSUME NEW o, NEW r, NEW lo, NEW hi, NEW s, Stands(o, r, lo, hi, s), NEW i \in lo .. hi
  PROVE  /\ i \in 1 .. o.n /\ i + s \in 1 .. r.n /\ i \in Int /\ i + s \in Int
         /\ SameAt(o, i, r, i + s)
BY DEF Stands, IsOutline

LEMMA StandsBlanks ==
  ASSUME NEW o, NEW r, NEW lo, NEW hi, NEW s, Stands(o, r, lo, hi, s),
         NEW i \in lo - 1 .. hi + 1, NEW j \in lo - 1 .. hi + 1
  PROVE  Blanks(o, i, j) <=> Blanks(r, i + s, j + s)
<1>1. /\ o.n \in Nat /\ r.n \in Nat /\ s \in Int /\ lo \in Nat /\ hi \in Nat /\ lo >= 1 /\ hi <= o.n
      /\ 1 <= lo + s /\ hi + s <= r.n
      /\ \A m \in lo .. hi : r.type[m + s] = o.type[m]
  BY DEF Stands, IsOutline, SameAt
<1>2. ASSUME Blanks(o, i, j), NEW m \in 1 .. r.n, i + s < m, m < j + s
      PROVE  r.type[m] \in Blank
  <2>1. m - s \in lo .. hi /\ m - s \in 1 .. o.n /\ i < m - s /\ m - s < j /\ (m - s) + s = m
    BY <1>1, <1>2
  <2> QED BY <1>1, <1>2, <2>1 DEF Blanks
<1>3. ASSUME Blanks(r, i + s, j + s), NEW m \in 1 .. o.n, i < m, m < j
      PROVE  o.type[m] \in Blank
  <2>1. m \in lo .. hi /\ m + s \in 1 .. r.n /\ i + s < m + s /\ m + s < j + s
    BY <1>1, <1>3
  <2> QED BY <1>1, <1>3, <2>1 DEF Blanks
<1> QED BY <1>2, <1>3 DEF Blanks

\* A separator has the same around it, but for what is not there.
LEMMA StandsLed ==
  ASSUME NEW o, NEW r, NEW lo, NEW hi, NEW s, Stands(o, r, lo, hi, s),
         NEW i \in lo .. hi, Led(o, i)
  PROVE  Led(r, i + s) \/ (lo > 1 /\ Blanks(o, lo - 1, i))
<1>1. /\ o.n \in Nat /\ r.n \in Nat /\ s \in Int /\ lo \in Nat /\ hi \in Nat /\ lo >= 1 /\ hi <= o.n
      /\ o.closes \subseteq 1 .. o.n
  BY DEF Stands, IsOutline
<1>2. PICK m \in o.closes : m < i /\ Blanks(o, m, i)
  BY DEF Led
<1>3. m \in 1 .. o.n /\ i \in Int
  BY <1>1, <1>2
<1>4. CASE m >= lo
  <2>1. m \in lo .. hi /\ m \in lo - 1 .. hi + 1 /\ i \in lo - 1 .. hi + 1 /\ m + s < i + s
    BY <1>1, <1>2, <1>3, <1>4
  <2>2. m + s \in r.closes
    BY <2>1, <1>2, StandsPlace DEF SameAt
  <2> QED BY <1>2, <2>1, <2>2, StandsBlanks DEF Led
<1>5. CASE m < lo
  <2>1. lo > 1 /\ \A x \in 1 .. o.n : lo - 1 < x => m < x
    BY <1>1, <1>3, <1>5
  <2> QED BY <1>2, <2>1 DEF Blanks
<1> QED BY <1>1, <1>3, <1>4, <1>5

LEMMA StandsFollowed ==
  ASSUME NEW o, NEW r, NEW lo, NEW hi, NEW s, Stands(o, r, lo, hi, s),
         NEW i \in lo .. hi, Followed(o, i)
  PROVE  Followed(r, i + s) \/ (hi < o.n /\ Blanks(o, i, hi + 1))
<1>1. /\ o.n \in Nat /\ r.n \in Nat /\ s \in Int /\ lo \in Nat /\ hi \in Nat /\ lo >= 1 /\ hi <= o.n
      /\ o.opens \union o.shuts \subseteq 1 .. o.n
  BY DEF Stands, IsOutline
<1>2. PICK m \in o.opens \union o.shuts :
        i < m /\ Blanks(o, i, m) /\ (o.type[i] = "colon" => m \in o.opens)
  BY DEF Followed
<1>3. m \in 1 .. o.n /\ i \in Int
  BY <1>1, <1>2
<1>4. CASE m <= hi
  <2>1. m \in lo .. hi /\ m \in lo - 1 .. hi + 1 /\ i \in lo - 1 .. hi + 1 /\ i + s < m + s
    BY <1>1, <1>2, <1>3, <1>4
  <2>2. m + s \in r.opens \union r.shuts /\ (m \in o.opens => m + s \in r.opens) /\ r.type[i + s] = o.type[i]
    BY <2>1, <1>2, StandsPlace DEF SameAt
  <2> QED BY <1>2, <2>1, <2>2, StandsBlanks DEF Followed
<1>5. CASE hi < m
  <2>1. hi < o.n /\ \A x \in 1 .. o.n : x < hi + 1 => x < m
    BY <1>1, <1>3, <1>5
  <2> QED BY <1>2, <2>1 DEF Blanks
<1> QED BY <1>1, <1>3, <1>4, <1>5

\* r is o with f in the place of what was between a and b.
Drift(a, b, k) == k - (b - a - 1)

Patched(r, o, f, a, b) ==
  /\ IsOutline(o) /\ IsOutline(f) /\ IsOutline(r)
  /\ a \in Nat /\ b \in Nat /\ a < b /\ a <= o.n /\ b <= o.n + 1
  /\ r.n = a + f.n + (o.n - b + 1)
  /\ \A i \in 1 .. a : SameAt(o, i, r, i)
  /\ \A i \in 1 .. f.n : SameAt(f, i, r, a + i)
  /\ \A i \in b .. o.n : SameAt(o, i, r, i + Drift(a, b, f.n))

LEMMA PatchedIs ==
  ASSUME NEW r, NEW o, NEW f, NEW a, NEW b, Patched(r, o, f, a, b)
  PROVE  /\ Stands(o, r, 1, a, 0) /\ Stands(f, r, 1, f.n, a) /\ Stands(o, r, b, o.n, Drift(a, b, f.n))
         /\ \A x \in 1 .. r.n : \/ x \in 1 .. a
                                \/ \E i \in 1 .. f.n : x = i + a
                                \/ \E i \in b .. o.n : x = i + Drift(a, b, f.n)
<1> DEFINE s == Drift(a, b, f.n)
<1>1. /\ o.n \in Nat /\ f.n \in Nat /\ r.n \in Nat /\ a \in Nat /\ b \in Nat /\ a < b /\ a <= o.n /\ b <= o.n + 1
      /\ r.n = a + f.n + (o.n - b + 1) /\ s \in Int /\ s = f.n - (b - a - 1)
  BY DEF Patched, IsOutline, Drift
<1> HIDE DEF s
<1>2. Stands(o, r, 1, a, 0)
  <2>1. \A i \in 1 .. a : i + 0 = i
    BY <1>1
  <2> QED BY <1>1, <2>1 DEF Patched, Stands
<1>3. Stands(f, r, 1, f.n, a)
  <2>1. \A i \in 1 .. f.n : i + a = a + i
    BY <1>1
  <2> QED BY <1>1, <2>1 DEF Patched, Stands
<1>4. Stands(o, r, b, o.n, s)
  BY <1>1 DEF Patched, Stands, s
<1>5. ASSUME NEW x \in 1 .. r.n
      PROVE  x \in 1 .. a \/ (\E i \in 1 .. f.n : x = i + a) \/ \E i \in b .. o.n : x = i + s
  <2>1. CASE x > a /\ x <= a + f.n
    <3>1. x - a \in 1 .. f.n /\ x = (x - a) + a
      BY <1>1, <2>1
    <3> QED BY <3>1
  <2>2. CASE x > a + f.n
    <3>1. x - s \in b .. o.n /\ x = (x - s) + s
      BY <1>1, <2>2
    <3> QED BY <3>1
  <2> QED BY <1>1, <2>1, <2>2
<1> QED BY <1>2, <1>3, <1>4, <1>5 DEF s

\* The separators at the seams need to be looked at.
LEMMA PatchedKeeps ==
  ASSUME NEW r, NEW o, NEW f, NEW a, NEW b, Patched(r, o, f, a, b), Edged(o), Edged(f), Parted(o),
         \A i \in 1 .. a : o.type[i] \in Separator /\ Blanks(o, i, a + 1) => Followed(r, i),
         \A i \in b .. o.n : o.type[i] \in Separator /\ Blanks(o, b - 1, i) => Led(r, i + Drift(a, b, f.n)),
         \A i \in 1 .. f.n : f.type[i] \in Separator =>
           /\ Led(f, i) \/ Led(r, i + a)
           /\ Followed(f, i) \/ Followed(r, i + a)
  PROVE  Edged(r) /\ Parted(r)
<1> DEFINE s == Drift(a, b, f.n)
<1>1. /\ Stands(o, r, 1, a, 0) /\ Stands(f, r, 1, f.n, a) /\ Stands(o, r, b, o.n, s)
      /\ \A x \in 1 .. r.n : x \in 1 .. a \/ (\E i \in 1 .. f.n : x = i + a) \/ \E i \in b .. o.n : x = i + s
  BY PatchedIs
<1>2. o.n \in Nat /\ f.n \in Nat /\ a \in Nat /\ b \in Nat
  BY DEF Patched, IsOutline
<1> HIDE DEF s
<1> DEFINE Right(x) ==
      /\ x \in r.opens \union r.closes <=> (r.type[x] \notin Blank \union Separator)
      /\ r.type[x] \in Separator => Led(r, x) /\ Followed(r, x)
<1>3. ASSUME NEW i \in 1 .. a PROVE Right(i)
  <2>1. i + 0 = i /\ i \in 1 .. o.n
    BY <1>2, <1>1, StandsPlace
  <2>2. SameAt(o, i, r, i)
    BY <1>1, <2>1, StandsPlace
  <2>3. ASSUME r.type[i] \in Separator PROVE Led(r, i) /\ Followed(r, i)
    <3>1. Led(o, i) /\ Followed(o, i) /\ o.type[i] \in Separator
      BY <2>1, <2>2, <2>3 DEF Parted, SameAt
    <3>2. Led(r, i)
      <4>1. Led(r, i + 0) \/ 1 > 1
        BY <1>1, <3>1, StandsLed
      <4> QED BY <2>1, <4>1
    <3>3. Followed(r, i)
      <4>1. Followed(r, i + 0) \/ Blanks(o, i, a + 1)
        BY <1>1, <3>1, StandsFollowed
      <4> QED BY <2>1, <3>1, <4>1
    <3> QED BY <3>2, <3>3
  <2> QED BY <2>1, <2>2, <2>3 DEF Edged, SameAt
<1>4. ASSUME NEW i \in 1 .. f.n PROVE Right(i + a)
  <2>1. SameAt(f, i, r, i + a)
    BY <1>1, StandsPlace
  <2>2. ASSUME r.type[i + a] \in Separator PROVE Led(r, i + a) /\ Followed(r, i + a)
    <3>1. f.type[i] \in Separator
      BY <2>1, <2>2 DEF SameAt
    <3>2. Led(f, i) => Led(r, i + a)
      <4>1. Led(f, i) => Led(r, i + a) \/ 1 > 1
        BY <1>1, StandsLed
      <4> QED BY <4>1
    <3>3. Followed(f, i) => Followed(r, i + a)
      <4>1. Followed(f, i) => Followed(r, i + a) \/ f.n < f.n
        BY <1>1, StandsFollowed
      <4> QED BY <1>2, <4>1
    <3> QED BY <3>1, <3>2, <3>3
  <2> QED BY <2>1, <2>2 DEF Edged, SameAt
<1>5. ASSUME NEW i \in b .. o.n PROVE Right(i + s)
  <2>1. SameAt(o, i, r, i + s) /\ i \in 1 .. o.n
    BY <1>1, StandsPlace
  <2>2. ASSUME r.type[i + s] \in Separator PROVE Led(r, i + s) /\ Followed(r, i + s)
    <3>1. Led(o, i) /\ Followed(o, i) /\ o.type[i] \in Separator
      BY <2>1, <2>2 DEF Parted, SameAt
    <3>2. Led(r, i + s)
      <4>1. Led(r, i + s) \/ Blanks(o, b - 1, i)
        BY <1>1, <3>1, StandsLed
      <4> QED BY <3>1, <4>1 DEF s
    <3>3. Followed(r, i + s)
      <4>1. Followed(r, i + s) \/ o.n < o.n
        BY <1>1, <3>1, StandsFollowed
      <4> QED BY <1>2, <4>1
    <3> QED BY <3>2, <3>3
  <2> QED BY <2>1, <2>2 DEF Edged, SameAt
<1>6. \A x \in 1 .. r.n : Right(x)
  <2> HIDE DEF Right
  <2> QED BY <1>1, <1>3, <1>4, <1>5
<1> QED BY <1>6 DEF Edged, Parted

-----------------------------------------------------------------------------
(***************************************************************************)
(* The outline of a document.                                              *)
(***************************************************************************)
OpensAt(d, e) == \E k \in DOMAIN d.nodes : Begins(d, k) = e
ClosesAt(d, e) == \E k \in DOMAIN d.nodes : Ends(d, k) = e
ClosesContainer(d, e) == \E k \in DOMAIN d.nodes : Kind(d, k) \in ContainerType /\ Ends(d, k) = e

OutlineOf(d) ==
  [n |-> Len(d.list),
   type |-> [i \in DOMAIN d.list |-> d.tokens[d.list[i]].type],
   opens |-> {i \in DOMAIN d.list : OpensAt(d, d.list[i])},
   closes |-> {i \in DOMAIN d.list : ClosesAt(d, d.list[i])},
   shuts |-> {i \in DOMAIN d.list : ClosesContainer(d, d.list[i])}]

\* A fragment by itself.
Fresh(f) == [tokens |-> f.tokens, nodes |-> f.nodes, list |-> [i \in DOMAIN f.tokens |-> i]]

\* No node, in use or not, begins or ends with a token that is passed over.
Voiced(d) ==
  \A k \in DOMAIN d.nodes : Loud(d.tokens[Begins(d, k)]) /\ Loud(d.tokens[Ends(d, k)])

\* Separators are only between the nodes that they separate.
Tidy(d) == Voiced(d) /\ Edged(OutlineOf(d)) /\ Parted(OutlineOf(d))

Sound == WellFormed(Here) /\ Tidy(Here)

LEMMA OutlineOfIs ==
  ASSUME NEW d, d.list \in Seq(Nat)
  PROVE  LET o == OutlineOf(d)
         IN  /\ IsOutline(o) /\ o.n = Len(d.list) /\ Len(d.list) \in Nat /\ DOMAIN d.list = 1 .. Len(d.list)
             /\ \A i \in 1 .. Len(d.list) :
                  /\ o.type[i] = d.tokens[d.list[i]].type
                  /\ i \in o.opens <=> OpensAt(d, d.list[i])
                  /\ i \in o.closes <=> ClosesAt(d, d.list[i])
                  /\ i \in o.shuts <=> ClosesContainer(d, d.list[i])
<1>1. Len(d.list) \in Nat /\ DOMAIN d.list = 1 .. Len(d.list)
  OBVIOUS
<1>2. \A e : ClosesContainer(d, e) => ClosesAt(d, e)
  BY DEF ClosesContainer, ClosesAt
<1> QED BY <1>1, <1>2 DEF OutlineOf, IsOutline

LEMMA FreshOutline ==
  ASSUME NEW f, f.tokens \in Toks
  PROVE  LET o == OutlineOf(Fresh(f))
         IN  /\ IsOutline(o) /\ o.n = Len(f.tokens) /\ Len(f.tokens) \in Nat /\ DOMAIN f.tokens = 1 .. Len(f.tokens)
             /\ \A i \in 1 .. Len(f.tokens) :
                  /\ o.type[i] = f.tokens[i].type
                  /\ i \in o.opens <=> OpensAt(f, i)
                  /\ i \in o.closes <=> ClosesAt(f, i)
                  /\ i \in o.shuts <=> ClosesContainer(f, i)
<1> DEFINE d == Fresh(f)
<1>1. Len(f.tokens) \in Nat /\ DOMAIN f.tokens = 1 .. Len(f.tokens)
  <2> HIDE DEF Tok
  <2> QED BY DEF Toks
<1>2. d.tokens = f.tokens /\ d.nodes = f.nodes /\ d.list = [i \in 1 .. Len(f.tokens) |-> i]
  BY <1>1 DEF Fresh
<1> HIDE DEF d
<1>3. d.list \in Seq(Nat) /\ Len(d.list) = Len(f.tokens) /\ \A i \in 1 .. Len(f.tokens) : d.list[i] = i
  BY <1>1, <1>2, FunctionIsSeq
<1>4. \A e : /\ OpensAt(d, e) <=> OpensAt(f, e)
             /\ ClosesAt(d, e) <=> ClosesAt(f, e)
             /\ ClosesContainer(d, e) <=> ClosesContainer(f, e)
  BY <1>2 DEF OpensAt, ClosesAt, ClosesContainer, Begins, Ends, Kind
<1> HIDE DEF OpensAt, ClosesAt, ClosesContainer
<1>5. /\ IsOutline(OutlineOf(d)) /\ OutlineOf(d).n = Len(f.tokens)
      /\ \A i \in 1 .. Len(f.tokens) :
           /\ OutlineOf(d).type[i] = d.tokens[d.list[i]].type
           /\ i \in OutlineOf(d).opens <=> OpensAt(d, d.list[i])
           /\ i \in OutlineOf(d).closes <=> ClosesAt(d, d.list[i])
           /\ i \in OutlineOf(d).shuts <=> ClosesContainer(d, d.list[i])
  BY <1>3, OutlineOfIs
<1> QED BY <1>1, <1>2, <1>3, <1>4, <1>5 DEF d

\* What an edit leaves of the ends of nodes, and what it brings.
Edges(d, q, f) ==
  /\ \A e \in DOMAIN d.tokens :
       Held(q, e) => /\ OpensAt(q, e) <=> OpensAt(d, e)
                     /\ ClosesAt(q, e) <=> ClosesAt(d, e)
                     /\ ClosesContainer(q, e) <=> ClosesContainer(d, e)
  /\ \A e \in DOMAIN f.tokens :
       /\ OpensAt(q, Len(d.tokens) + e) <=> OpensAt(f, e)
       /\ ClosesAt(q, Len(d.tokens) + e) <=> ClosesAt(f, e)
       /\ ClosesContainer(q, Len(d.tokens) + e) <=> ClosesContainer(f, e)
  /\ Voiced(d) /\ Voiced(f) => Voiced(q)

LEMMA EditEdges ==
  ASSUME NEW d, NEW q, NEW f, NEW a, NEW b, NEW c, NEW dn, NEW top,
         Edits(d, q, f, a, b, c, dn, top)
  PROVE  Edges(d, q, f)
<1> DEFINE T == Len(d.tokens)
           k == Len(f.tokens)
<1>1. /\ T \in Nat /\ k \in Nat /\ DOMAIN d.tokens = 1 .. T /\ DOMAIN f.tokens = 1 .. k
      /\ DOMAIN q.tokens = 1 .. T + k
  BY DocumentIs DEF Edits, WellFormed, Listed, Fragment, Grafts
<1>2. /\ \A e \in 1 .. T : q.tokens[e] = d.tokens[e]
      /\ \A e \in 1 .. k : q.tokens[T + e] = f.tokens[e]
  BY <1>1 DEF Edits, Grafts
<1>3. \A y \in DOMAIN q.nodes :
        \/ y \in DOMAIN d.nodes /\ y # top
        \/ \E j \in DOMAIN f.nodes : y = Plant(j, dn, top)
  BY EditListed
<1>4. ASSUME NEW y \in DOMAIN d.nodes, y # top
      PROVE  /\ Begins(q, y) = Begins(d, y) /\ Ends(q, y) = Ends(d, y) /\ Kind(q, y) = Kind(d, y)
             /\ y \in DOMAIN q.nodes
             /\ Begins(q, y) \in 1 .. T /\ Ends(q, y) \in 1 .. T
  <2>1. Begins(d, y) \in 1 .. T /\ Ends(d, y) \in 1 .. T
    BY <1>1 DEF Edits, WellFormed, Linked, LinkedAt
  <2> QED BY <1>4, <2>1, Remains
<1>5. ASSUME NEW j \in DOMAIN f.nodes
      PROVE  LET y == Plant(j, dn, top)
             IN  /\ y \in DOMAIN q.nodes /\ Live(q, y) /\ Kind(q, y) = Kind(f, j)
                 /\ Begins(q, y) = T + Begins(f, j) /\ Ends(q, y) = T + Ends(f, j)
                 /\ Begins(f, j) \in 1 .. k /\ Ends(f, j) \in 1 .. k
  BY Planted
<1>6. /\ \A e, x \in 1 .. k : T + x = T + e <=> x = e
      /\ \A e \in 1 .. T, x \in 1 .. k : T + x # e
  BY <1>1
<1> HIDE DEF T, k
\* The node that takes over another content had its ends cut out.
<1>7. ASSUME NEW e \in 1 .. T, Held(q, e), NEW y \in DOMAIN d.nodes, e = Begins(d, y) \/ e = Ends(d, y)
      PROVE  y # top
  <2>1. SUFFICES ASSUME y = top PROVE FALSE
    OBVIOUS
  <2>2. Live(d, y) /\ Goes(d, y, a, b) /\ WellFormed(d)
    BY <2>1 DEF Edits
  <2>3. Held(d, e) /\ Beside(Pos(d, e), a, b)
    BY <1>1, <1>7 DEF Edits, Moves, Beside, T
  <2>4. Pos(d, e) = From(d, y) \/ Pos(d, e) = To(d, y)
    BY <1>7 DEF From, To
  <2>5. a \in Nat /\ b \in Nat /\ From(d, y) \in Nat /\ To(d, y) \in Nat
    BY <2>2, LiveNode DEF Edits
  <2> QED BY <2>2, <2>3, <2>4, <2>5 DEF Goes, Beside
<1>8. ASSUME NEW e \in 1 .. T, Held(q, e)
      PROVE  /\ OpensAt(q, e) <=> OpensAt(d, e)
             /\ ClosesAt(q, e) <=> ClosesAt(d, e)
             /\ ClosesContainer(q, e) <=> ClosesContainer(d, e)
  <2>1. ASSUME NEW y \in DOMAIN q.nodes, e = Begins(q, y) \/ e = Ends(q, y)
        PROVE  y \in DOMAIN d.nodes /\ y # top
    <3>1. ASSUME NEW j \in DOMAIN f.nodes, y = Plant(j, dn, top) PROVE FALSE
      BY <1>5, <1>6, <2>1, <3>1
    <3> QED BY <1>3, <3>1
  <2>2. OpensAt(q, e) <=> OpensAt(d, e)
    BY <1>4, <1>7, <1>8, <2>1 DEF OpensAt
  <2>3. ClosesAt(q, e) <=> ClosesAt(d, e)
    BY <1>4, <1>7, <1>8, <2>1 DEF ClosesAt
  <2>4. ClosesContainer(q, e) <=> ClosesContainer(d, e)
    BY <1>4, <1>7, <1>8, <2>1 DEF ClosesContainer
  <2> QED BY <2>2, <2>3, <2>4
<1>9. ASSUME NEW e \in 1 .. k
      PROVE  /\ OpensAt(q, T + e) <=> OpensAt(f, e)
             /\ ClosesAt(q, T + e) <=> ClosesAt(f, e)
             /\ ClosesContainer(q, T + e) <=> ClosesContainer(f, e)
  <2>1. ASSUME NEW y \in DOMAIN d.nodes, y # top PROVE T + e # Begins(q, y) /\ T + e # Ends(q, y)
    BY <1>4, <1>6, <2>1
  <2>2. \A j \in DOMAIN f.nodes :
          /\ Begins(q, Plant(j, dn, top)) = T + e <=> Begins(f, j) = e
          /\ Ends(q, Plant(j, dn, top)) = T + e <=> Ends(f, j) = e
    BY <1>5, <1>6
  <2>3. OpensAt(q, T + e) <=> OpensAt(f, e)
    BY <1>3, <1>5, <2>1, <2>2 DEF OpensAt
  <2>4. ClosesAt(q, T + e) <=> ClosesAt(f, e)
    BY <1>3, <1>5, <2>1, <2>2 DEF ClosesAt
  <2>5. ClosesContainer(q, T + e) <=> ClosesContainer(f, e)
    BY <1>3, <1>5, <2>1, <2>2 DEF ClosesContainer
  <2> QED BY <2>3, <2>4, <2>5
<1>10. ASSUME Voiced(d), Voiced(f) PROVE Voiced(q)
  <2>1. ASSUME NEW y \in DOMAIN d.nodes, y # top
        PROVE  Loud(q.tokens[Begins(q, y)]) /\ Loud(q.tokens[Ends(q, y)])
    BY <1>2, <1>4, <1>10, <2>1 DEF Voiced
  <2>2. ASSUME NEW j \in DOMAIN f.nodes
        PROVE  LET y == Plant(j, dn, top) IN Loud(q.tokens[Begins(q, y)]) /\ Loud(q.tokens[Ends(q, y)])
    BY <1>2, <1>5, <1>10 DEF Voiced
  <2> QED BY <1>3, <2>1, <2>2 DEF Voiced
<1> QED BY <1>1, <1>8, <1>9, <1>10 DEF Edges, T

LEMMA PastedPlaces ==
  ASSUME NEW a \in Nat, NEW b \in Nat, NEW k \in Nat, NEW l \in Nat, a < b, a <= l, b <= l + 1
  PROVE  LET m == a + k + (l - b + 1)
             s == k - (b - a - 1)
         IN  /\ \A i \in 1 .. a : i \in 1 .. l /\ i \in 1 .. m
             /\ \A i \in 1 .. k : a + i \in 1 .. m
             /\ \A i \in b .. l : i \in 1 .. l /\ i + s \in 1 .. m /\ i + s = i + k - (b - a - 1)
OBVIOUS

\* The outline after an edit.
LEMMA EditPatches ==
  ASSUME NEW d, Listed(d), NEW f, f.tokens \in Toks, NEW q, Listed(q), TokensOf(d, f, q), Edges(d, q, f),
         NEW a \in 0 .. Len(d.list), NEW b \in a + 1 .. Len(d.list) + 1,
         q.list = Splice(d.list, a, b, Len(d.tokens), Len(f.tokens))
  PROVE  Patched(OutlineOf(q), OutlineOf(d), OutlineOf(Fresh(f)), a, b)
<1> DEFINE T == Len(d.tokens)
           k == Len(f.tokens)
           o == OutlineOf(d)
           r == OutlineOf(q)
           g == OutlineOf(Fresh(f))
           s == Drift(a, b, k)
<1>1. /\ d.list \in Seq(Nat) /\ q.list \in Seq(Nat) /\ T \in Nat /\ k \in Nat
      /\ DOMAIN d.tokens = 1 .. T /\ DOMAIN f.tokens = 1 .. k
      /\ \A i \in 1 .. Len(d.list) : d.list[i] \in 1 .. T
  <2>1. k \in Nat /\ DOMAIN f.tokens = 1 .. k
    BY FreshOutline
  <2>2. d.list \in Seq(Nat) /\ q.list \in Seq(Nat) /\ T \in Nat /\ DOMAIN d.tokens = 1 .. T
    BY DocumentIs DEF Listed
  <2>3. \A i \in DOMAIN d.list : d.list[i] \in DOMAIN d.tokens
    BY DEF Listed
  <2> QED BY <2>1, <2>2, <2>3, OutlineOfIs
<1>2. /\ IsOutline(o) /\ o.n = Len(d.list) /\ Len(d.list) \in Nat
      /\ \A i \in 1 .. Len(d.list) :
           /\ o.type[i] = d.tokens[d.list[i]].type
           /\ i \in o.opens <=> OpensAt(d, d.list[i])
           /\ i \in o.closes <=> ClosesAt(d, d.list[i])
           /\ i \in o.shuts <=> ClosesContainer(d, d.list[i])
  BY <1>1, OutlineOfIs
<1>3. /\ IsOutline(r) /\ r.n = Len(q.list) /\ Len(q.list) \in Nat /\ DOMAIN q.list = 1 .. Len(q.list)
      /\ \A i \in 1 .. Len(q.list) :
           /\ r.type[i] = q.tokens[q.list[i]].type
           /\ i \in r.opens <=> OpensAt(q, q.list[i])
           /\ i \in r.closes <=> ClosesAt(q, q.list[i])
           /\ i \in r.shuts <=> ClosesContainer(q, q.list[i])
  BY <1>1, OutlineOfIs
<1>4. /\ IsOutline(g) /\ g.n = k
      /\ \A i \in 1 .. k :
           /\ g.type[i] = f.tokens[i].type
           /\ i \in g.opens <=> OpensAt(f, i)
           /\ i \in g.closes <=> ClosesAt(f, i)
           /\ i \in g.shuts <=> ClosesContainer(f, i)
  BY FreshOutline
<1>5. /\ a \in Nat /\ b \in Nat /\ a < b /\ a <= o.n /\ b <= o.n + 1
  BY <1>2
<1>6. Pasted(q.list, d.list, a, b, T, k)
  BY <1>1, SpliceIs
<1>7. r.n = a + k + (o.n - b + 1)
  BY <1>2, <1>3, <1>6 DEF Pasted
<1>8. /\ \A e \in 1 .. T : q.tokens[e] = d.tokens[e]
      /\ \A e \in 1 .. k : q.tokens[T + e] = f.tokens[e]
  BY <1>1 DEF TokensOf
<1> HIDE DEF o, r, g, T, k
<1>9. ASSUME NEW i \in 1 .. Len(d.list), NEW j \in 1 .. Len(q.list), q.list[j] = d.list[i]
      PROVE  SameAt(o, i, r, j)
  <2>1. Held(q, d.list[i]) /\ d.list[i] \in DOMAIN d.tokens /\ d.list[i] \in 1 .. T
    BY <1>1, <1>3, <1>9 DEF Held
  <2>2. /\ OpensAt(q, d.list[i]) <=> OpensAt(d, d.list[i])
        /\ ClosesAt(q, d.list[i]) <=> ClosesAt(d, d.list[i])
        /\ ClosesContainer(q, d.list[i]) <=> ClosesContainer(d, d.list[i])
    BY <2>1 DEF Edges
  <2>3. q.tokens[q.list[j]] = d.tokens[d.list[i]]
    BY <1>8, <1>9, <2>1
  <2> QED BY <1>2, <1>3, <1>9, <2>2, <2>3, SMTT(30) DEF SameAt
<1>10. ASSUME NEW i \in 1 .. k, NEW j \in 1 .. Len(q.list), q.list[j] = T + i
       PROVE  SameAt(g, i, r, j)
  <2>1. i \in DOMAIN f.tokens
    BY <1>1
  <2>2. /\ OpensAt(q, T + i) <=> OpensAt(f, i)
        /\ ClosesAt(q, T + i) <=> ClosesAt(f, i)
        /\ ClosesContainer(q, T + i) <=> ClosesContainer(f, i)
    BY <2>1 DEF Edges, T
  <2> QED BY <1>3, <1>4, <1>8, <1>10, <2>2 DEF SameAt
<1>11. /\ \A i \in 1 .. a : i \in 1 .. o.n /\ i \in 1 .. r.n
       /\ \A i \in 1 .. k : a + i \in 1 .. r.n
       /\ \A i \in b .. o.n : i \in 1 .. o.n /\ i + s \in 1 .. r.n /\ i + s = i + k - (b - a - 1)
  <2>1. k \in Nat /\ o.n \in Nat
    BY <1>1, <1>2
  <2> QED BY <1>5, <1>7, <2>1, PastedPlaces DEF Drift, s
<1> HIDE DEF s
<1>12. /\ \A i \in 1 .. a : q.list[i] = d.list[i]
       /\ \A i \in 1 .. k : q.list[a + i] = T + i
       /\ \A i \in b .. o.n : q.list[i + s] = d.list[i]
  BY <1>2, <1>6, <1>11 DEF Pasted
<1>13. \A i \in 1 .. a : SameAt(o, i, r, i)
  BY <1>2, <1>3, <1>9, <1>11, <1>12
<1>14. \A i \in 1 .. k : SameAt(g, i, r, a + i)
  BY <1>3, <1>10, <1>11, <1>12
<1>15. \A i \in b .. o.n : SameAt(o, i, r, i + s)
  BY <1>2, <1>3, <1>9, <1>11, <1>12
<1>16. Patched(r, o, g, a, b)
  BY <1>2, <1>3, <1>4, <1>5, <1>7, <1>13, <1>14, <1>15 DEF Patched, s
<1> QED BY <1>16 DEF r, o, g

\* The outline after an edit, and the ends of the nodes.
Redrawn(d, q, f, a, b) ==
  /\ Patched(OutlineOf(q), OutlineOf(d), OutlineOf(Fresh(f)), a, b)
  /\ Voiced(d) /\ Voiced(f) => Voiced(q)

LEMMA EditRedraws ==
  ASSUME NEW d, NEW q, NEW f, NEW a \in 0 .. Len(d.list), NEW b \in a + 1 .. Len(d.list) + 1,
         NEW c, NEW dn, NEW top, Edits(d, q, f, a, b, c, dn, top), q.tokens = d.tokens \o f.tokens,
         q.list = Splice(d.list, a, b, Len(d.tokens), Len(f.tokens))
  PROVE  Redrawn(d, q, f, a, b)
<1>1. Edges(d, q, f) /\ Listed(d) /\ Listed(q) /\ Fragment(f) /\ f.tokens \in Toks
  BY EditEdges, Zenon DEF Edits, WellFormed, Fragment
<1>2. TokensOf(d, f, q)
  BY <1>1, TokensJoin
<1>3. Patched(OutlineOf(q), OutlineOf(d), OutlineOf(Fresh(f)), a, b)
  BY <1>1, <1>2, EditPatches
<1> QED BY <1>1, <1>3, Zenon DEF Redrawn, Edges

-----------------------------------------------------------------------------
(***************************************************************************)
(* The three edits.                                                        *)
(***************************************************************************)
\* Node n takes over the content of the top of f.
Replaced(d, n, f) ==
  LET ns == Shift(f.nodes, Len(d.tokens), Len(d.nodes) - 1)
  IN  [tokens |-> d.tokens \o f.tokens,
       nodes |-> [d.nodes EXCEPT ![n] = ns[1]] \o Tail(ns),
       list |-> Splice(d.list, From(d, n) - 1, To(d, n) + 1, Len(d.tokens), Len(f.tokens))]

LEMMA ReplacedNodes ==
  ASSUME NEW x \in Seq(NodeRecord), NEW n \in DOMAIN x, NEW s \in Seq(NodeRecord), s # <<>>
  PROVE  LET r == [x EXCEPT ![n] = s[1]] \o Tail(s)
         IN  /\ r \in Seq(NodeRecord) /\ DOMAIN r = 1 .. Len(x) + Len(s) - 1
             /\ r[n] = s[1]
             /\ \A y \in DOMAIN x : y # n => r[y] = x[y]
             /\ \A j \in 2 .. Len(s) : r[Len(x) - 1 + j] = s[j]
<1> DEFINE u == [x EXCEPT ![n] = s[1]]
           t == Tail(s)
           r == u \o t
<1> HIDE DEF NodeRecord
<1>1. /\ Len(x) \in Nat /\ DOMAIN x = 1 .. Len(x) /\ Len(s) \in Nat /\ Len(s) >= 1
      /\ s[1] \in NodeRecord
  OBVIOUS
<1>2. /\ u \in Seq(NodeRecord) /\ Len(u) = Len(x) /\ u[n] = s[1]
      /\ \A y \in DOMAIN x : y # n => u[y] = x[y]
  BY <1>1
<1>3. t \in Seq(NodeRecord) /\ Len(t) = Len(s) - 1 /\ \A j \in 2 .. Len(s) : t[j - 1] = s[j]
  BY <1>1
<1> HIDE DEF u, t
<1>4. /\ r \in Seq(NodeRecord) /\ DOMAIN r = 1 .. Len(u) + Len(t)
      /\ \A i \in 1 .. Len(u) : r[i] = u[i]
      /\ \A i \in 1 .. Len(t) : r[Len(u) + i] = t[i]
  <2>1. Joins(NodeRecord, r, u, t)
    BY <1>2, <1>3, ConcatOf DEF r
  <2> QED BY <2>1 DEF Joins
<1> HIDE DEF r
<1>5. DOMAIN r = 1 .. Len(x) + Len(s) - 1
  BY <1>1, <1>2, <1>3, <1>4
<1>6. r[n] = s[1] /\ \A y \in DOMAIN x : y # n => r[y] = x[y]
  BY <1>1, <1>2, <1>4
<1>7. ASSUME NEW j \in 2 .. Len(s) PROVE r[Len(x) - 1 + j] = s[j]
  <2>1. j - 1 \in 1 .. Len(t) /\ Len(x) - 1 + j = Len(u) + (j - 1)
    BY <1>1, <1>2, <1>3
  <2> QED BY <1>3, <1>4, <2>1
<1> QED BY <1>4, <1>5, <1>6, <1>7 DEF r, u, t

LEMMA ReplacedKeeps ==
  ASSUME NEW d, WellFormed(d), NEW n \in DOMAIN d.nodes, Live(d, n), Kind(d, n) \notin WrapperType,
         NEW f, Fragment(f), f.nodes # <<>>, Kind(f, 1) \notin WrapperType
  PROVE  /\ WellFormed(Replaced(d, n, f))
         /\ Redrawn(d, Replaced(d, n, f), f, From(d, n) - 1, To(d, n) + 1)
<1> DEFINE T == Len(d.tokens)
           N == Len(d.nodes)
           k == Len(f.tokens)
           M == Len(f.nodes)
           a == From(d, n) - 1
           b == To(d, n) + 1
           ns == Shift(f.nodes, T, N - 1)
           q == Replaced(d, n, f)
<1>1. /\ Listed(d) /\ T \in Nat /\ N \in Nat /\ DOMAIN d.nodes = 1 .. N /\ n \in 1 .. N
      /\ k \in Nat /\ M \in Nat /\ DOMAIN f.nodes = 1 .. M /\ DOMAIN f.tokens = 1 .. k /\ M >= 1
      /\ d.nodes \in Seq(NodeRecord) /\ f.nodes \in Seq(NodeRecord)
  <2>1. M >= 1
    <3>1. f.nodes \in Seq(NodeRecord)
      BY DEF Fragment
    <3> HIDE DEF NodeRecord
    <3> QED BY <3>1
  <2> QED BY <2>1, DocumentIs DEF WellFormed, Listed, Fragment
<1>2. /\ From(d, n) \in 1 .. Len(d.list) /\ To(d, n) \in 1 .. Len(d.list) /\ Len(d.list) \in Nat
      /\ From(d, n) <= To(d, n)
  BY LiveNode
<1>3. /\ a \in 0 .. Len(d.list) /\ b \in a + 1 .. Len(d.list) + 1 /\ a \in Nat /\ b \in Nat /\ a < b
      /\ From(d, n) = a + 1 /\ To(d, n) + 1 = b /\ a < From(d, n) /\ To(d, n) < b
  BY <1>2
<1>4. /\ ns \in Seq(NodeRecord) /\ Len(ns) = M /\ ns # <<>>
      /\ \A j \in 1 .. M :
           /\ ns[j].type = Kind(f, j) /\ ns[j].start = Begins(f, j) + T /\ ns[j].end = Ends(f, j) + T
           /\ ns[j].children = [i \in DOMAIN Kids(f, j) |-> Kids(f, j)[i] + (N - 1)]
  <2>1. N - 1 \in Nat
    BY <1>1
  <2>2. /\ ns \in Seq(NodeRecord) /\ Len(ns) = M
        /\ \A j \in 1 .. M :
             /\ ns[j].type = Kind(f, j) /\ ns[j].start = Begins(f, j) + T /\ ns[j].end = Ends(f, j) + T
             /\ ns[j].children = [i \in DOMAIN Kids(f, j) |-> Kids(f, j)[i] + (N - 1)]
    <3>1. Shifts(ns, f.nodes, T, N - 1)
      BY <1>1, <2>1, ShiftIs
    <3> HIDE DEF ns
    <3> QED BY <1>1, <3>1 DEF Shifts, Kind, Begins, Ends, Kids
  <2>3. ns # <<>>
    <3> HIDE DEF ns
    <3> QED BY <1>1, <2>2
  <2> QED BY <2>2, <2>3
<1>5. /\ q.tokens = d.tokens \o f.tokens /\ q.nodes = [d.nodes EXCEPT ![n] = ns[1]] \o Tail(ns)
      /\ q.list = Splice(d.list, a, b, T, k)
  BY DEF Replaced
<1> HIDE DEF q, ns
<1>6. /\ q.nodes \in Seq(NodeRecord) /\ DOMAIN q.nodes = 1 .. N + M - 1
      /\ q.nodes[n] = ns[1]
      /\ \A y \in 1 .. N : y # n => q.nodes[y] = d.nodes[y]
      /\ \A j \in 2 .. M : q.nodes[N - 1 + j] = ns[j]
  <2> DEFINE r == [d.nodes EXCEPT ![n] = ns[1]] \o Tail(ns)
  <2>1. /\ r \in Seq(NodeRecord) /\ DOMAIN r = 1 .. Len(d.nodes) + Len(ns) - 1
        /\ r[n] = ns[1]
        /\ \A y \in DOMAIN d.nodes : y # n => r[y] = d.nodes[y]
        /\ \A j \in 2 .. Len(ns) : r[Len(d.nodes) - 1 + j] = ns[j]
    <3>1. d.nodes \in Seq(NodeRecord) /\ n \in DOMAIN d.nodes /\ ns \in Seq(NodeRecord) /\ ns # <<>>
      BY <1>1, <1>4
    <3> QED BY ONLY <3>1, ReplacedNodes
  <2>2. q.nodes = r
    BY <1>5
  <2> HIDE DEF r
  <2> QED BY <1>1, <1>4, <2>1, <2>2
<1>7. /\ q.tokens \in Toks /\ Len(q.tokens) = T + k
      /\ \A e \in DOMAIN d.tokens : q.tokens[e] = d.tokens[e]
      /\ \A e \in DOMAIN f.tokens : q.tokens[T + e] = f.tokens[e]
  <2>1. q.tokens = d.tokens \o f.tokens
    BY <1>5
  <2>2. TokensOf(d, f, q)
    BY <1>1, <2>1, TokensJoin
  <2> QED BY <2>2 DEF TokensOf
<1>8. Listed(q) /\ Moves(d, q, a, b, k)
  BY <1>1, <1>3, <1>5, <1>6, <1>7, ListMoves
<1> HIDE DEF a, b, T, N, k, M
\* A node of the fragment.
<1>9. ASSUME NEW j \in 1 .. M
      PROVE  LET x == Plant(j, N - 1, n)
             IN  /\ x \in 1 .. N + M - 1 /\ Kind(q, x) = Kind(f, j)
                 /\ Begins(q, x) = T + Begins(f, j) /\ Ends(q, x) = T + Ends(f, j)
                 /\ Kids(q, x) = [i \in DOMAIN Kids(f, j) |-> Kids(f, j)[i] + (N - 1)]
  <2> DEFINE x == Plant(j, N - 1, n)
  <2>1. x \in 1 .. N + M - 1 /\ q.nodes[x] = ns[j]
    <3>1. CASE j = 1
      BY <1>1, <1>6, <3>1 DEF Plant
    <3>2. CASE j # 1
      <4>1. x = N - 1 + j /\ j \in 2 .. M
        BY <1>1, <3>2 DEF Plant
      <4> HIDE DEF x
      <4> QED BY <1>1, <1>6, <4>1
    <3> QED BY <3>1, <3>2
  <2>2. Begins(f, j) \in Nat /\ Ends(f, j) \in Nat
    BY <1>1, DocumentIs DEF Fragment
  <2>3. Begins(f, j) + T = T + Begins(f, j) /\ Ends(f, j) + T = T + Ends(f, j)
    BY <1>1, <2>2
  <2>4. /\ Kind(q, x) = ns[j].type /\ Begins(q, x) = ns[j].start /\ Ends(q, x) = ns[j].end
        /\ Kids(q, x) = ns[j].children
    BY <2>1 DEF Kind, Begins, Ends, Kids
  <2> HIDE DEF x
  <2>5. /\ ns[j].type = Kind(f, j) /\ ns[j].start = Begins(f, j) + T /\ ns[j].end = Ends(f, j) + T
        /\ ns[j].children = [i \in DOMAIN Kids(f, j) |-> Kids(f, j)[i] + (N - 1)]
    BY <1>4
  <2>6. /\ x \in 1 .. N + M - 1 /\ Kind(q, x) = Kind(f, j)
        /\ Begins(q, x) = T + Begins(f, j) /\ Ends(q, x) = T + Ends(f, j)
        /\ Kids(q, x) = [i \in DOMAIN Kids(f, j) |-> Kids(f, j)[i] + (N - 1)]
    BY <2>1, <2>3, <2>4, <2>5, Zenon
  <2> QED BY <2>6, Zenon DEF x
<1>10. ASSUME NEW y \in DOMAIN d.nodes, y # n
       PROVE  /\ Begins(q, y) = Begins(d, y) /\ Ends(q, y) = Ends(d, y)
              /\ Kind(q, y) = Kind(d, y) /\ Kids(q, y) = Kids(d, y)
  BY <1>1, <1>6, <1>10 DEF Begins, Ends, Kind, Kids
<1>21. \A j \in 1 .. M :
         LET x == Plant(j, N - 1, n)
         IN  /\ x \in 1 .. N + M - 1 /\ Kind(q, x) = Kind(f, j)
             /\ Begins(q, x) = T + Begins(f, j) /\ Ends(q, x) = T + Ends(f, j)
             /\ Kids(q, x) = [i \in DOMAIN Kids(f, j) |-> Kids(f, j)[i] + (N - 1)]
  BY <1>9, Zenon
<1>11. DOMAIN q.nodes = DOMAIN d.nodes \union {Plant(j, N - 1, n) : j \in DOMAIN f.nodes}
  <2>1. ASSUME NEW y \in 1 .. N + M - 1, y \notin 1 .. N
        PROVE  \E j \in 1 .. M : y = Plant(j, N - 1, n)
    <3>1. y - (N - 1) \in 1 .. M /\ y - (N - 1) # 1 /\ y = y - (N - 1) + (N - 1)
      BY <1>1, <2>1
    <3> QED BY <3>1 DEF Plant
  <2>2. 1 .. N \subseteq 1 .. N + M - 1
    BY <1>1
  <2>3. \A j \in 1 .. M : Plant(j, N - 1, n) \in 1 .. N + M - 1
    BY <1>21, Zenon
  <2> DEFINE P == {Plant(j, N - 1, n) : j \in 1 .. M}
  <2>4. \A y \in P : y \in 1 .. N + M - 1
    BY <2>3
  <2>5. \A y \in 1 .. N + M - 1 : y \in 1 .. N \/ y \in P
    BY <2>1
  <2>6. P = {Plant(j, N - 1, n) : j \in DOMAIN f.nodes}
    BY <1>1
  <2> HIDE DEF P
  <2>7. 1 .. N + M - 1 = (1 .. N) \union P
    BY <2>2, <2>4, <2>5
  <2> QED BY <1>1, <1>6, <2>6, <2>7
<1>12. Grafts(d, q, f, N - 1, n)
  <2>1. N - 1 \in Nat /\ n \in Nat /\ N <= (N - 1) + 1 /\ n <= (N - 1) + 1
    BY <1>1
  <2>2. \A y \in DOMAIN d.nodes :
          y # n => Begins(q, y) = Begins(d, y) /\ Ends(q, y) = Ends(d, y) /\ Kind(q, y) = Kind(d, y)
    BY <1>10
  <2>3. DOMAIN f.nodes = 1 .. M
    BY <1>1
  <2> QED BY <1>7, <1>11, <1>21, <2>1, <2>2, <2>3, Zenon DEF Grafts, T, N, k
<1>13. Parts(d, a, b, n) /\ Goes(d, n, a, b)
  <2>1. ASSUME NEW y \in DOMAIN d.nodes, Live(d, y), y # n, ~Inside(d, y, n)
        PROVE  Stays(d, y, a, b)
    <3>1. From(d, y) \in Nat /\ To(d, y) \in Nat
      BY <2>1, LiveNode
    <3>2. From(d, y) \in From(d, n) .. To(d, n) \/ To(d, y) \in From(d, n) .. To(d, n) => Inside(d, n, y)
      BY <2>1, OwnEnds
    <3>3. Inside(d, n, y) => From(d, y) < From(d, n) /\ To(d, n) < To(d, y)
      BY <2>1, InsideIs
    <3>4. \A i \in Nat : i \notin From(d, n) .. To(d, n) => Beside(i, a, b)
      BY <1>2, <1>3 DEF Beside
    <3>5. \A i \in Nat : i < From(d, n) \/ To(d, n) < i => Beside(i, a, b)
      BY <1>2, <1>3 DEF Beside
    <3> QED BY <3>1, <3>2, <3>3, <3>4, <3>5 DEF Stays
  <2> QED BY <1>3, <2>1, CutParts
<1>14. Kind(q, n) \notin WrapperType
  <2>1. Plant(1, N - 1, n) = n /\ 1 \in 1 .. M
    BY <1>1 DEF Plant
  <2>2. Kind(q, n) = Kind(f, 1)
    BY <1>21, <2>1
  <2> QED BY <2>2
<1>15. \A m \in DOMAIN d.nodes \ {n} : Row(d, q, m, a, b, n, n)
  <2> SUFFICES ASSUME NEW m \in DOMAIN d.nodes \ {n} PROVE Row(d, q, m, a, b, n, n)
    OBVIOUS
  <2>1. Kids(q, m) = Kids(d, m)
    BY <1>10
  <2>2. Turned(d, q, a, b, n, n)
    BY <1>3, <1>14 DEF Turned
  <2> QED BY <1>3, <2>1, <2>2, SameRow
<1>16. n # 1 => Stays(d, 1, a, b)
  <2> SUFFICES ASSUME n # 1 PROVE Stays(d, 1, a, b)
    OBVIOUS
  <2>1. 1 \in DOMAIN d.nodes /\ Live(d, 1)
    BY DEF WellFormed, Kept
  <2>2. Inside(d, n, 1)
    BY <2>1, RootHolds
  <2>3. From(d, 1) < From(d, n) /\ To(d, n) < To(d, 1)
    BY <2>1, <2>2, InsideIs
  <2>4. From(d, 1) \in Nat /\ To(d, 1) \in Nat
    BY <2>1, LiveNode
  <2> QED BY <1>2, <1>3, <2>3, <2>4 DEF Stays, Beside
<1>17. n # 1 => \E m \in DOMAIN d.nodes : m # n /\ Hosts(q, m, n)
  <2> SUFFICES ASSUME n # 1 PROVE \E m \in DOMAIN d.nodes : m # n /\ Hosts(q, m, n)
    OBVIOUS
  <2>1. PICK m \in DOMAIN d.nodes : m < n /\ \E i \in DOMAIN Kids(d, m) : Kids(d, m)[i] = n
    BY HasParent
  <2>2. m # n
    BY <1>1, <2>1
  <2> QED BY <1>10, <2>1, <2>2 DEF Hosts
<1>18. \A m, o \in DOMAIN d.nodes \ {n} : Hosts(q, m, n) /\ Hosts(q, o, n) => m = o
  BY <1>10 DEF Hosts, WellFormed, OneParent
<1>19. Edits(d, q, f, a, b, n, N - 1, n)
  <2>1. n # 0 /\ n \in DOMAIN d.nodes
    BY <1>1
  <2> QED BY <1>3, <1>8, <1>12, <1>13, <1>14, <1>15, <1>16, <1>17, <1>18, <2>1, Zenon DEF Edits, k
<1>20. WellFormed(q)
  BY <1>19, EditKeeps
<1>22. Redrawn(d, q, f, a, b)
  BY <1>3, <1>5, <1>19, EditRedraws DEF T, k
<1> QED BY <1>20, <1>22 DEF q, a, b
-----------------------------------------------------------------------------
\* Node n gets the children kk; what comes in goes behind the other nodes.
Grown(d, n, kk, f, a, b) ==
  [tokens |-> d.tokens \o f.tokens,
   nodes |-> [d.nodes EXCEPT ![n].children = kk] \o Shift(f.nodes, Len(d.tokens), Len(d.nodes)),
   list |-> Splice(d.list, a, b, Len(d.tokens), Len(f.tokens))]

NodesGrown(r, x, n, kk, s) ==
  /\ r \in Seq(NodeRecord) /\ DOMAIN r = 1 .. Len(x) + Len(s)
  /\ r[n].type = x[n].type /\ r[n].start = x[n].start /\ r[n].end = x[n].end
  /\ r[n].children = kk
  /\ \A y \in DOMAIN x : y # n => r[y] = x[y]
  /\ \A j \in 1 .. Len(s) : r[Len(x) + j] = s[j]

LEMMA GrownNodes ==
  ASSUME NEW x \in Seq(NodeRecord), NEW n \in DOMAIN x, NEW kk \in Seq(Nat), NEW s \in Seq(NodeRecord)
  PROVE  NodesGrown([x EXCEPT ![n].children = kk] \o s, x, n, kk, s)
<1> DEFINE v == [x[n] EXCEPT !.children = kk]
           u == [x EXCEPT ![n] = v]
           r == u \o s
<1>1. x[n] \in [type : NodeType, start : Nat, end : Nat, children : Seq(Nat)]
  <2>1. x[n] \in NodeRecord
    <3> HIDE DEF NodeRecord
    <3> QED OBVIOUS
  <2> QED BY <2>1 DEF NodeRecord
<1>2. /\ v \in [type : NodeType, start : Nat, end : Nat, children : Seq(Nat)]
      /\ v.type = x[n].type /\ v.start = x[n].start /\ v.end = x[n].end /\ v.children = kk
  <2> HIDE DEF NodeType
  <2> QED BY <1>1
<1>3. v \in NodeRecord
  BY <1>2 DEF NodeRecord
<1>4. [x EXCEPT ![n].children = kk] = u
  OBVIOUS
<1> HIDE DEF v, NodeRecord
<1>5. /\ Len(x) \in Nat /\ DOMAIN x = 1 .. Len(x)
      /\ u \in Seq(NodeRecord) /\ Len(u) = Len(x) /\ u[n] = v
      /\ \A y \in DOMAIN x : y # n => u[y] = x[y]
  BY <1>3
<1> HIDE DEF u
<1>6. Joins(NodeRecord, r, u, s)
  BY <1>5, ConcatOf DEF r
<1> HIDE DEF r
<1>7. r \in Seq(NodeRecord) /\ DOMAIN r = 1 .. Len(x) + Len(s)
  BY <1>5, <1>6 DEF Joins
<1>8. r[n] = v /\ \A y \in DOMAIN x : y # n => r[y] = x[y]
  BY <1>5, <1>6 DEF Joins
<1>9. \A j \in 1 .. Len(s) : r[Len(x) + j] = s[j]
  BY <1>5, <1>6 DEF Joins
<1>10. NodesGrown(r, x, n, kk, s)
  BY <1>2, <1>7, <1>8, <1>9 DEF NodesGrown
<1> QED BY <1>4, <1>10 DEF r

GrownBy(d, q, f, n, kk, top) ==
  /\ q.tokens \in Toks /\ q.nodes \in Seq(NodeRecord) /\ Len(q.tokens) = Len(d.tokens) + Len(f.tokens)
  /\ Grafts(d, q, f, Len(d.nodes), top)
  /\ Kids(q, n) = kk
  /\ \A m \in DOMAIN d.nodes : m # n => Kids(q, m) = Kids(d, m)

LEMMA GrownIs ==
  ASSUME NEW d, WellFormed(d), NEW n \in DOMAIN d.nodes, NEW kk \in Seq(Nat), NEW f, Fragment(f),
         NEW a, NEW b, NEW top, top = IF f.nodes = <<>> THEN 0 ELSE Len(d.nodes) + 1
  PROVE  GrownBy(d, Grown(d, n, kk, f, a, b), f, n, kk, top)
<1> DEFINE T == Len(d.tokens)
           N == Len(d.nodes)
           k == Len(f.tokens)
           M == Len(f.nodes)
           ns == Shift(f.nodes, T, N)
           q == Grown(d, n, kk, f, a, b)
<1>1. /\ Listed(d) /\ T \in Nat /\ N \in Nat /\ DOMAIN d.nodes = 1 .. N /\ n \in 1 .. N
      /\ k \in Nat /\ M \in Nat /\ DOMAIN f.nodes = 1 .. M /\ DOMAIN f.tokens = 1 .. k
      /\ d.nodes \in Seq(NodeRecord) /\ f.nodes \in Seq(NodeRecord)
  BY DocumentIs DEF WellFormed, Listed, Fragment
<1>2. top = IF M = 0 THEN 0 ELSE N + 1
  <2> HIDE DEF NodeRecord
  <2> QED BY <1>1
<1>3. /\ ns \in Seq(NodeRecord) /\ Len(ns) = M
      /\ \A j \in 1 .. M :
           /\ ns[j].type = Kind(f, j) /\ ns[j].start = Begins(f, j) + T /\ ns[j].end = Ends(f, j) + T
           /\ ns[j].children = [i \in DOMAIN Kids(f, j) |-> Kids(f, j)[i] + N]
  <2>1. Shifts(ns, f.nodes, T, N)
    BY <1>1, ShiftIs
  <2> HIDE DEF ns
  <2> QED BY <1>1, <2>1 DEF Shifts, Kind, Begins, Ends, Kids
<1>4. q.tokens = d.tokens \o f.tokens /\ q.nodes = [d.nodes EXCEPT ![n].children = kk] \o ns
  BY DEF Grown
<1> HIDE DEF q, ns
<1>5. /\ q.nodes \in Seq(NodeRecord) /\ DOMAIN q.nodes = 1 .. N + M
      /\ Kind(q, n) = Kind(d, n) /\ Begins(q, n) = Begins(d, n) /\ Ends(q, n) = Ends(d, n)
      /\ Kids(q, n) = kk
      /\ \A y \in 1 .. N : y # n => q.nodes[y] = d.nodes[y]
      /\ \A j \in 1 .. M : q.nodes[N + j] = ns[j]
  <2>1. NodesGrown(q.nodes, d.nodes, n, kk, ns)
    BY <1>1, <1>3, <1>4, GrownNodes
  <2> QED BY <1>1, <1>3, <2>1 DEF NodesGrown, Kind, Begins, Ends, Kids
<1>6. /\ q.tokens \in Toks /\ Len(q.tokens) = T + k
      /\ \A e \in DOMAIN d.tokens : q.tokens[e] = d.tokens[e]
      /\ \A e \in DOMAIN f.tokens : q.tokens[T + e] = f.tokens[e]
  <2>1. TokensOf(d, f, q)
    BY <1>1, <1>4, TokensJoin
  <2> QED BY <2>1 DEF TokensOf
<1> HIDE DEF T, N, k, M
\* A node of the fragment.
<1>7. ASSUME NEW j \in 1 .. M PROVE Plant(j, N, top) = N + j /\ N + j \in 1 .. N + M
  <2>1. N \in Nat /\ M \in Nat
    BY <1>1
  <2>2. j \in Nat /\ M # 0 /\ N + j \in 1 .. N + M /\ j + N = N + j
    BY ONLY <2>1, j \in 1 .. M
  <2>3. top = N + 1
    BY ONLY <1>2, <2>2
  <2> QED BY ONLY <2>2, <2>3 DEF Plant
<1>8. ASSUME NEW j \in 1 .. M
      PROVE  LET x == Plant(j, N, top)
             IN  /\ Kind(q, x) = Kind(f, j)
                 /\ Begins(q, x) = T + Begins(f, j) /\ Ends(q, x) = T + Ends(f, j)
                 /\ Kids(q, x) = [i \in DOMAIN Kids(f, j) |-> Kids(f, j)[i] + N]
  <2> DEFINE x == Plant(j, N, top)
  <2>1. q.nodes[x] = ns[j]
    BY <1>5, <1>7
  <2>2. Begins(f, j) \in Nat /\ Ends(f, j) \in Nat
    BY <1>1, DocumentIs DEF Fragment
  <2>3. Begins(f, j) + T = T + Begins(f, j) /\ Ends(f, j) + T = T + Ends(f, j)
    BY <1>1, <2>2
  <2>4. /\ Kind(q, x) = ns[j].type /\ Begins(q, x) = ns[j].start /\ Ends(q, x) = ns[j].end
        /\ Kids(q, x) = ns[j].children
    BY <2>1 DEF Kind, Begins, Ends, Kids
  <2> HIDE DEF x
  <2>5. /\ ns[j].type = Kind(f, j) /\ ns[j].start = Begins(f, j) + T /\ ns[j].end = Ends(f, j) + T
        /\ ns[j].children = [i \in DOMAIN Kids(f, j) |-> Kids(f, j)[i] + N]
    BY <1>3
  <2>6. /\ Kind(q, x) = Kind(f, j)
        /\ Begins(q, x) = T + Begins(f, j) /\ Ends(q, x) = T + Ends(f, j)
        /\ Kids(q, x) = [i \in DOMAIN Kids(f, j) |-> Kids(f, j)[i] + N]
    BY <2>3, <2>4, <2>5, Zenon
  <2> QED BY <2>6, Zenon DEF x
<1>9. \A j \in 1 .. M :
        LET x == Plant(j, N, top)
        IN  /\ Kind(q, x) = Kind(f, j)
            /\ Begins(q, x) = T + Begins(f, j) /\ Ends(q, x) = T + Ends(f, j)
            /\ Kids(q, x) = [i \in DOMAIN Kids(f, j) |-> Kids(f, j)[i] + N]
  BY <1>8, Zenon
<1>10. ASSUME NEW y \in DOMAIN d.nodes
       PROVE  /\ Begins(q, y) = Begins(d, y) /\ Ends(q, y) = Ends(d, y)
              /\ Kind(q, y) = Kind(d, y)
              /\ y # n => Kids(q, y) = Kids(d, y)
  BY <1>1, <1>5 DEF Begins, Ends, Kind, Kids
<1>11. DOMAIN q.nodes = DOMAIN d.nodes \union {Plant(j, N, top) : j \in DOMAIN f.nodes}
  <2>1. ASSUME NEW y \in 1 .. N + M, y \notin 1 .. N
        PROVE  \E j \in 1 .. M : y = Plant(j, N, top)
    <3>1. y - N \in 1 .. M /\ y = N + (y - N)
      BY <1>1, <2>1
    <3> QED BY <1>7, <3>1
  <2>2. 1 .. N \subseteq 1 .. N + M
    BY <1>1
  <2> DEFINE P == {Plant(j, N, top) : j \in 1 .. M}
  <2>3. \A y \in P : y \in 1 .. N + M
    BY <1>7
  <2>4. \A y \in 1 .. N + M : y \in 1 .. N \/ y \in P
    BY <2>1
  <2>5. P = {Plant(j, N, top) : j \in DOMAIN f.nodes}
    BY <1>1
  <2> HIDE DEF P
  <2>6. 1 .. N + M = (1 .. N) \union P
    BY <2>2, <2>3, <2>4
  <2> QED BY <1>1, <1>5, <2>5, <2>6
<1>12. Grafts(d, q, f, N, top)
  <2>1. N \in Nat /\ top \in Nat /\ N <= N + 1 /\ top <= N + 1
    BY <1>1, <1>2
  <2>2. \A y \in DOMAIN d.nodes :
          y # top => Begins(q, y) = Begins(d, y) /\ Ends(q, y) = Ends(d, y) /\ Kind(q, y) = Kind(d, y)
    BY <1>10
  <2>3. DOMAIN f.nodes = 1 .. M
    BY <1>1
  <2> QED BY <1>6, <1>9, <1>11, <2>1, <2>2, <2>3, Zenon DEF Grafts, T, N, k
<1>13. \A m \in DOMAIN d.nodes : m # n => Kids(q, m) = Kids(d, m)
  BY <1>10
<1>14. GrownBy(d, q, f, n, kk, top)
  BY <1>5, <1>6, <1>12, <1>13, Zenon DEF GrownBy, T, N, k
<1> QED BY <1>14 DEF q
Opened(r, s, i, e) ==
  /\ r \in Seq(Nat) /\ Len(r) = Len(s) + 1 /\ r[i] = e
  /\ \A j \in 1 .. Len(s) : j < i => r[j] = s[j]
  /\ \A j \in 1 .. Len(s) : i <= j => r[j + 1] = s[j]

LEMMA InsertAtIs ==
  ASSUME NEW s \in Seq(Nat), NEW i \in 1 .. Len(s) + 1, NEW e \in Nat
  PROVE  Opened(InsertAt(s, i, e), s, i, e)
<1> DEFINE u == SubSeq(s, 1, i - 1)
           v == SubSeq(s, i, Len(s))
           w == u \o <<e>>
           r == w \o v
<1>0. Len(s) \in Nat /\ i \in Nat /\ 1 <= i /\ i <= Len(s) + 1
  OBVIOUS
<1>1. u \in Seq(Nat) /\ Len(u) = i - 1 /\ \A j \in 1 .. i - 1 : u[j] = s[j]
  OBVIOUS
<1>2. v \in Seq(Nat) /\ Len(v) = Len(s) - i + 1 /\ \A j \in 1 .. Len(s) - i + 1 : v[j] = s[i + j - 1]
  OBVIOUS
<1>3. <<e>> \in Seq(Nat) /\ Len(<<e>>) = 1 /\ <<e>>[1] = e
  OBVIOUS
<1> HIDE DEF u, v
<1>4. Joins(Nat, w, u, <<e>>)
  BY <1>1, <1>3, ConcatOf
<1> HIDE DEF w
<1>5. w \in Seq(Nat) /\ Len(w) = i /\ w[i] = e /\ \A j \in 1 .. i - 1 : w[j] = s[j]
  BY <1>0, <1>1, <1>3, <1>4 DEF Joins
<1>6. Joins(Nat, r, w, v)
  BY <1>2, <1>5, ConcatOf
<1> HIDE DEF r
<1>7. r \in Seq(Nat) /\ Len(r) = Len(s) + 1
  BY <1>0, <1>2, <1>5, <1>6 DEF Joins
<1>8. r[i] = e /\ \A j \in 1 .. Len(s) : j < i => r[j] = s[j]
  BY <1>0, <1>5, <1>6 DEF Joins
<1>9. ASSUME NEW j \in 1 .. Len(s), i <= j PROVE r[j + 1] = s[j]
  <2>1. /\ j - i + 1 \in 1 .. Len(s) - i + 1 /\ i + (j - i + 1) = j + 1
        /\ i + (j - i + 1) - 1 = j
    BY <1>0, <1>9
  <2>2. r[i + (j - i + 1)] = v[j - i + 1]
    BY <1>2, <1>5, <1>6, <2>1 DEF Joins
  <2> QED BY <1>2, <2>1, <2>2
<1>10. r = InsertAt(s, i, e)
  BY DEF InsertAt, r, u, v, w
<1> QED BY <1>7, <1>8, <1>9, <1>10 DEF Opened

LEMMA RemoveAtIs ==
  ASSUME NEW s \in Seq(Nat), NEW i \in 1 .. Len(s)
  PROVE  LET r == RemoveAt(s, i)
         IN  /\ r \in Seq(Nat) /\ Len(r) = Len(s) - 1
             /\ \A j \in 1 .. Len(s) : j < i => r[j] = s[j]
             /\ \A j \in 1 .. Len(s) : i < j => r[j - 1] = s[j]
<1> DEFINE u == SubSeq(s, 1, i - 1)
           v == SubSeq(s, i + 1, Len(s))
           r == u \o v
<1>0. Len(s) \in Nat /\ i \in Nat /\ 1 <= i /\ i <= Len(s)
  OBVIOUS
<1>1. u \in Seq(Nat) /\ Len(u) = i - 1 /\ \A j \in 1 .. i - 1 : u[j] = s[j]
  <2>1. i - 1 \in 0 .. Len(s)
    BY <1>0
  <2> QED BY <2>1
<1>2. v \in Seq(Nat) /\ Len(v) = Len(s) - i /\ \A j \in 1 .. Len(s) - i : v[j] = s[i + j]
  OBVIOUS
<1> HIDE DEF u, v
<1>3. Joins(Nat, r, u, v)
  BY <1>1, <1>2, ConcatOf
<1> HIDE DEF r
<1>4. r \in Seq(Nat) /\ Len(r) = Len(s) - 1
  BY <1>0, <1>1, <1>2, <1>3 DEF Joins
<1>5. \A j \in 1 .. Len(s) : j < i => r[j] = s[j]
  BY <1>0, <1>1, <1>3 DEF Joins
<1>6. ASSUME NEW j \in 1 .. Len(s), i < j PROVE r[j - 1] = s[j]
  <2>1. j - i \in 1 .. Len(s) - i /\ i - 1 + (j - i) = j - 1 /\ i + (j - i) = j
    BY <1>0, <1>6
  <2>2. r[i - 1 + (j - i)] = v[j - i]
    BY <1>1, <1>2, <1>3, <2>1 DEF Joins
  <2> QED BY <1>2, <2>1, <2>2
<1>7. r = RemoveAt(s, i)
  BY DEF RemoveAt, r, u, v
<1> QED BY <1>4, <1>5, <1>6, <1>7

\* The fragment goes behind position a, and its top becomes child i of n.
Inserted(d, n, i, f, a) == Grown(d, n, InsertAt(Kids(d, n), i, Len(d.nodes) + 1), f, a, a + 1)

LEMMA GapPlace ==
  ASSUME NEW l \in Nat, NEW x \in Nat, NEW y \in Nat, NEW z \in 1 .. l, NEW a \in 1 .. l,
         x < y, y <= a, a < z
  PROVE  /\ a \in 0 .. l /\ a \in Nat /\ a + 1 \in a + 1 .. l + 1 /\ a + 1 \in Nat
         /\ x <= a /\ a + 1 <= z /\ a < a + 1
OBVIOUS

Behind(d, n, i, a) == a = IF i = 1 THEN From(d, n) ELSE To(d, Kids(d, n)[i - 1])

LEMMA InsertedKeeps ==
  ASSUME NEW d, WellFormed(d), NEW n \in DOMAIN d.nodes, Live(d, n), Kind(d, n) \in ContainerType,
         NEW i \in 1 .. Len(Kids(d, n)) + 1, NEW f, Fragment(f), f.nodes # <<>>,
         Kind(d, n) = "object" => Kind(f, 1) = "field",
         Kind(d, n) = "array" => Kind(f, 1) = "element",
         NEW a, Behind(d, n, i, a)
  PROVE  WellFormed(Inserted(d, n, i, f, a)) /\ Redrawn(d, Inserted(d, n, i, f, a), f, a, a + 1)
<1> DEFINE N == Len(d.nodes)
           K == Kids(d, n)
           kk == InsertAt(K, i, N + 1)
           top == N + 1
           q == Inserted(d, n, i, f, a)
           L == Len(K)
<1>1. /\ Listed(d) /\ Len(d.tokens) \in Nat /\ N \in Nat /\ DOMAIN d.nodes = 1 .. N /\ n \in 1 .. N
      /\ Len(f.tokens) \in Nat /\ Len(f.nodes) \in Nat /\ DOMAIN f.nodes = 1 .. Len(f.nodes)
      /\ K \in Seq(Nat) /\ L \in Nat /\ DOMAIN K = 1 .. L /\ Len(d.list) \in Nat /\ d.list \in Seq(Nat)
  <2>1. /\ Listed(d) /\ d.tokens \in Toks /\ d.nodes \in Seq(NodeRecord) /\ d.list \in Seq(Nat)
        /\ f.tokens \in Toks /\ f.nodes \in Seq(NodeRecord)
    BY DEF WellFormed, Listed, Fragment
  <2>2. Len(d.list) \in Nat
    BY <2>1
  <2> QED BY <2>1, <2>2, DocumentIs
<1>2. /\ From(d, n) \in 1 .. Len(d.list) /\ To(d, n) \in 1 .. Len(d.list)
      /\ From(d, n) \in Nat /\ To(d, n) \in Nat /\ From(d, n) < To(d, n)
      /\ \A j \in 1 .. L : Within(d, n, K[j])
  BY <1>1, LiveNode
<1>3. \A j \in 1 .. L :
        /\ K[j] \in 1 .. N /\ Live(d, K[j]) /\ From(d, n) < From(d, K[j]) /\ To(d, K[j]) < To(d, n)
        /\ From(d, K[j]) \in Nat /\ To(d, K[j]) \in 1 .. Len(d.list)
  <2> SUFFICES ASSUME NEW j \in 1 .. L
               PROVE  /\ K[j] \in 1 .. N /\ Live(d, K[j])
                      /\ From(d, n) < From(d, K[j]) /\ To(d, K[j]) < To(d, n)
                      /\ From(d, K[j]) \in Nat /\ To(d, K[j]) \in 1 .. Len(d.list)
    OBVIOUS
  <2> HIDE DEF K
  <2>1. Within(d, n, K[j])
    BY <1>2
  <2> QED BY <1>1, <2>1, LiveNode DEF Within
<1>4. \A j, l \in 1 .. L : j < l => To(d, K[j]) < From(d, K[l])
  BY <1>1, KidsInOrder
<1>5. /\ kk \in Seq(Nat) /\ Len(kk) = L + 1 /\ DOMAIN kk = 1 .. L + 1 /\ kk[i] = top
      /\ \A j \in 1 .. L : j < i => kk[j] = K[j]
      /\ \A j \in 1 .. L : i <= j => kk[j + 1] = K[j]
  <2> HIDE DEF K
  <2>1. /\ kk \in Seq(Nat) /\ Len(kk) = L + 1 /\ kk[i] = top
        /\ \A j \in 1 .. L : j < i => kk[j] = K[j]
        /\ \A j \in 1 .. L : i <= j => kk[j + 1] = K[j]
    <3>1. i \in 1 .. Len(K) + 1 /\ N + 1 \in Nat /\ K \in Seq(Nat)
      BY <1>1 DEF K
    <3>2. Opened(kk, K, i, top)
      BY <3>1, InsertAtIs DEF kk, top
    <3> QED BY <3>2 DEF Opened
  <2> HIDE DEF kk
  <2>2. DOMAIN kk = 1 .. L + 1
    BY <2>1
  <2> QED BY <2>1, <2>2
<1>6. GrownBy(d, q, f, n, kk, top)
  BY <1>5, GrownIs DEF Inserted
<1>7. q.list = Splice(d.list, a, a + 1, Len(d.tokens), Len(f.tokens))
  BY DEF Inserted, Grown
<1>8. i \in Nat /\ i \in 1 .. L + 1 /\ L \in Nat
  BY <1>1
<1> HIDE DEF q, kk, K, L, N
<1>9. a \in 0 .. Len(d.list) /\ a \in Nat /\ a + 1 \in a + 1 .. Len(d.list) + 1 /\ a + 1 \in Nat
      /\ From(d, n) <= a /\ a + 1 <= To(d, n) /\ a < a + 1
  <2>1. CASE i = 1
    <3>1. a = From(d, n) /\ Len(d.list) \in Nat
      BY <1>1, <2>1 DEF Behind
    <3> QED BY ONLY <1>2, <3>1
  <2>2. CASE i # 1
    <3>1. i - 1 \in 1 .. L /\ a = To(d, K[i - 1])
      <4>1. i - 1 \in 1 .. L
        BY <1>1, <1>8, <2>2
      <4> QED BY <2>2, <4>1 DEF K, Behind
    <3>2. From(d, K[i - 1]) <= To(d, K[i - 1])
      BY <1>1, <1>3, <3>1, LiveNode
    <3>3. /\ Len(d.list) \in Nat /\ From(d, n) < From(d, K[i - 1]) /\ To(d, K[i - 1]) < To(d, n)
          /\ From(d, K[i - 1]) \in Nat /\ To(d, K[i - 1]) \in 1 .. Len(d.list)
      BY <1>1, <1>3, <3>1
    <3>4. From(d, K[i - 1]) <= a /\ a < To(d, n) /\ a \in 1 .. Len(d.list)
      BY <3>1, <3>2, <3>3, Zenon
    <3>5. /\ Len(d.list) \in Nat /\ From(d, n) < From(d, K[i - 1]) /\ From(d, K[i - 1]) \in Nat
          /\ From(d, n) \in Nat /\ To(d, n) \in 1 .. Len(d.list)
      BY <1>2, <3>3
    <3> QED BY ONLY <3>4, <3>5, GapPlace
  <2> QED BY <2>1, <2>2
<1>10. Listed(q) /\ Moves(d, q, a, a + 1, Len(f.tokens)) /\ Grafts(d, q, f, N, top)
  BY <1>1, <1>6, <1>7, <1>9, ListMoves DEF GrownBy, N
<1>11. \A y \in DOMAIN d.nodes : Live(d, y) => Stays(d, y, a, a + 1) /\ ~Goes(d, y, a, a + 1)
  <2>1. ASSUME NEW y \in DOMAIN d.nodes, Live(d, y) PROVE Stays(d, y, a, a + 1) /\ ~Goes(d, y, a, a + 1)
    <3>1. From(d, y) \in Nat /\ To(d, y) \in Nat
      BY <2>1, LiveNode
    <3> QED BY <1>9, <3>1 DEF Stays, Goes, Beside
  <2> QED BY <2>1
<1>12. Parts(d, a, a + 1, 0)
  <2>1. ASSUME NEW m \in DOMAIN d.nodes, Live(d, m), NEW j \in DOMAIN Kids(d, m)
        PROVE  ~Goes(d, Kids(d, m)[j], a, a + 1)
    <3>1. Within(d, m, Kids(d, m)[j])
      BY <2>1, LiveNode
    <3> QED BY <1>11, <3>1 DEF Within
  <2> QED BY <1>11, <2>1 DEF Parts
<1>13. Kind(q, top) = Kind(f, 1)
  <2>1. Grafts(d, q, f, N, top)
    BY <1>10
  <2>2. 1 \in DOMAIN f.nodes
    <3>1. f.nodes \in Seq(NodeRecord)
      BY DEF Fragment
    <3> HIDE DEF NodeRecord
    <3> QED BY <3>1
  <2>3. Plant(1, N, top) = top
    BY DEF Plant
  <2> HIDE DEF top
  <2> QED BY <2>1, <2>2, <2>3 DEF Grafts
<1>14. Kids(q, n) = kk /\ \A m \in DOMAIN d.nodes : m # n => Kids(q, m) = Kids(d, m)
  BY <1>6 DEF GrownBy
<1>15. Came(d, q, n, i, a, a + 1, top)
  <2>1. top # 0 /\ n < top
    BY <1>1
  <2>2. Kind(d, n) \notin WrapperType
    BY DEF ContainerType, WrapperType
  <2> QED BY <1>5, <1>9, <1>13, <1>14, <2>1, <2>2 DEF Came
<1>16. \A j \in 1 .. L :
         /\ j < i => Stayed(d, q, n, j, j, 0)
         /\ i <= j => Stayed(d, q, n, j + 1, j, 0)
  <2>1. \A j \in 1 .. L : K[j] # 0
    BY <1>1, <1>3
  <2> QED BY <1>1, <1>5, <1>14, <2>1 DEF Stayed, K
<1>17. Row(d, q, n, a, a + 1, 0, top)
  <2>1. \A o \in 1 .. L : \E j \in 1 .. L + 1 : kk[j] = K[o]
    <3> SUFFICES ASSUME NEW o \in 1 .. L PROVE \E j \in 1 .. L + 1 : kk[j] = K[o]
      OBVIOUS
    <3>1. o \in 1 .. L + 1 /\ o + 1 \in 1 .. L + 1 /\ (o < i \/ i <= o)
      BY <1>1, <1>8
    <3> QED BY <1>5, <3>1
  <2>2. \A j, l \in 1 .. L : K[j] = K[l] => j = l
    BY <1>1 DEF WellFormed, OneParent, K
  <2>3. \A j \in 1 .. L + 1 :
          \/ j = i
          \/ j \in 1 .. L /\ j < i /\ kk[j] = K[j]
          \/ j - 1 \in 1 .. L /\ i < j /\ i <= j - 1 /\ kk[j] = K[j - 1]
    <3> SUFFICES ASSUME NEW j \in 1 .. L + 1, j # i
                 PROVE  \/ j \in 1 .. L /\ j < i /\ kk[j] = K[j]
                        \/ j - 1 \in 1 .. L /\ i < j /\ i <= j - 1 /\ kk[j] = K[j - 1]
      OBVIOUS
    <3>1. CASE j < i
      <4>1. j \in 1 .. L
        BY ONLY <1>8, <3>1, j \in 1 .. L + 1
      <4> QED BY <1>5, <3>1, <4>1
    <3>2. CASE i < j
      <4>1. j - 1 \in 1 .. L /\ i <= j - 1 /\ (j - 1) + 1 = j
        BY ONLY <1>8, <3>2, j \in 1 .. L + 1
      <4> QED BY <1>5, <3>2, <4>1
    <3> QED BY <1>1, <1>8, <3>1, <3>2
  <2>4. \A j \in 1 .. L : K[j] # top
    BY <1>1, <1>3
  <2>5. \A j, l \in 1 .. L + 1 : kk[j] = kk[l] => j = l
    <3> SUFFICES ASSUME NEW j \in 1 .. L + 1, NEW l \in 1 .. L + 1, kk[j] = kk[l] PROVE j = l
      OBVIOUS
    <3> HIDE DEF top
    <3>1. j \in Nat /\ l \in Nat
      BY <1>1
    <3>2. CASE j = i
      BY <1>5, <1>8, <2>3, <2>4, <3>1, <3>2
    <3>3. CASE l = i
      BY <1>5, <1>8, <2>3, <2>4, <3>1, <3>3
    <3>4. CASE j # i /\ l # i
      <4>1. \/ j \in 1 .. L /\ j < i /\ kk[j] = K[j]
            \/ j - 1 \in 1 .. L /\ i <= j - 1 /\ kk[j] = K[j - 1]
        BY <2>3, <3>4
      <4>2. \/ l \in 1 .. L /\ l < i /\ kk[l] = K[l]
            \/ l - 1 \in 1 .. L /\ i <= l - 1 /\ kk[l] = K[l - 1]
        BY <2>3, <3>4
      <4>3. CASE j \in 1 .. L /\ j < i /\ kk[j] = K[j]
        BY <1>8, <2>2, <3>1, <4>2, <4>3
      <4>4. CASE j - 1 \in 1 .. L /\ i <= j - 1 /\ kk[j] = K[j - 1]
        BY <1>8, <2>2, <3>1, <4>2, <4>4
      <4> QED BY <4>1, <4>3, <4>4
    <3> QED BY <3>2, <3>3, <3>4
  <2>6. ASSUME NEW j \in 1 .. L + 1
        PROVE  Came(d, q, n, j, a, a + 1, top) \/ \E o \in 1 .. L : Stayed(d, q, n, j, o, 0)
    <3> HIDE DEF top
    <3>1. CASE j = i
      BY <1>15, <3>1
    <3>2. CASE j # i
      <4>1. CASE j \in 1 .. L /\ j < i
        BY <1>16, <4>1
      <4>2. CASE j - 1 \in 1 .. L /\ i <= j - 1
        <5>1. (j - 1) + 1 = j
          BY <1>1
        <5> QED BY <1>16, <4>2, <5>1
      <4> QED BY <2>3, <3>2, <4>1, <4>2
    <3> QED BY <3>1, <3>2
  <2>7. ASSUME NEW j \in 1 .. L + 1, j > 1
        PROVE  \/ \E o, p \in 1 .. L :
                    o < p /\ Stayed(d, q, n, j - 1, o, 0) /\ Stayed(d, q, n, j, p, 0)
               \/ \E o \in 1 .. L :
                    /\ Stayed(d, q, n, j - 1, o, 0) /\ To(d, K[o]) <= a
                    /\ Came(d, q, n, j, a, a + 1, top)
               \/ \E p \in 1 .. L :
                    /\ Came(d, q, n, j - 1, a, a + 1, top)
                    /\ Stayed(d, q, n, j, p, 0) /\ a + 1 <= From(d, K[p])
    <3> HIDE DEF top
    <3>1. CASE j < i
      <4>1. j - 1 \in 1 .. L /\ j \in 1 .. L /\ j - 1 < j /\ j - 1 < i
        BY <1>1, <1>8, <2>7, <3>1
      <4>2. Stayed(d, q, n, j - 1, j - 1, 0) /\ Stayed(d, q, n, j, j, 0)
        BY <1>16, <3>1, <4>1
      <4> QED BY <4>1, <4>2
    <3>2. CASE j = i
      <4>1. j - 1 \in 1 .. L /\ j - 1 < i /\ i # 1
        BY ONLY <1>8, <2>7, <3>2, j \in 1 .. L + 1
      <4>2. Stayed(d, q, n, j - 1, j - 1, 0)
        BY <1>16, <4>1
      <4>3. To(d, K[j - 1]) <= a
        BY <1>3, <1>9, <3>2, <4>1 DEF K, Behind
      <4> QED BY <1>15, <3>2, <4>1, <4>2, <4>3
    <3>3. CASE j = i + 1
      <4>1. i \in 1 .. L /\ j - 1 = i
        BY ONLY <1>8, <2>7, <3>3, j \in 1 .. L + 1
      <4>2. Stayed(d, q, n, j, i, 0)
        BY <1>8, <1>16, <3>3, <4>1
      <4>3. a < From(d, K[i]) /\ From(d, K[i]) \in Nat
        <5>1. CASE i = 1
          BY <1>3, <4>1, <5>1 DEF Behind
        <5>2. CASE i # 1
          <6>1. i - 1 \in 1 .. L /\ i - 1 < i /\ a = To(d, K[i - 1])
            <7>1. i - 1 \in 1 .. L /\ i - 1 < i
              BY <1>1, <1>8, <4>1, <5>2
            <7> QED BY <5>2, <7>1 DEF K, Behind
          <6> QED BY <1>3, <1>4, <4>1, <6>1
        <5> QED BY <5>1, <5>2
      <4>4. a + 1 <= From(d, K[i])
        BY <1>9, <4>3
      <4> QED BY <1>15, <4>1, <4>2, <4>4
    <3>4. CASE j > i + 1
      <4>1. /\ j - 2 \in 1 .. L /\ j - 1 \in 1 .. L /\ j - 2 < j - 1 /\ i <= j - 2 /\ i <= j - 1
            /\ (j - 2) + 1 = j - 1 /\ (j - 1) + 1 = j
        BY ONLY <1>8, <2>7, <3>4, j \in 1 .. L + 1
      <4>2. Stayed(d, q, n, j - 1, j - 2, 0) /\ Stayed(d, q, n, j, j - 1, 0)
        BY <1>16, <4>1
      <4> QED BY <4>1, <4>2
    <3>5. j \in Nat
      BY <1>1
    <3> QED BY <1>8, <3>1, <3>2, <3>3, <3>4, <3>5
  <2> HIDE DEF top
  <2>8. DOMAIN Kids(q, n) = 1 .. L + 1 /\ Kids(q, n) = kk /\ DOMAIN Kids(d, n) = 1 .. L
    BY <1>1, <1>5, <1>14 DEF K
  <2> QED BY <2>1, <2>5, <2>6, <2>7, <2>8 DEF Row, K
<1>18. \A m \in DOMAIN d.nodes : Row(d, q, m, a, a + 1, 0, top)
  <2> SUFFICES ASSUME NEW m \in DOMAIN d.nodes, m # n PROVE Row(d, q, m, a, a + 1, 0, top)
    BY <1>17
  <2>1. \A j \in DOMAIN Kids(d, m) : Kids(d, m)[j] # 0
    BY <1>1 DEF WellFormed, Linked, LinkedAt
  <2>2. Kids(q, m) = Kids(d, m)
    BY <1>14
  <2> QED BY <1>9, <2>1, <2>2, SameRow
<1>19. \A m \in DOMAIN d.nodes : Hosts(q, m, top) => m = n
  <2> SUFFICES ASSUME NEW m \in DOMAIN d.nodes, Hosts(q, m, top), m # n PROVE FALSE
    OBVIOUS
  <2>1. PICK j \in DOMAIN Kids(d, m) : Kids(d, m)[j] = top
    BY <1>14 DEF Hosts
  <2>2. top \in 1 .. N
    BY <1>1, <2>1 DEF WellFormed, Linked, LinkedAt
  <2> QED BY <1>1, <2>2
<1>20. Hosts(q, n, top) /\ n # top /\ top # 1 /\ top # 0 /\ top \notin DOMAIN d.nodes /\ 0 \notin DOMAIN d.nodes
  <2>1. n # top /\ top # 1 /\ top # 0 /\ top \notin DOMAIN d.nodes /\ 0 \notin DOMAIN d.nodes
    BY <1>1
  <2>2. Hosts(q, n, top)
    BY <1>5, <1>8, <1>14 DEF Hosts
  <2> QED BY <2>1, <2>2
<1>21. Stays(d, 1, a, a + 1)
  BY <1>11 DEF WellFormed, Kept
<1> HIDE DEF top
<1>22. Edits(d, q, f, a, a + 1, 0, N, top)
  BY <1>9, <1>10, <1>12, <1>18, <1>19, <1>20, <1>21, Zenon DEF Edits
<1>23. WellFormed(q)
  BY <1>22, EditKeeps
<1>24. Redrawn(d, q, f, a, a + 1)
  BY <1>7, <1>9, <1>22, EditRedraws DEF Inserted, Grown, q
<1> QED BY <1>23, <1>24 DEF q
\* Nothing comes in.
Nothing == [tokens |-> <<>>, nodes |-> <<>>]

LEMMA NothingIs == Fragment(Nothing) /\ Nothing.tokens = <<>> /\ Nothing.nodes = <<>>
<1>1. Nothing.tokens = <<>> /\ Nothing.nodes = <<>>
  BY DEF Nothing
<1>2. DOMAIN Nothing.tokens = {} /\ DOMAIN Nothing.nodes = {}
  BY <1>1
<1>3. Nothing.tokens \in Toks /\ Nothing.nodes \in Seq(NodeRecord)
  BY <1>1 DEF Toks
<1>4. Linked(Nothing) /\ Formed(Nothing) /\ OneParent(Nothing)
  BY <1>2 DEF Linked, Formed, OneParent
<1>5. Nests(Nothing) /\ Rooted(Nothing) /\ Ended(Nothing)
  BY <1>2 DEF Nests, Rooted, Ended
<1> QED BY <1>1, <1>3, <1>4, <1>5 DEF Fragment

\* Child i of n goes, with the tokens between a and b.
Removed(d, n, i, a, b) == Grown(d, n, RemoveAt(Kids(d, n), i), Nothing, a, b)

\* Between a and b there is nothing else of n and its children.
Spares(d, n, i, a, b) ==
  /\ From(d, n) <= a /\ b <= To(d, n)
  /\ \A j \in DOMAIN Kids(d, n) :
       /\ j < i => To(d, Kids(d, n)[j]) <= a
       /\ i < j => b <= From(d, Kids(d, n)[j])

LEMMA OthersStay ==
  ASSUME NEW d, WellFormed(d), NEW n \in DOMAIN d.nodes, Live(d, n),
         NEW i \in DOMAIN Kids(d, n), NEW a \in Nat, NEW b \in Nat, a < b, Spares(d, n, i, a, b),
         NEW y \in DOMAIN d.nodes, Live(d, y), y # Kids(d, n)[i], ~Inside(d, y, Kids(d, n)[i])
  PROVE  Stays(d, y, a, b)
<1> DEFINE c == Kids(d, n)[i]
<1>1. /\ From(d, y) \in Nat /\ To(d, y) \in Nat /\ From(d, y) <= To(d, y)
      /\ From(d, n) \in Nat /\ To(d, n) \in Nat /\ From(d, n) <= To(d, n)
  BY LiveNode
<1>2. c \in DOMAIN d.nodes /\ Live(d, c)
  BY LiveNode DEF Within
<1>3. From(d, n) <= a /\ b <= To(d, n)
  BY DEF Spares
<1>4. CASE y = n \/ Apart(d, y, n) \/ Inside(d, n, y)
  <2>1. Inside(d, n, y) => From(d, y) < From(d, n) /\ To(d, n) < To(d, y)
    BY InsideIs
  <2>2. \/ From(d, y) <= a /\ b <= To(d, y)
        \/ From(d, y) <= a /\ To(d, y) <= a
        \/ b <= From(d, y) /\ b <= To(d, y)
    <3>1. CASE y = n
      BY <1>3, <3>1
    <3>2. CASE Apart(d, y, n)
      BY <1>1, <1>3, <3>2 DEF Apart
    <3>3. CASE Inside(d, n, y)
      BY <1>1, <1>3, <2>1, <3>3
    <3> QED BY <1>4, <3>1, <3>2, <3>3
  <2> QED BY <2>2, Zenon DEF Stays, Beside
<1>5. CASE Inside(d, y, n)
  <2>1. PICK j \in DOMAIN Kids(d, n) :
               \/ Kids(d, n)[j] = y
               \/ From(d, Kids(d, n)[j]) < From(d, y) /\ To(d, y) < To(d, Kids(d, n)[j])
    BY <1>5 DEF Inside
  <2> DEFINE e == Kids(d, n)[j]
  <2>2. e \in DOMAIN d.nodes /\ Live(d, e)
    BY LiveNode DEF Within
  <2>3. e = y \/ (From(d, e) < From(d, y) /\ To(d, y) < To(d, e))
    BY <2>1
  <2>4. i \in Nat /\ j \in Nat
    <3>1. Listed(d)
      BY DEF WellFormed
    <3>2. DOMAIN Kids(d, n) = 1 .. Len(Kids(d, n)) /\ Len(Kids(d, n)) \in Nat
      BY <3>1, DocumentIs DEF Listed
    <3> QED BY <3>2
  <2>5. j < i => To(d, e) <= a
    BY DEF Spares
  <2>6. i < j => b <= From(d, e)
    BY DEF Spares
  <2>7. j = i => e = c
    OBVIOUS
  <2>8. y # c /\ ~Inside(d, y, c)
    OBVIOUS
  <2> HIDE DEF e, c
  <2>9. From(d, e) \in Nat /\ To(d, e) \in Nat /\ From(d, c) \in Nat /\ To(d, c) \in Nat
    BY <1>2, <2>2, LiveNode
  <2>10. j # i
    <3> SUFFICES ASSUME j = i PROVE FALSE
      OBVIOUS
    <3>1. From(d, c) < From(d, y) /\ To(d, y) < To(d, c)
      BY <2>3, <2>7, <2>8
    <3>2. Apart(d, y, c) \/ Inside(d, c, y)
      BY <1>2, <2>8, Laminar DEF Related
    <3>3. Inside(d, c, y) => From(d, y) < From(d, c)
      BY <1>2, InsideIs
    <3> QED BY <1>1, <2>9, <3>1, <3>2, <3>3 DEF Apart
  <2>11. From(d, e) <= From(d, y) /\ To(d, y) <= To(d, e)
    BY <1>1, <2>3, <2>9
  <2>12. \/ From(d, y) <= a /\ To(d, y) <= a
         \/ b <= From(d, y) /\ b <= To(d, y)
    <3>1. CASE j < i
      BY <1>1, <2>5, <2>9, <2>11, <3>1
    <3>2. CASE i < j
      BY <1>1, <2>6, <2>9, <2>11, <3>2
    <3> QED BY <2>4, <2>10, <3>1, <3>2
  <2> QED BY <2>12, Zenon DEF Stays, Beside
<1>6. y = n \/ Related(d, y, n)
  BY Laminar
<1> QED BY <1>4, <1>5, <1>6 DEF Related

LEMMA RemovedKeeps ==
  ASSUME NEW d, WellFormed(d), NEW n \in DOMAIN d.nodes, Live(d, n), Kind(d, n) \in ContainerType,
         NEW i \in DOMAIN Kids(d, n), NEW a \in 0 .. Len(d.list), NEW b \in a + 1 .. Len(d.list) + 1,
         a < From(d, Kids(d, n)[i]), To(d, Kids(d, n)[i]) < b, Spares(d, n, i, a, b)
  PROVE  WellFormed(Removed(d, n, i, a, b)) /\ Redrawn(d, Removed(d, n, i, a, b), Nothing, a, b)
<1> DEFINE N == Len(d.nodes)
           K == Kids(d, n)
           c == K[i]
           kk == RemoveAt(K, i)
           q == Removed(d, n, i, a, b)
           L == Len(K)
<1>1. /\ Listed(d) /\ Len(d.tokens) \in Nat /\ N \in Nat /\ DOMAIN d.nodes = 1 .. N /\ n \in 1 .. N
      /\ K \in Seq(Nat) /\ L \in Nat /\ DOMAIN K = 1 .. L /\ Len(d.list) \in Nat /\ d.list \in Seq(Nat)
  <2>1. Listed(d) /\ d.tokens \in Toks /\ d.nodes \in Seq(NodeRecord) /\ d.list \in Seq(Nat)
    BY DEF WellFormed, Listed
  <2>2. Len(d.list) \in Nat
    BY <2>1
  <2> QED BY <2>1, <2>2, DocumentIs
<1>2. a \in Nat /\ b \in Nat /\ a < b
  BY <1>1
<1>3. \A j \in 1 .. L : Within(d, n, K[j])
  BY <1>1, LiveNode
<1>4. c \in DOMAIN d.nodes /\ Live(d, c) /\ c # 1 /\ n < c
  BY <1>1, <1>3 DEF Within
<1>5. i \in Nat /\ i \in 1 .. L /\ L \in Nat
  BY <1>1
<1>6. /\ kk \in Seq(Nat) /\ Len(kk) = L - 1 /\ DOMAIN kk = 1 .. L - 1
      /\ \A j \in 1 .. L : j < i => kk[j] = K[j]
      /\ \A j \in 1 .. L : i < j => kk[j - 1] = K[j]
  <2> HIDE DEF K
  <2>1. /\ kk \in Seq(Nat) /\ Len(kk) = L - 1
        /\ \A j \in 1 .. L : j < i => kk[j] = K[j]
        /\ \A j \in 1 .. L : i < j => kk[j - 1] = K[j]
    <3>1. i \in 1 .. Len(K)
      BY <1>5
    <3>2. K \in Seq(Nat)
      BY <1>1
    <3> QED BY ONLY <3>1, <3>2, RemoveAtIs
  <2> HIDE DEF kk
  <2>2. DOMAIN kk = 1 .. L - 1
    BY <2>1
  <2> QED BY <2>1, <2>2
<1>7. GrownBy(d, q, Nothing, n, kk, 0) /\ Nothing.nodes = <<>> /\ Len(Nothing.tokens) = 0 /\ Fragment(Nothing)
  BY <1>6, GrownIs, NothingIs DEF Removed
<1>8. q.list = Splice(d.list, a, b, Len(d.tokens), Len(Nothing.tokens))
  BY DEF Removed, Grown
<1>9. a < From(d, c) /\ To(d, c) < b
  OBVIOUS
<1>10. \A y \in DOMAIN d.nodes : Live(d, y) /\ y # c /\ ~Inside(d, y, c) => Stays(d, y, a, b)
  BY <1>2, OthersStay
<1>11. \A j, l \in 1 .. L : K[j] = K[l] => j = l
  BY <1>1 DEF WellFormed, OneParent
<1>12. \A m \in DOMAIN d.nodes : \A j \in DOMAIN Kids(d, m) : Kids(d, m)[j] = c => m = n
  BY DEF WellFormed, OneParent
<1> HIDE DEF q, kk, K, L, N, c
<1>13. Parts(d, a, b, c) /\ Goes(d, c, a, b)
  BY <1>2, <1>4, <1>9, <1>10, CutParts
<1>14. Stays(d, 1, a, b)
  <2>1. 1 \in DOMAIN d.nodes /\ Live(d, 1)
    BY DEF WellFormed, Kept
  <2>2. ~Inside(d, 1, c)
    <3>1. From(d, 1) < From(d, c)
      BY <1>4, <2>1, RootHolds, InsideIs
    <3>2. From(d, 1) \in Nat /\ From(d, c) \in Nat
      BY <1>4, <2>1, LiveNode
    <3> QED BY <1>4, <2>1, <3>1, <3>2, InsideIs
  <2> QED BY <1>4, <1>10, <2>1, <2>2
<1>15. Listed(q) /\ Moves(d, q, a, b, Len(Nothing.tokens)) /\ Grafts(d, q, Nothing, N, 0)
  BY <1>1, <1>7, <1>8, ListMoves DEF GrownBy, N
<1>16. Kids(q, n) = kk /\ \A m \in DOMAIN d.nodes : m # n => Kids(q, m) = Kids(d, m)
  BY <1>7 DEF GrownBy
<1>17. \A j \in 1 .. L - 1 :
         \/ j < i /\ j \in 1 .. L /\ kk[j] = K[j] /\ K[j] # c /\ Stayed(d, q, n, j, j, c)
         \/ i <= j /\ j + 1 \in 1 .. L /\ kk[j] = K[j + 1] /\ K[j + 1] # c /\ Stayed(d, q, n, j, j + 1, c)
  <2> SUFFICES ASSUME NEW j \in 1 .. L - 1
               PROVE  \/ j < i /\ j \in 1 .. L /\ kk[j] = K[j] /\ K[j] # c /\ Stayed(d, q, n, j, j, c)
                      \/ i <= j /\ j + 1 \in 1 .. L /\ kk[j] = K[j + 1] /\ K[j + 1] # c
                         /\ Stayed(d, q, n, j, j + 1, c)
    OBVIOUS
  <2>1. j \in Nat /\ j \in 1 .. L /\ j + 1 \in 1 .. L /\ (j + 1) - 1 = j
    BY ONLY <1>5, j \in 1 .. L - 1
  <2>2. \A l \in 1 .. L : K[l] = c => l = i
    BY <1>5, <1>11 DEF c
  <2>3. CASE j < i
    <3>1. kk[j] = K[j] /\ K[j] # c
      BY <1>5, <1>6, <2>1, <2>2, <2>3
    <3> QED BY <1>1, <1>16, <2>1, <2>3, <3>1 DEF Stayed, K
  <2>4. CASE i <= j
    <3>1. i < j + 1 /\ j + 1 # i
      BY <1>5, <2>1, <2>4
    <3>2. kk[j] = K[j + 1] /\ K[j + 1] # c
      BY <1>6, <2>1, <2>2, <3>1
    <3> QED BY <1>1, <1>16, <2>1, <2>4, <3>2 DEF Stayed, K
  <2> QED BY <1>5, <2>1, <2>3, <2>4
<1>18. Row(d, q, n, a, b, c, 0)
  <2>1. \A o \in 1 .. L : K[o] # c => \E j \in 1 .. L - 1 : kk[j] = K[o]
    <3> SUFFICES ASSUME NEW o \in 1 .. L, K[o] # c PROVE \E j \in 1 .. L - 1 : kk[j] = K[o]
      OBVIOUS
    <3>1. o # i
      BY DEF c
    <3>2. \/ o < i /\ o \in 1 .. L - 1
          \/ i < o /\ o - 1 \in 1 .. L - 1
      BY ONLY <1>5, <3>1, o \in 1 .. L
    <3> QED BY <1>6, <3>2
  <2>2. \A j, l \in 1 .. L - 1 : kk[j] = kk[l] => j = l
    <3> SUFFICES ASSUME NEW j \in 1 .. L - 1, NEW l \in 1 .. L - 1, kk[j] = kk[l] PROVE j = l
      OBVIOUS
    <3>1. \/ j < i /\ j \in 1 .. L /\ kk[j] = K[j]
          \/ i <= j /\ j + 1 \in 1 .. L /\ kk[j] = K[j + 1]
      BY <1>17
    <3>2. \/ l < i /\ l \in 1 .. L /\ kk[l] = K[l]
          \/ i <= l /\ l + 1 \in 1 .. L /\ kk[l] = K[l + 1]
      BY <1>17
    <3>3. j \in Nat /\ l \in Nat
      BY <1>5
    <3> QED BY <1>5, <1>11, <3>1, <3>2, <3>3
  <2>3. \A j \in 1 .. L - 1 : \E o \in 1 .. L : Stayed(d, q, n, j, o, c)
    BY <1>17
  <2>4. ASSUME NEW j \in 1 .. L - 1, j > 1
        PROVE  \E o, p \in 1 .. L :
                 o < p /\ Stayed(d, q, n, j - 1, o, c) /\ Stayed(d, q, n, j, p, c)
    <3>1. j - 1 \in 1 .. L - 1 /\ j \in Nat
      BY ONLY <1>5, <2>4, j \in 1 .. L - 1
    <3>2. \/ j - 1 < i /\ j - 1 \in 1 .. L /\ Stayed(d, q, n, j - 1, j - 1, c)
          \/ i <= j - 1 /\ (j - 1) + 1 \in 1 .. L /\ Stayed(d, q, n, j - 1, (j - 1) + 1, c)
      BY <1>17, <3>1
    <3>3. \/ j < i /\ j \in 1 .. L /\ Stayed(d, q, n, j, j, c)
          \/ i <= j /\ j + 1 \in 1 .. L /\ Stayed(d, q, n, j, j + 1, c)
      BY <1>17
    <3>4. (j - 1) + 1 = j /\ j - 1 < j /\ j < j + 1 /\ j - 1 < j + 1 /\ (i <= j - 1 => ~(j < i))
      BY ONLY <1>5, <3>1
    <3>5. i <= j - 1 => j \in 1 .. L /\ Stayed(d, q, n, j - 1, j, c)
      BY <1>5, <3>1, <3>2, <3>4
    <3> QED BY <3>2, <3>3, <3>4, <3>5
  <2>5. DOMAIN Kids(q, n) = 1 .. L - 1 /\ Kids(q, n) = kk /\ DOMAIN Kids(d, n) = 1 .. L
    BY <1>1, <1>6, <1>16 DEF K
  <2> QED BY <2>1, <2>2, <2>3, <2>4, <2>5 DEF Row, K
<1>19. \A m \in DOMAIN d.nodes : Row(d, q, m, a, b, c, 0)
  <2> SUFFICES ASSUME NEW m \in DOMAIN d.nodes, m # n PROVE Row(d, q, m, a, b, c, 0)
    BY <1>18
  <2>1. \A j \in DOMAIN Kids(d, m) : Kids(d, m)[j] # c
    BY <1>12
  <2>2. Kids(q, m) = Kids(d, m)
    BY <1>16
  <2> QED BY <1>2, <2>1, <2>2, SameRow
<1>20. \A m \in DOMAIN d.nodes : ~Hosts(q, m, 0)
  <2> SUFFICES ASSUME NEW m \in DOMAIN d.nodes, Hosts(q, m, 0) PROVE FALSE
    OBVIOUS
  <2>1. PICK j \in DOMAIN Kids(q, m) : Kids(q, m)[j] = 0
    BY DEF Hosts
  <2>2. CASE m = n
    <3>1. j \in 1 .. L - 1 /\ Kids(q, m)[j] = kk[j]
      BY <1>6, <1>16, <2>1, <2>2
    <3>2. \E o \in 1 .. L : Kids(q, m)[j] = K[o]
      BY <1>6, <1>17, <3>1
    <3> QED BY <1>1, <1>3, <2>1, <3>2 DEF Within
  <2>3. CASE m # n
    <3>1. 0 \in DOMAIN d.nodes
      BY <1>16, <2>1, <2>3 DEF WellFormed, Linked, LinkedAt
    <3> QED BY <1>1, <3>1
  <2> QED BY <2>2, <2>3
<1>21. 0 \notin DOMAIN d.nodes /\ 0 # 1
  BY <1>1
<1>22. Edits(d, q, Nothing, a, b, c, N, 0)
  BY <1>2, <1>4, <1>7, <1>13, <1>14, <1>15, <1>19, <1>20, <1>21, Zenon DEF Edits
<1>23. WellFormed(q)
  BY <1>22, EditKeeps
<1>24. Redrawn(d, q, Nothing, a, b)
  BY <1>8, <1>22, EditRedraws DEF Removed, Grown, q
<1> QED BY <1>23, <1>24 DEF q
-----------------------------------------------------------------------------
(***************************************************************************)
(* What comes in: an encoded value, perhaps as the value of a new field or *)
(* element, with the tokens around it.                                     *)
(***************************************************************************)
Carrier == [ok : BOOLEAN, tokens : Toks, nodes : Seq(NodeRecord)]

\* A value that may stand anywhere.
ValueOf(f) == f \in Carrier /\ Fragment(f) /\ f.nodes # <<>> /\ Kind(f, 1) \notin WrapperType

\* A fragment is its tokens and nodes.
LEMMA SameFragment ==
  ASSUME NEW p, Fragment(p), NEW f, f.tokens = p.tokens, f.nodes = p.nodes
  PROVE  Fragment(f)
<1>1. Linked(f)
  BY DEF Fragment, Linked, LinkedAt, Begins, Ends, Kids
<1>2. Formed(f)
  BY DEF Fragment, Formed, FormedAt, Full, Kind, Begins, Ends, Kids
<1>3. OneParent(f) /\ Rooted(f)
  BY DEF Fragment, OneParent, Rooted, Kids
<1>4. Nests(f)
  BY DEF Fragment, Nests, Kind, Begins, Ends, Kids
<1>5. Ended(f)
  BY DEF Fragment, Ended, Kind, Begins, Ends
<1> QED BY <1>1, <1>2, <1>3, <1>4, <1>5 DEF Fragment

LEMMA EncodedIs ==
  ASSUME NEW x \in Txt, Encoded(x).ok
  PROVE  ValueOf(Encoded(x))
<1> DEFINE p == Decode(x)
           f == Encoded(x)
<1>1. f = [ok |-> p.at = "end", tokens |-> p.tokens, nodes |-> p.nodes]
  BY DEF Encoded
<1>2. Good(p)
  BY DecodeOK
<1> HIDE DEF p, f
<1>3. f.ok /\ f.tokens = p.tokens /\ f.nodes = p.nodes /\ p.at = "end"
  <2>1. f.ok
    BY DEF f
  <2> QED BY <1>1, <2>1
<1>4. p \in Parser /\ Tree(p) /\ p.open = <<>> /\ p.nodes # <<>>
  BY <1>2, <1>3 DEF Good, Placed
<1>5. /\ Len(p.nodes) \in Nat /\ DOMAIN p.nodes = 1 .. Len(p.nodes) /\ 1 \in DOMAIN p.nodes
      /\ p.tokens \in Toks /\ p.nodes \in Seq(NodeRecord) /\ DOMAIN p.open = {}
      /\ Len(p.tokens) \in Nat /\ DOMAIN p.tokens = 1 .. Len(p.tokens)
  <2>1. p.tokens \in Toks /\ p.nodes \in Seq(NodeRecord)
    <3> HIDE DEF Toks, NodeRecord
    <3> QED BY <1>4 DEF Parser
  <2>2. 1 \in DOMAIN p.nodes
    <3> HIDE DEF NodeRecord
    <3> QED BY <1>4, <2>1
  <2> QED BY <1>4, <2>1, <2>2, DocumentIs
<1>6. \A k : ~IsOpen(p, k) /\ ~IsTop(p, k)
  BY <1>4, <1>5 DEF IsOpen, IsTop
<1>8. \A k \in DOMAIN p.nodes :
        /\ Begins(p, k) \in 1 .. Len(p.tokens) /\ Ends(p, k) \in Begins(p, k) .. Len(p.tokens)
        /\ Begins(p, k) \in Nat /\ Ends(p, k) \in Nat /\ Begins(p, k) <= Ends(p, k)
        /\ Begins(p, k) \in DOMAIN p.tokens /\ Ends(p, k) \in DOMAIN p.tokens
  <2>1. \A k \in DOMAIN p.nodes :
          Begins(p, k) \in 1 .. Len(p.tokens) /\ Ends(p, k) \in Begins(p, k) .. Len(p.tokens)
    BY <1>4, <1>6 DEF Tree, Spans
  <2> QED BY <1>5, <2>1
<1>9. Linked(p)
  BY <1>4, <1>8 DEF Linked, LinkedAt, Tree, Ordered
<1>10. Formed(p)
  <2> SUFFICES ASSUME NEW k \in DOMAIN p.nodes PROVE FormedAt(p, k)
    BY DEF Formed
  <2>1. Full(p, k)
    BY <1>4, <1>6 DEF Tree, Filled, Full
  <2>2. /\ Kind(p, k) \notin ContainerType \union WrapperType => Kids(p, k) = <<>> /\ Ends(p, k) = Begins(p, k)
        /\ Kind(p, k) \in ContainerType => Opening(p.tokens[Begins(p, k)])
        /\ \A i \in DOMAIN Kids(p, k) :
             Kind(p, k) \in WrapperType => Kind(p, Kids(p, k)[i]) \notin WrapperType
    BY <1>4, Zenon DEF Tree, Shaped
  <2>3. \A i \in DOMAIN Kids(p, k) :
          /\ Kind(p, k) = "object" => Kind(p, Kids(p, k)[i]) = "field"
          /\ Kind(p, k) = "array" => Kind(p, Kids(p, k)[i]) = "element"
    BY <1>4, Zenon DEF Tree, Ordered
  <2> QED BY <2>1, <2>2, <2>3, Zenon DEF FormedAt
<1>11. OneParent(p)
  BY <1>4, Zenon DEF OneParent, Tree, Housed
<1>12. Nests(p)
  <2> SUFFICES ASSUME NEW k \in DOMAIN p.nodes
               PROVE  /\ Begins(p, k) <= Ends(p, k)
                      /\ Kind(p, k) \in ContainerType => Begins(p, k) < Ends(p, k)
                      /\ \A i \in DOMAIN Kids(p, k) :
                           LET c == Kids(p, k)[i]
                           IN  /\ Begins(p, k) < Begins(p, c) /\ Ends(p, c) < Ends(p, k)
                               /\ i > 1 => Ends(p, Kids(p, k)[i - 1]) < Begins(p, c)
    BY Zenon DEF Nests
  <2>1. Kind(p, k) \in ContainerType => Begins(p, k) < Ends(p, k)
    BY <1>4, <1>6 DEF Tree, Wide
  <2>2. \A i \in DOMAIN Kids(p, k) :
          LET c == Kids(p, k)[i]
          IN  /\ Begins(p, k) < Begins(p, c) /\ Ends(p, c) < Ends(p, k)
              /\ i > 1 => Ends(p, Kids(p, k)[i - 1]) < Begins(p, c)
    BY <1>4, <1>6, Zenon DEF Tree, Ordered
  <2> QED BY <1>8, <2>1, <2>2
<1>13. Rooted(p)
  BY <1>4, Zenon DEF Rooted, Tree, Housed
<1>14. Ended(p)
  <2>1. \A e, k : e \in Marks(p, k) <=> Kind(p, k) \in WrapperType /\ e \in {Begins(p, k), Ends(p, k)}
    BY <1>6 DEF Marks
  <2>2. \A e \in DOMAIN p.tokens : p.tokens[e] = Anchor <=> \E k \in DOMAIN p.nodes : e \in Marks(p, k)
    BY <1>4 DEF Tree, Anchored
  <2> QED BY <2>1, <2>2, Zenon DEF Ended
<1>15. Kind(p, 1) \notin WrapperType
  BY <1>4, <1>5 DEF Tree, Shaped
<1>16. f \in Carrier
  <2> HIDE DEF Toks, NodeRecord
  <2> QED BY <1>1, <1>3, <1>5 DEF Carrier
<1>17. Fragment(p)
  BY <1>5, <1>9, <1>10, <1>11, <1>12, <1>13, <1>14 DEF Fragment
<1>18. Fragment(f)
  BY <1>3, <1>17, SameFragment
<1>19. f.nodes # <<>> /\ Kind(f, 1) \notin WrapperType
  BY <1>3, <1>4, <1>15 DEF Kind
<1> QED BY <1>16, <1>18, <1>19 DEF f, ValueOf
\* The nodes of f stand in g, h tokens and dn nodes further on.
Carried(f, g, h, dn) ==
  /\ h \in Nat /\ dn \in Nat
  /\ \A j \in DOMAIN f.nodes :
       /\ j + dn \in DOMAIN g.nodes /\ Kind(g, j + dn) = Kind(f, j)
       /\ Begins(g, j + dn) = Begins(f, j) + h /\ Ends(g, j + dn) = Ends(f, j) + h
       /\ Kids(g, j + dn) = [i \in DOMAIN Kids(f, j) |-> Kids(f, j)[i] + dn]
  /\ \A e \in DOMAIN f.tokens : e + h \in DOMAIN g.tokens /\ g.tokens[e + h] = f.tokens[e]

Upright(f, k) ==
  /\ Begins(f, k) <= Ends(f, k)
  /\ Kind(f, k) \in ContainerType => Begins(f, k) < Ends(f, k)
  /\ \A i \in DOMAIN Kids(f, k) :
       LET c == Kids(f, k)[i]
       IN  /\ Begins(f, k) < Begins(f, c) /\ Ends(f, c) < Ends(f, k)
           /\ i > 1 => Ends(f, Kids(f, k)[i - 1]) < Begins(f, c)

LEMMA FragmentIs ==
  ASSUME NEW f, Fragment(f), NEW j \in DOMAIN f.nodes
  PROVE  /\ Begins(f, j) \in DOMAIN f.tokens /\ Ends(f, j) \in DOMAIN f.tokens
         /\ Begins(f, j) \in Nat /\ Ends(f, j) \in Nat /\ j \in Nat /\ j >= 1
         /\ Len(Kids(f, j)) \in Nat /\ DOMAIN Kids(f, j) = 1 .. Len(Kids(f, j)) /\ Kids(f, j) \in Seq(Nat)
         /\ \A i \in DOMAIN Kids(f, j) : Kids(f, j)[i] \in DOMAIN f.nodes /\ j < Kids(f, j)[i]
         /\ FormedAt(f, j) /\ Upright(f, j)
<1>1. LinkedAt(f, j) /\ FormedAt(f, j)
  BY DEF Fragment, Linked, Formed
<1>2. Upright(f, j)
  BY Zenon DEF Fragment, Nests, Upright
<1>3. /\ Begins(f, j) \in Nat /\ Ends(f, j) \in Nat /\ j \in Nat /\ j >= 1
      /\ Len(Kids(f, j)) \in Nat /\ DOMAIN Kids(f, j) = 1 .. Len(Kids(f, j)) /\ Kids(f, j) \in Seq(Nat)
  BY DocumentIs DEF Fragment
<1> QED BY <1>1, <1>2, <1>3 DEF LinkedAt

LEMMA CarriedNode ==
  ASSUME NEW f, Fragment(f), NEW g, NEW h, NEW dn, Carried(f, g, h, dn), NEW j \in DOMAIN f.nodes
  PROVE  /\ LinkedAt(g, j + dn) /\ FormedAt(g, j + dn) /\ Upright(g, j + dn)
         /\ DOMAIN Kids(g, j + dn) = DOMAIN Kids(f, j)
         /\ \A i \in DOMAIN Kids(f, j) : Kids(g, j + dn)[i] = Kids(f, j)[i] + dn
<1> DEFINE x == j + dn
           K == Kids(f, j)
<1>0. h \in Nat /\ dn \in Nat
  BY DEF Carried
<1>1. /\ x \in DOMAIN g.nodes /\ Kind(g, x) = Kind(f, j)
      /\ Begins(g, x) = Begins(f, j) + h /\ Ends(g, x) = Ends(f, j) + h
      /\ Kids(g, x) = [i \in DOMAIN K |-> K[i] + dn]
  BY DEF Carried
<1>2. \A k \in DOMAIN f.nodes :
        /\ k + dn \in DOMAIN g.nodes /\ Kind(g, k + dn) = Kind(f, k)
        /\ Begins(g, k + dn) = Begins(f, k) + h /\ Ends(g, k + dn) = Ends(f, k) + h
        /\ Begins(f, k) \in Nat /\ Ends(f, k) \in Nat
  BY FragmentIs DEF Carried
<1>3. /\ Begins(f, j) \in DOMAIN f.tokens /\ Ends(f, j) \in DOMAIN f.tokens
      /\ Begins(f, j) \in Nat /\ Ends(f, j) \in Nat /\ j \in Nat
      /\ Len(K) \in Nat /\ DOMAIN K = 1 .. Len(K) /\ K \in Seq(Nat)
      /\ \A i \in DOMAIN K : K[i] \in DOMAIN f.nodes /\ j < K[i] /\ K[i] \in Nat
      /\ FormedAt(f, j) /\ Upright(f, j)
  BY FragmentIs
<1>4. \A e \in DOMAIN f.tokens : e + h \in DOMAIN g.tokens /\ g.tokens[e + h] = f.tokens[e]
  BY DEF Carried
<1> HIDE DEF x, K
<1>5. DOMAIN Kids(g, x) = DOMAIN K /\ \A i \in DOMAIN K : Kids(g, x)[i] = K[i] + dn
  BY <1>1
<1>6. LinkedAt(g, x)
  <2>1. Begins(g, x) \in DOMAIN g.tokens /\ Ends(g, x) \in DOMAIN g.tokens
    BY <1>1, <1>3, <1>4
  <2>2. ASSUME NEW i \in DOMAIN K PROVE K[i] + dn \in DOMAIN g.nodes /\ x < K[i] + dn
    <3>1. K[i] + dn \in DOMAIN g.nodes
      BY <1>2, <1>3
    <3>2. j + dn < K[i] + dn
      BY <1>0, <1>3
    <3> QED BY <3>1, <3>2 DEF x
  <2> QED BY <1>5, <2>1, <2>2 DEF LinkedAt
<1>7. FormedAt(g, x)
  <2>1. Len(Kids(g, x)) = Len(K) /\ (K = <<>> => Kids(g, x) = <<>>)
    <3>1. DOMAIN Kids(g, x) = 1 .. Len(K) /\ \A i \in 1 .. Len(K) : Kids(g, x)[i] = K[i] + dn
      BY <1>3, <1>5
    <3>2. [i \in DOMAIN K |-> K[i] + dn] \in Seq(Nat)
      BY <1>0, <1>3, NumbersShifted
    <3>3. Kids(g, x) \in Seq(Nat)
      BY <1>1, <3>2
    <3>4. Len(Kids(g, x)) = Len(K)
      BY <1>3, <3>1, <3>3
    <3> QED BY <1>3, <3>3, <3>4
  <2>2. Full(g, x)
    BY <1>1, <1>3, <2>1 DEF FormedAt, Full, K
  <2>3. Kind(g, x) \notin ContainerType \union WrapperType =>
          Kids(g, x) = <<>> /\ Ends(g, x) = Begins(g, x)
    BY <1>1, <1>3, <2>1 DEF FormedAt, K
  <2>4. Kind(g, x) \in ContainerType => Opening(g.tokens[Begins(g, x)])
    BY <1>1, <1>3, <1>4 DEF FormedAt
  <2>5. ASSUME NEW i \in DOMAIN Kids(g, x)
        PROVE  /\ Kind(g, x) = "object" => Kind(g, Kids(g, x)[i]) = "field"
               /\ Kind(g, x) = "array" => Kind(g, Kids(g, x)[i]) = "element"
               /\ Kind(g, x) \in WrapperType => Kind(g, Kids(g, x)[i]) \notin WrapperType
    <3>1. i \in DOMAIN K /\ Kids(g, x)[i] = K[i] + dn /\ K[i] \in DOMAIN f.nodes
      BY <1>3, <1>5, <2>5
    <3>2. Kind(g, Kids(g, x)[i]) = Kind(f, K[i])
      BY <1>2, <3>1
    <3> QED BY <1>1, <1>3, <3>1, <3>2 DEF FormedAt, K
  <2> QED BY <2>2, <2>3, <2>4, <2>5, Zenon DEF FormedAt
<1>8. Upright(g, x)
  <2>1. /\ Begins(f, j) <= Ends(f, j)
        /\ Kind(f, j) \in ContainerType => Begins(f, j) < Ends(f, j)
        /\ \A i \in DOMAIN K :
             /\ Begins(f, j) < Begins(f, K[i]) /\ Ends(f, K[i]) < Ends(f, j)
             /\ i > 1 => Ends(f, K[i - 1]) < Begins(f, K[i])
    BY <1>3, Zenon DEF Upright, K
  <2>2. \A m, n \in Nat : (m < n => m + h < n + h) /\ (m <= n => m + h <= n + h)
    BY <1>0
  <2>3. Begins(g, x) <= Ends(g, x) /\ (Kind(g, x) \in ContainerType => Begins(g, x) < Ends(g, x))
    BY <1>1, <1>3, <2>1, <2>2
  <2>4. ASSUME NEW i \in DOMAIN K
        PROVE  /\ Begins(g, x) < Begins(g, K[i] + dn) /\ Ends(g, K[i] + dn) < Ends(g, x)
               /\ i > 1 => Ends(g, K[i - 1] + dn) < Begins(g, K[i] + dn)
    <3>1. K[i] \in DOMAIN f.nodes
      BY <1>3
    <3>2. /\ Begins(g, K[i] + dn) = Begins(f, K[i]) + h /\ Ends(g, K[i] + dn) = Ends(f, K[i]) + h
          /\ Begins(f, K[i]) \in Nat /\ Ends(f, K[i]) \in Nat
      BY <1>2, <3>1
    <3>3. Begins(g, x) < Begins(g, K[i] + dn) /\ Ends(g, K[i] + dn) < Ends(g, x)
      BY <1>1, <1>3, <2>1, <2>2, <3>2
    <3>4. ASSUME i > 1 PROVE Ends(g, K[i - 1] + dn) < Begins(g, K[i] + dn)
      <4>1. i - 1 \in DOMAIN K
        BY <1>3, <3>4
      <4>2. Ends(g, K[i - 1] + dn) = Ends(f, K[i - 1]) + h /\ Ends(f, K[i - 1]) \in Nat
        BY <1>2, <1>3, <4>1
      <4> QED BY <2>1, <2>2, <3>2, <3>4, <4>2
    <3> QED BY <3>3, <3>4
  <2>5. \A i \in DOMAIN K : i > 1 => i - 1 \in DOMAIN K
    BY <1>3
  <2>6. \A i \in DOMAIN Kids(g, x) :
          LET c == Kids(g, x)[i]
          IN  /\ Begins(g, x) < Begins(g, c) /\ Ends(g, c) < Ends(g, x)
              /\ i > 1 => Ends(g, Kids(g, x)[i - 1]) < Begins(g, c)
    BY <1>5, <2>4, <2>5
  <2> QED BY <2>3, <2>6, Zenon DEF Upright
<1> QED BY <1>5, <1>6, <1>7, <1>8 DEF x, K

\* Tokens around a fragment that are no anchors.
Padded(f, g, h) ==
  /\ g.tokens \in Toks /\ g.nodes \in Seq(NodeRecord) /\ DOMAIN g.nodes = DOMAIN f.nodes
  /\ Carried(f, g, h, 0)
  /\ \A e \in DOMAIN g.tokens : g.tokens[e] = Anchor => e - h \in DOMAIN f.tokens

LEMMA PaddedKeeps ==
  ASSUME NEW f, Fragment(f), NEW g, NEW h, Padded(f, g, h)
  PROVE  Fragment(g) /\ \A k \in DOMAIN f.nodes : Kind(g, k) = Kind(f, k)
<1>0. /\ g.tokens \in Toks /\ g.nodes \in Seq(NodeRecord) /\ DOMAIN g.nodes = DOMAIN f.nodes
      /\ Carried(f, g, h, 0) /\ h \in Nat
  BY DEF Padded, Carried
<1>1. \A k \in DOMAIN f.nodes : k + 0 = k /\ k \in Nat
  BY FragmentIs
<1>2. ASSUME NEW k \in DOMAIN f.nodes
      PROVE  /\ LinkedAt(g, k) /\ FormedAt(g, k) /\ Upright(g, k)
             /\ DOMAIN Kids(g, k) = DOMAIN Kids(f, k)
             /\ \A i \in DOMAIN Kids(f, k) : Kids(g, k)[i] = Kids(f, k)[i]
             /\ Kind(g, k) = Kind(f, k)
             /\ Begins(g, k) = Begins(f, k) + h /\ Ends(g, k) = Ends(f, k) + h
             /\ Begins(f, k) \in Nat /\ Ends(f, k) \in Nat
             /\ Begins(f, k) \in DOMAIN f.tokens /\ Ends(f, k) \in DOMAIN f.tokens
  <2>1. /\ LinkedAt(g, k + 0) /\ FormedAt(g, k + 0) /\ Upright(g, k + 0)
        /\ DOMAIN Kids(g, k + 0) = DOMAIN Kids(f, k)
        /\ \A i \in DOMAIN Kids(f, k) : Kids(g, k + 0)[i] = Kids(f, k)[i] + 0
    BY <1>0, CarriedNode
  <2>2. /\ Kind(g, k + 0) = Kind(f, k)
        /\ Begins(g, k + 0) = Begins(f, k) + h /\ Ends(g, k + 0) = Ends(f, k) + h
    BY <1>0 DEF Carried
  <2>3. \A i \in DOMAIN Kids(f, k) : Kids(f, k)[i] + 0 = Kids(f, k)[i]
    BY <1>1, FragmentIs
  <2>4. k + 0 = k
    BY <1>1
  <2> QED BY <2>1, <2>2, <2>3, <2>4, FragmentIs
<1>3. Linked(g) /\ Formed(g)
  BY <1>0, <1>2 DEF Linked, Formed
<1>4. Nests(g)
  <2>1. \A k \in DOMAIN g.nodes : Upright(g, k)
    BY <1>0, <1>2
  <2> QED BY <2>1, Zenon DEF Nests, Upright
<1>5. OneParent(g) /\ Rooted(g)
  BY <1>0, <1>2 DEF Fragment, OneParent, Rooted
<1>6. Ended(g)
  <2> SUFFICES ASSUME NEW e \in DOMAIN g.tokens
               PROVE  g.tokens[e] = Anchor <=>
                        \E k \in DOMAIN f.nodes : Kind(f, k) \in WrapperType /\ e \in {Begins(g, k), Ends(g, k)}
    BY <1>0, <1>2 DEF Ended
  <2>1. e \in Nat
    BY <1>0, DocumentIs
  <2>2. \A t \in DOMAIN f.tokens : t + h \in DOMAIN g.tokens /\ g.tokens[t + h] = f.tokens[t]
    BY <1>0 DEF Carried
  <2>3. \A t \in DOMAIN f.tokens :
          f.tokens[t] = Anchor <=>
            \E k \in DOMAIN f.nodes : Kind(f, k) \in WrapperType /\ t \in {Begins(f, k), Ends(f, k)}
    BY DEF Fragment, Ended
  <2>4. ASSUME g.tokens[e] = Anchor
        PROVE  \E k \in DOMAIN f.nodes : Kind(f, k) \in WrapperType /\ e \in {Begins(g, k), Ends(g, k)}
    <3>1. e - h \in DOMAIN f.tokens /\ (e - h) + h = e
      BY <1>0, <2>1, <2>4 DEF Padded
    <3>2. f.tokens[e - h] = Anchor
      BY <2>2, <2>4, <3>1
    <3>3. PICK k \in DOMAIN f.nodes : Kind(f, k) \in WrapperType /\ e - h \in {Begins(f, k), Ends(f, k)}
      BY <2>3, <3>1, <3>2
    <3>4. e = Begins(f, k) + h \/ e = Ends(f, k) + h
      BY <3>1, <3>3
    <3> QED BY <1>2, <3>3, <3>4
  <2>5. ASSUME NEW k \in DOMAIN f.nodes, Kind(f, k) \in WrapperType, e \in {Begins(g, k), Ends(g, k)}
        PROVE  g.tokens[e] = Anchor
    <3>1. /\ Begins(f, k) \in DOMAIN f.tokens /\ Ends(f, k) \in DOMAIN f.tokens
          /\ Begins(g, k) = Begins(f, k) + h /\ Ends(g, k) = Ends(f, k) + h
      BY <1>2
    <3>2. f.tokens[Begins(f, k)] = Anchor /\ f.tokens[Ends(f, k)] = Anchor
      BY <2>3, <2>5, <3>1
    <3> QED BY <2>2, <2>5, <3>1, <3>2
  <2> QED BY <2>4, <2>5
<1> QED BY <1>0, <1>2, <1>3, <1>4, <1>5, <1>6 DEF Fragment
\* A field or element around a value: the node at the head has dn children, the
\* value the last of them, and begins and ends with anchors.
Wraps(f, g, type, h, dn) ==
  /\ g.tokens \in Toks /\ g.nodes \in Seq(NodeRecord)
  /\ h \in Nat /\ dn \in {1, 2} /\ dn <= h
  /\ type = IF dn = 1 THEN "element" ELSE "field"
  /\ Len(g.tokens) = h + Len(f.tokens) + 1 /\ Len(g.nodes) = dn + Len(f.nodes)
  /\ Carried(f, g, h, dn)
  /\ Kind(g, 1) = type /\ Begins(g, 1) = 1 /\ Ends(g, 1) = Len(g.tokens)
  /\ Len(Kids(g, 1)) = dn /\ \A i \in 1 .. dn : Kids(g, 1)[i] = i + 1
  /\ dn = 2 => Kind(g, 2) = "string" /\ Begins(g, 2) = 2 /\ Ends(g, 2) = 2 /\ Kids(g, 2) = <<>>
  /\ g.tokens[1] = Anchor /\ g.tokens[Len(g.tokens)] = Anchor
  /\ \A e \in 2 .. h : g.tokens[e] # Anchor

LEMMA WrapsKeeps ==
  ASSUME NEW f, Fragment(f), f.nodes # <<>>, Kind(f, 1) \notin WrapperType,
         NEW g, NEW type, NEW h, NEW dn, Wraps(f, g, type, h, dn)
  PROVE  Fragment(g)
<1> DEFINE M == Len(f.nodes)
           k == Len(f.tokens)
           E == h + k + 1
<1>1. /\ M \in Nat /\ DOMAIN f.nodes = 1 .. M /\ k \in Nat /\ DOMAIN f.tokens = 1 .. k /\ M >= 1
  <2>1. f.nodes \in Seq(NodeRecord) /\ M \in Nat /\ DOMAIN f.nodes = 1 .. M /\ k \in Nat /\ DOMAIN f.tokens = 1 .. k
    BY DocumentIs DEF Fragment
  <2>2. M >= 1
    <3> HIDE DEF NodeRecord
    <3> QED BY <2>1
  <2> QED BY <2>1, <2>2
<1>2. /\ g.tokens \in Toks /\ g.nodes \in Seq(NodeRecord)
      /\ h \in Nat /\ dn \in Nat /\ (dn = 1 \/ dn = 2) /\ dn <= h
      /\ Len(g.tokens) = E /\ Len(g.nodes) = dn + M /\ Carried(f, g, h, dn)
  BY DEF Wraps
<1>3. DOMAIN g.tokens = 1 .. E /\ DOMAIN g.nodes = 1 .. dn + M
  BY <1>2, DocumentIs
<1>4. /\ Begins(g, 1) = 1 /\ Ends(g, 1) = E
      /\ Kind(g, 1) \in WrapperType /\ Full(g, 1)
      /\ DOMAIN Kids(g, 1) = 1 .. dn /\ \A i \in 1 .. dn : Kids(g, 1)[i] = i + 1
  <2>1. 1 \in DOMAIN g.nodes
    BY <1>1, <1>2, <1>3
  <2>2. DOMAIN Kids(g, 1) = 1 .. Len(Kids(g, 1))
    BY <1>2, <2>1, DocumentIs
  <2>3. \/ Kind(g, 1) = "element" /\ dn = 1
        \/ Kind(g, 1) = "field" /\ dn = 2
    <3>1. type = (IF dn = 1 THEN "element" ELSE "field") /\ Kind(g, 1) = type
      BY DEF Wraps
    <3>2. dn = 1 => type = "element"
      BY <3>1
    <3>3. dn = 2 => type = "field"
      BY <3>1
    <3> QED BY <1>2, <3>1, <3>2, <3>3
  <2>4. Len(Kids(g, 1)) = dn
    BY DEF Wraps
  <2>5. Kind(g, 1) \in WrapperType /\ Full(g, 1)
    BY <2>3, <2>4 DEF WrapperType, Full
  <2> QED BY <1>2, <2>2, <2>4, <2>5 DEF Wraps
<1>5. dn = 2 => Kind(g, 2) = "string" /\ Begins(g, 2) = 2 /\ Ends(g, 2) = 2 /\ Kids(g, 2) = <<>>
  BY DEF Wraps
<1>6. /\ g.tokens[1] = Anchor /\ g.tokens[E] = Anchor
      /\ \A e \in 2 .. h : g.tokens[e] # Anchor
      /\ \A e \in 1 .. k : g.tokens[e + h] = f.tokens[e]
  <2>1. \A e \in 1 .. k : g.tokens[e + h] = f.tokens[e]
    BY <1>1 DEF Wraps, Carried
  <2> QED BY <1>2, <2>1 DEF Wraps
<1>7. \A j \in 1 .. M :
        /\ LinkedAt(g, j + dn) /\ FormedAt(g, j + dn) /\ Upright(g, j + dn)
        /\ DOMAIN Kids(g, j + dn) = DOMAIN Kids(f, j)
        /\ \A i \in DOMAIN Kids(f, j) : Kids(g, j + dn)[i] = Kids(f, j)[i] + dn
  BY <1>1, <1>2, CarriedNode
<1>8. \A j \in 1 .. M :
        /\ Kind(g, j + dn) = Kind(f, j)
        /\ Begins(g, j + dn) = Begins(f, j) + h /\ Ends(g, j + dn) = Ends(f, j) + h
        /\ Begins(f, j) \in 1 .. k /\ Ends(f, j) \in 1 .. k
        /\ \A i \in DOMAIN Kids(f, j) : Kids(f, j)[i] \in 2 .. M
  <2> SUFFICES ASSUME NEW j \in 1 .. M
               PROVE  /\ Kind(g, j + dn) = Kind(f, j)
                      /\ Begins(g, j + dn) = Begins(f, j) + h /\ Ends(g, j + dn) = Ends(f, j) + h
                      /\ Begins(f, j) \in 1 .. k /\ Ends(f, j) \in 1 .. k
                      /\ \A i \in DOMAIN Kids(f, j) : Kids(f, j)[i] \in 2 .. M
    OBVIOUS
  <2>1. \A i \in DOMAIN Kids(f, j) : Kids(f, j)[i] \in 1 .. M /\ j < Kids(f, j)[i]
    BY <1>1, FragmentIs
  <2>2. \A x \in 1 .. M : j < x => x \in 2 .. M
    BY <1>1
  <2> QED BY <1>1, <1>2, <2>1, <2>2, FragmentIs DEF Carried
<1> HIDE DEF M, k, E
<1>9. ASSUME NEW x \in 1 .. dn + M
      PROVE  x = 1 \/ (x = 2 /\ dn = 2) \/ \E j \in 1 .. M : x = j + dn
  <2>1. x <= dn => x = 1 \/ (x = 2 /\ dn = 2)
    BY <1>2
  <2>2. ~(x <= dn) => x - dn \in 1 .. M /\ x = (x - dn) + dn
    BY <1>1, <1>2
  <2> QED BY <2>1, <2>2
<1>10. E = h + k + 1
  BY DEF E
\* The head.
<1>11. LinkedAt(g, 1)
  <2>1. 1 \in 1 .. E /\ E \in 1 .. E /\ \A i \in 1 .. dn : i + 1 \in 1 .. dn + M /\ 1 < i + 1
    BY <1>1, <1>2, <1>10
  <2> QED BY <1>3, <1>4, <2>1 DEF LinkedAt
<1>12. \A i \in 1 .. dn : (i + 1 = 2 /\ dn = 2) \/ (i + 1 = 1 + dn /\ i = dn)
  BY <1>2
<1>13. FormedAt(g, 1)
  <2>1. ASSUME NEW i \in 1 .. dn PROVE Kind(g, i + 1) \notin WrapperType
    <3>1. CASE i + 1 = 2 /\ dn = 2
      BY <1>5, <3>1 DEF WrapperType
    <3>2. CASE i + 1 = 1 + dn
      <4>1. 1 \in 1 .. M
        BY <1>1
      <4> QED BY <1>8, <3>2, <4>1
    <3> QED BY <1>12, <3>1, <3>2
  <2>2. Kind(g, 1) \notin ContainerType /\ Kind(g, 1) # "object" /\ Kind(g, 1) # "array"
    BY <1>4 DEF ContainerType, WrapperType
  <2> QED BY <1>4, <2>1, <2>2 DEF FormedAt
<1>14. Upright(g, 1)
  <2>1. 1 \in 1 .. M /\ Begins(f, 1) \in 1 .. k /\ Ends(f, 1) \in 1 .. k
    BY <1>1, <1>8
  <2>2. Begins(g, 1 + dn) = Begins(f, 1) + h /\ Ends(g, 1 + dn) = Ends(f, 1) + h
    BY <1>8, <2>1
  <2>3. 1 < Begins(g, 1 + dn) /\ Ends(g, 1 + dn) < E /\ (dn = 2 => 2 < Begins(g, 1 + dn) /\ 2 < E)
    <3>1. h \in Nat /\ k \in Nat /\ dn \in Nat /\ dn <= h /\ (dn = 1 \/ dn = 2)
      BY <1>1, <1>2
    <3>2. ASSUME NEW u \in 1 .. k, NEW v \in 1 .. k
          PROVE  1 < u + h /\ v + h < h + k + 1 /\ (dn = 2 => 2 < u + h /\ 2 < h + k + 1)
      BY ONLY <3>1, u \in 1 .. k, v \in 1 .. k
    <3> QED BY <1>10, <2>1, <2>2, <3>2
  <2>4. ASSUME NEW i \in 1 .. dn
        PROVE  /\ 1 < Begins(g, i + 1) /\ Ends(g, i + 1) < E
               /\ i > 1 => Ends(g, Kids(g, 1)[i - 1]) < Begins(g, i + 1)
    <3>1. i + 1 = 2 /\ dn = 2 => Begins(g, i + 1) = 2 /\ Ends(g, i + 1) = 2
      BY <1>5
    <3>2. 1 < Begins(g, i + 1) /\ Ends(g, i + 1) < E
      BY <1>12, <2>3, <3>1
    <3>3. ASSUME i > 1 PROVE Ends(g, Kids(g, 1)[i - 1]) < Begins(g, i + 1)
      <4>1. i = 2 /\ dn = 2 /\ i - 1 = 1 /\ 1 \in 1 .. dn /\ i + 1 = 1 + dn /\ 1 + 1 = 2
        BY <1>2, <3>3
      <4>2. Kids(g, 1)[i - 1] = 2
        BY <1>4, <4>1
      <4> QED BY <1>5, <2>3, <4>1, <4>2
    <3> QED BY <3>2, <3>3
  <2>5. 1 <= E /\ Kind(g, 1) \notin ContainerType
    BY <1>1, <1>2, <1>4, <1>10 DEF ContainerType, WrapperType
  <2>6. \A i \in DOMAIN Kids(g, 1) :
          LET c == Kids(g, 1)[i]
          IN  /\ Begins(g, 1) < Begins(g, c) /\ Ends(g, c) < Ends(g, 1)
              /\ i > 1 => Ends(g, Kids(g, 1)[i - 1]) < Begins(g, c)
    BY <1>4, <2>4
  <2>7. Begins(g, 1) <= Ends(g, 1) /\ (Kind(g, 1) \in ContainerType => Begins(g, 1) < Ends(g, 1))
    BY <1>4, <2>5
  <2> QED BY <2>6, <2>7, Zenon DEF Upright
\* The key.
<1>15. dn = 2 => LinkedAt(g, 2) /\ FormedAt(g, 2) /\ Upright(g, 2) /\ DOMAIN Kids(g, 2) = {}
  <2> SUFFICES ASSUME dn = 2 PROVE LinkedAt(g, 2) /\ FormedAt(g, 2) /\ Upright(g, 2) /\ DOMAIN Kids(g, 2) = {}
    OBVIOUS
  <2>1. Kind(g, 2) = "string" /\ Begins(g, 2) = 2 /\ Ends(g, 2) = 2 /\ Kids(g, 2) = <<>>
    BY <1>5
  <2>2. DOMAIN Kids(g, 2) = {} /\ 2 \in 1 .. E
    BY <1>1, <1>2, <1>10, <2>1
  <2>3. LinkedAt(g, 2)
    BY <1>3, <2>1, <2>2 DEF LinkedAt
  <2>4. FormedAt(g, 2)
    BY <2>1, <2>2 DEF FormedAt, Full, ContainerType, WrapperType
  <2>5. Upright(g, 2)
    <3>1. Kind(g, 2) \notin ContainerType
      BY <2>1 DEF ContainerType
    <3> QED BY <2>1, <2>2, <3>1 DEF Upright
  <2> QED BY <2>2, <2>3, <2>4, <2>5
<1>16. \A x \in DOMAIN g.nodes : LinkedAt(g, x) /\ FormedAt(g, x) /\ Upright(g, x)
  BY <1>3, <1>7, <1>9, <1>11, <1>13, <1>14, <1>15
<1>17. Linked(g) /\ Formed(g)
  BY <1>16 DEF Linked, Formed
<1>18. Nests(g)
  <2>1. \A x \in DOMAIN g.nodes : Upright(g, x)
    BY <1>16
  <2> QED BY <2>1, Zenon DEF Nests, Upright
<1>19. OneParent(g)
  <2> SUFFICES ASSUME NEW m \in 1 .. dn + M, NEW n \in 1 .. dn + M,
                      NEW i \in DOMAIN Kids(g, m), NEW j \in DOMAIN Kids(g, n), Kids(g, m)[i] = Kids(g, n)[j]
               PROVE  m = n /\ i = j
    BY <1>3 DEF OneParent
  <2>1. \A e, l \in 1 .. M : \A u \in DOMAIN Kids(f, e), v \in DOMAIN Kids(f, l) :
          Kids(f, e)[u] = Kids(f, l)[v] => e = l /\ u = v
    BY <1>1 DEF Fragment, OneParent
  <2>2. m = 1 \/ \E e \in 1 .. M : m = e + dn
    BY <1>9, <1>15
  <2>3. n = 1 \/ \E l \in 1 .. M : n = l + dn
    BY <1>9, <1>15
  <2>4. \A u \in 1 .. dn : Kids(g, 1)[u] = u + 1 /\ u \in Nat /\ u <= dn
    BY <1>2, <1>4
  <2>5. \A e \in 1 .. M : \A u \in DOMAIN Kids(f, e) :
          Kids(g, e + dn)[u] = Kids(f, e)[u] + dn /\ Kids(f, e)[u] \in 2 .. M
    BY <1>7, <1>8
  <2>6. CASE m = 1 /\ n = 1
    BY <1>2, <1>4, <2>4, <2>6
  <2>7. ASSUME m = 1, NEW l \in 1 .. M, n = l + dn PROVE FALSE
    <3>1. i \in 1 .. dn /\ j \in DOMAIN Kids(f, l)
      BY <1>4, <1>7, <2>7
    <3> QED BY <1>1, <1>2, <2>4, <2>5, <2>7, <3>1
  <2>8. ASSUME n = 1, NEW e \in 1 .. M, m = e + dn PROVE FALSE
    <3>1. j \in 1 .. dn /\ i \in DOMAIN Kids(f, e)
      BY <1>4, <1>7, <2>8
    <3> QED BY <1>1, <1>2, <2>4, <2>5, <2>8, <3>1
  <2>9. ASSUME NEW e \in 1 .. M, m = e + dn, NEW l \in 1 .. M, n = l + dn PROVE m = n /\ i = j
    <3>1. i \in DOMAIN Kids(f, e) /\ j \in DOMAIN Kids(f, l)
      BY <1>7, <2>9
    <3>2. Kids(f, e)[i] + dn = Kids(f, l)[j] + dn /\ Kids(f, e)[i] \in 2 .. M /\ Kids(f, l)[j] \in 2 .. M
      BY <2>5, <2>9, <3>1
    <3>3. Kids(f, e)[i] = Kids(f, l)[j]
      <4>1. \A u, v \in 2 .. M : u + dn = v + dn => u = v
        BY <1>1, <1>2
      <4> QED BY <3>2, <4>1
    <3> QED BY <2>1, <2>9, <3>1, <3>3
  <2> QED BY <2>2, <2>3, <2>6, <2>7, <2>8, <2>9
<1>20. Rooted(g)
  <2> SUFFICES ASSUME NEW x \in 1 .. dn + M, x # 1
               PROVE  \E m \in 1 .. dn + M : \E i \in DOMAIN Kids(g, m) : Kids(g, m)[i] = x
    BY <1>3 DEF Rooted
  <2>1. 1 \in 1 .. dn + M /\ 1 \in 1 .. dn /\ dn \in 1 .. dn
    BY <1>1, <1>2
  <2>2. CASE x = 2 /\ dn = 2
    <3>1. Kids(g, 1)[1] = x
      BY <1>4, <2>1, <2>2
    <3> QED BY <1>4, <2>1, <3>1
  <2>3. ASSUME NEW j \in 1 .. M, x = j + dn
        PROVE  \E m \in 1 .. dn + M : \E i \in DOMAIN Kids(g, m) : Kids(g, m)[i] = x
    <3>1. CASE j = 1
      <4>1. Kids(g, 1)[dn] = x
        BY <1>2, <1>4, <2>1, <2>3, <3>1
      <4> QED BY <1>4, <2>1, <4>1
    <3>2. CASE j # 1
      <4>1. PICK m \in 1 .. M : \E i \in DOMAIN Kids(f, m) : Kids(f, m)[i] = j
        BY <1>1, <3>2 DEF Fragment, Rooted
      <4>2. PICK i \in DOMAIN Kids(f, m) : Kids(f, m)[i] = j
        BY <4>1
      <4>3. m + dn \in 1 .. dn + M
        BY <1>1, <1>2
      <4>4. i \in DOMAIN Kids(g, m + dn) /\ Kids(g, m + dn)[i] = x
        BY <1>7, <2>3, <4>2
      <4> QED BY <4>3, <4>4
    <3> QED BY <3>1, <3>2
  <2> QED BY <1>9, <2>2, <2>3
<1>21. Ended(g)
  <2> SUFFICES ASSUME NEW e \in 1 .. E
               PROVE  g.tokens[e] = Anchor <=>
                        \E x \in 1 .. dn + M : Kind(g, x) \in WrapperType /\ e \in {Begins(g, x), Ends(g, x)}
    BY <1>3 DEF Ended
  <2>1. \A t \in 1 .. k :
          f.tokens[t] = Anchor <=>
            \E j \in 1 .. M : Kind(f, j) \in WrapperType /\ t \in {Begins(f, j), Ends(f, j)}
    BY <1>1 DEF Fragment, Ended
  <2>2. e = 1 \/ e = E \/ e \in 2 .. h \/ (e - h \in 1 .. k /\ e = (e - h) + h)
    <3>1. h \in Nat /\ k \in Nat /\ e \in 1 .. h + k + 1 /\ E = h + k + 1
      BY <1>1, <1>2, <1>10
    <3> QED BY ONLY <3>1
  <2>3. 1 \in 1 .. dn + M
    BY <1>1, <1>2
  <2>4. ASSUME g.tokens[e] = Anchor
        PROVE  \E x \in 1 .. dn + M : Kind(g, x) \in WrapperType /\ e \in {Begins(g, x), Ends(g, x)}
    <3>1. CASE e = 1 \/ e = E
      BY <1>4, <2>3, <3>1
    <3>2. CASE e - h \in 1 .. k /\ e = (e - h) + h
      <4>1. f.tokens[e - h] = Anchor
        BY <1>6, <2>4, <3>2
      <4>2. PICK j \in 1 .. M : Kind(f, j) \in WrapperType /\ e - h \in {Begins(f, j), Ends(f, j)}
        BY <2>1, <3>2, <4>1
      <4>3. j + dn \in 1 .. dn + M
        BY <1>1, <1>2
      <4>4. e = Begins(f, j) + h \/ e = Ends(f, j) + h
        BY <3>2, <4>2
      <4> QED BY <1>8, <4>2, <4>3, <4>4
    <3> QED BY <1>6, <2>2, <2>4, <3>1, <3>2
  <2>5. ASSUME NEW x \in 1 .. dn + M, Kind(g, x) \in WrapperType, e \in {Begins(g, x), Ends(g, x)}
        PROVE  g.tokens[e] = Anchor
    <3>1. CASE x = 1
      BY <1>4, <1>6, <2>5, <3>1
    <3>2. ~(x = 2 /\ dn = 2)
      BY <1>5, <2>5 DEF WrapperType
    <3>3. ASSUME NEW j \in 1 .. M, x = j + dn PROVE g.tokens[e] = Anchor
      <4>1. /\ Kind(f, j) \in WrapperType /\ e \in {Begins(f, j) + h, Ends(f, j) + h}
            /\ Begins(f, j) \in 1 .. k /\ Ends(f, j) \in 1 .. k
        BY <1>8, <2>5, <3>3
      <4>2. f.tokens[Begins(f, j)] = Anchor /\ f.tokens[Ends(f, j)] = Anchor
        BY <2>1, <4>1
      <4> QED BY <1>6, <4>1, <4>2
    <3> QED BY <1>9, <3>1, <3>2, <3>3
  <2> QED BY <2>4, <2>5
<1> QED BY <1>2, <1>17, <1>18, <1>19, <1>20, <1>21 DEF Fragment

-----------------------------------------------------------------------------
(***************************************************************************)
(* Outlines with blanks and separators between them.                       *)
(***************************************************************************)
\* An outline cut out of another at ends of nodes.
LEMMA StandsParted ==
  ASSUME NEW o, NEW r, NEW lo, NEW hi, NEW s, Stands(o, r, lo, hi, s), 1 = lo + s, r.n = hi + s,
         Edged(o), Parted(o),
         lo > 1 => lo \in o.opens \union o.closes, hi < o.n => hi \in o.opens \union o.closes
  PROVE  Edged(r) /\ Parted(r)
<1>1. /\ o.n \in Nat /\ r.n \in Nat /\ s \in Int /\ lo \in Nat /\ hi \in Nat /\ lo >= 1 /\ hi <= o.n
      /\ \A i \in lo .. hi : SameAt(o, i, r, i + s)
  BY DEF Stands, IsOutline
<1>2. ASSUME NEW x \in 1 .. r.n
      PROVE  x - s \in lo .. hi /\ x - s \in 1 .. o.n /\ (x - s) + s = x /\ SameAt(o, x - s, r, x)
  <2>1. x - s \in lo .. hi /\ x - s \in 1 .. o.n /\ (x - s) + s = x
    BY <1>1
  <2> QED BY <1>1, <2>1
<1>3. Edged(r)
  BY <1>2 DEF Edged, SameAt
<1>4. ASSUME NEW x \in 1 .. r.n, r.type[x] \in Separator
      PROVE  Led(r, x) /\ Followed(r, x)
  <2> DEFINE i == x - s
  <2>1. i \in lo .. hi /\ i \in 1 .. o.n /\ i + s = x /\ SameAt(o, i, r, x)
    BY <1>2
  <2> HIDE DEF i
  <2>2. o.type[i] \in Separator
    BY <1>4, <2>1 DEF SameAt
  <2>3. Led(o, i) /\ Followed(o, i)
    BY <2>1, <2>2 DEF Parted
  <2>4. \A m \in {lo, hi} : m \in o.opens \union o.closes /\ m \in 1 .. o.n => m # i /\ o.type[m] \notin Blank
    BY <2>2 DEF Edged
  <2>5. Led(r, x)
    <3>1. Led(r, i + s) \/ (lo > 1 /\ Blanks(o, lo - 1, i))
      BY <2>1, <2>3, StandsLed
    <3>2. ASSUME lo > 1, Blanks(o, lo - 1, i) PROVE FALSE
      <4>1. lo \in 1 .. o.n /\ lo - 1 < lo
        BY <1>1, <2>1
      <4>2. lo # i /\ o.type[lo] \notin Blank
        BY <2>4, <3>2, <4>1
      <4>3. lo < i
        BY <1>1, <2>1, <4>2
      <4> QED BY <3>2, <4>1, <4>2, <4>3 DEF Blanks
    <3> QED BY <2>1, <3>1, <3>2
  <2>6. Followed(r, x)
    <3>1. Followed(r, i + s) \/ (hi < o.n /\ Blanks(o, i, hi + 1))
      BY <2>1, <2>3, StandsFollowed
    <3>2. ASSUME hi < o.n, Blanks(o, i, hi + 1) PROVE FALSE
      <4>1. hi \in 1 .. o.n /\ hi < hi + 1
        BY <1>1, <2>1
      <4>2. hi # i /\ o.type[hi] \notin Blank
        BY <2>4, <3>2, <4>1
      <4>3. i < hi
        BY <1>1, <2>1, <4>2
      <4> QED BY <3>2, <4>1, <4>2, <4>3 DEF Blanks
    <3> QED BY <2>1, <3>1, <3>2
  <2> QED BY <2>5, <2>6
<1> QED BY <1>3, <1>4 DEF Parted

\* Blanks up to a seam and behind it.
LEMMA PatchedBlanks ==
  ASSUME NEW r, NEW o, NEW f, NEW a, NEW b, Patched(r, o, f, a, b)
  PROVE  /\ \A i \in 0 .. a, j \in 1 .. f.n + 1 :
              Blanks(o, i, a + 1) /\ Blanks(f, 0, j) => Blanks(r, i, j + a)
         /\ \A i \in 0 .. f.n, j \in b .. o.n + 1 :
              Blanks(f, i, f.n + 1) /\ Blanks(o, b - 1, j) => Blanks(r, i + a, j + Drift(a, b, f.n))
         /\ f.n = 0 => \A i \in 0 .. a, j \in b .. o.n + 1 :
              Blanks(o, i, a + 1) /\ Blanks(o, b - 1, j) => Blanks(r, i, j + Drift(a, b, f.n))
<1> DEFINE s == Drift(a, b, f.n)
<1>1. /\ Stands(o, r, 1, a, 0) /\ Stands(f, r, 1, f.n, a) /\ Stands(o, r, b, o.n, s)
      /\ \A x \in 1 .. r.n : x \in 1 .. a \/ (\E i \in 1 .. f.n : x = i + a) \/ \E i \in b .. o.n : x = i + s
  BY PatchedIs
<1>2. /\ o.n \in Nat /\ f.n \in Nat /\ a \in Nat /\ b \in Nat /\ s \in Int /\ s = f.n - (b - a - 1)
      /\ a < b /\ a <= o.n /\ b <= o.n + 1
  BY DEF Patched, IsOutline, Drift
<1> HIDE DEF s
<1>3. ASSUME NEW x \in 1 .. a PROVE r.type[x] = o.type[x] /\ x \in 1 .. o.n
  <2>1. x + 0 = x
    BY <1>2
  <2> QED BY <1>1, <2>1, StandsPlace DEF SameAt
<1>4. ASSUME NEW x \in 1 .. f.n PROVE r.type[x + a] = f.type[x]
  BY <1>1, StandsPlace DEF SameAt
<1>5. ASSUME NEW x \in b .. o.n PROVE r.type[x + s] = o.type[x] /\ x \in 1 .. o.n
  BY <1>1, StandsPlace DEF SameAt
<1>6. ASSUME NEW i \in 0 .. a, NEW j \in 1 .. f.n + 1, Blanks(o, i, a + 1), Blanks(f, 0, j),
             NEW x \in 1 .. r.n, i < x, x < j + a
      PROVE  r.type[x] \in Blank
  <2>1. CASE x \in 1 .. a
    <3>1. x < a + 1
      BY <1>2, <2>1
    <3> QED BY <1>3, <1>6, <2>1, <3>1 DEF Blanks
  <2>2. ASSUME NEW y \in 1 .. f.n, x = y + a PROVE r.type[x] \in Blank
    <3>1. 0 < y /\ y < j
      BY <1>2, <1>6, <2>2
    <3> QED BY <1>4, <1>6, <2>2, <3>1 DEF Blanks
  <2>3. ASSUME NEW y \in b .. o.n, x = y + s PROVE FALSE
    BY <1>2, <1>6, <2>3
  <2> QED BY <1>1, <2>1, <2>2, <2>3
<1>7. ASSUME NEW i \in 0 .. f.n, NEW j \in b .. o.n + 1, Blanks(f, i, f.n + 1), Blanks(o, b - 1, j),
             NEW x \in 1 .. r.n, i + a < x, x < j + s
      PROVE  r.type[x] \in Blank
  <2>1. CASE x \in 1 .. a
    BY <1>2, <1>7, <2>1
  <2>2. ASSUME NEW y \in 1 .. f.n, x = y + a PROVE r.type[x] \in Blank
    <3>1. i < y /\ y < f.n + 1
      BY <1>2, <1>7, <2>2
    <3> QED BY <1>4, <1>7, <2>2, <3>1 DEF Blanks
  <2>3. ASSUME NEW y \in b .. o.n, x = y + s PROVE r.type[x] \in Blank
    <3>1. b - 1 < y /\ y < j
      BY <1>2, <1>7, <2>3
    <3> QED BY <1>5, <1>7, <2>3, <3>1 DEF Blanks
  <2> QED BY <1>1, <2>1, <2>2, <2>3
<1>8. ASSUME f.n = 0, NEW i \in 0 .. a, NEW j \in b .. o.n + 1, Blanks(o, i, a + 1), Blanks(o, b - 1, j),
             NEW x \in 1 .. r.n, i < x, x < j + s
      PROVE  r.type[x] \in Blank
  <2>1. CASE x \in 1 .. a
    <3>1. x < a + 1
      BY <1>2, <2>1
    <3> QED BY <1>3, <1>8, <2>1, <3>1 DEF Blanks
  <2>2. ASSUME NEW y \in 1 .. f.n, x = y + a PROVE FALSE
    BY <1>2, <1>8, <2>2
  <2>3. ASSUME NEW y \in b .. o.n, x = y + s PROVE r.type[x] \in Blank
    <3>1. b - 1 < y /\ y < j
      BY <1>2, <1>8, <2>3
    <3> QED BY <1>5, <1>8, <2>3, <3>1 DEF Blanks
  <2> QED BY <1>1, <2>1, <2>2, <2>3
<1>9. \A i \in 0 .. a, j \in 1 .. f.n + 1 :
        Blanks(o, i, a + 1) /\ Blanks(f, 0, j) => Blanks(r, i, j + a)
  <2> SUFFICES ASSUME NEW i \in 0 .. a, NEW j \in 1 .. f.n + 1, Blanks(o, i, a + 1), Blanks(f, 0, j)
               PROVE  Blanks(r, i, j + a)
    OBVIOUS
  <2> QED BY <1>6 DEF Blanks
<1>10. \A i \in 0 .. f.n, j \in b .. o.n + 1 :
         Blanks(f, i, f.n + 1) /\ Blanks(o, b - 1, j) => Blanks(r, i + a, j + s)
  <2> SUFFICES ASSUME NEW i \in 0 .. f.n, NEW j \in b .. o.n + 1, Blanks(f, i, f.n + 1), Blanks(o, b - 1, j)
               PROVE  Blanks(r, i + a, j + s)
    OBVIOUS
  <2> QED BY <1>7 DEF Blanks
<1>11. ASSUME f.n = 0
       PROVE  \A i \in 0 .. a, j \in b .. o.n + 1 :
                Blanks(o, i, a + 1) /\ Blanks(o, b - 1, j) => Blanks(r, i, j + s)
  <2> SUFFICES ASSUME NEW i \in 0 .. a, NEW j \in b .. o.n + 1, Blanks(o, i, a + 1), Blanks(o, b - 1, j)
               PROVE  Blanks(r, i, j + s)
    OBVIOUS
  <2> QED BY <1>8, <1>11 DEF Blanks
<1> QED BY <1>9, <1>10, <1>11 DEF s

-----------------------------------------------------------------------------
(***************************************************************************)
(* The outline of a document, from its nodes in use.                       *)
(***************************************************************************)
Starts(d, x) == \E k \in DOMAIN d.nodes : Live(d, k) /\ From(d, k) = x
Stops(d, x) == \E k \in DOMAIN d.nodes : Live(d, k) /\ To(d, k) = x
StopsContainer(d, x) ==
  \E k \in DOMAIN d.nodes : Kind(d, k) \in ContainerType /\ Live(d, k) /\ To(d, k) = x

LEMMA TreeOutline ==
  ASSUME NEW d, WellFormed(d)
  PROVE  LET o == OutlineOf(d)
         IN  /\ IsOutline(o) /\ o.n = Len(d.list) /\ o.n \in Nat /\ DOMAIN d.list = 1 .. o.n
             /\ \A x \in 1 .. o.n : o.type[x] = d.tokens[d.list[x]].type
             /\ \A x : x \in o.opens <=> Starts(d, x)
             /\ \A x : x \in o.closes <=> Stops(d, x)
             /\ \A x : x \in o.shuts <=> StopsContainer(d, x)
<1> DEFINE o == OutlineOf(d)
<1>1. Listed(d) /\ d.list \in Seq(Nat)
  BY DEF WellFormed, Listed
<1>2. /\ IsOutline(o) /\ o.n = Len(d.list) /\ Len(d.list) \in Nat /\ DOMAIN d.list = 1 .. Len(d.list)
      /\ \A i \in 1 .. Len(d.list) :
           /\ o.type[i] = d.tokens[d.list[i]].type
           /\ i \in o.opens <=> OpensAt(d, d.list[i])
           /\ i \in o.closes <=> ClosesAt(d, d.list[i])
           /\ i \in o.shuts <=> ClosesContainer(d, d.list[i])
  BY <1>1, OutlineOfIs
<1>3. o.opens \subseteq 1 .. o.n /\ o.closes \subseteq 1 .. o.n /\ o.shuts \subseteq o.closes
  BY <1>2 DEF IsOutline
<1> HIDE DEF o
<1>4. ASSUME NEW k \in DOMAIN d.nodes, Live(d, k)
      PROVE  /\ From(d, k) \in 1 .. o.n /\ d.list[From(d, k)] = Begins(d, k)
             /\ To(d, k) \in 1 .. o.n /\ d.list[To(d, k)] = Ends(d, k)
  <2>1. Held(d, Begins(d, k)) /\ Held(d, Ends(d, k))
    BY <1>4, LiveNode
  <2> QED BY <1>1, <1>2, <2>1, PosIs DEF From, To
<1>5. ASSUME NEW x \in 1 .. o.n, NEW k \in DOMAIN d.nodes, Begins(d, k) = d.list[x]
      PROVE  Live(d, k) /\ From(d, k) = x
  BY <1>1, <1>2, <1>5, PosOf DEF Live, From
<1>6. ASSUME NEW x \in 1 .. o.n, NEW k \in DOMAIN d.nodes, Ends(d, k) = d.list[x]
      PROVE  Live(d, k) /\ To(d, k) = x
  <2>1. Held(d, Ends(d, k)) /\ To(d, k) = x
    BY <1>1, <1>2, <1>6, PosOf DEF To
  <2> QED BY <2>1 DEF WellFormed, Fallen, FallenAt
<1>7. \A x : x \in o.opens <=> Starts(d, x)
  BY <1>2, <1>3, <1>4, <1>5 DEF OpensAt, Starts
<1>8. \A x : x \in o.closes <=> Stops(d, x)
  BY <1>2, <1>3, <1>4, <1>6 DEF ClosesAt, Stops
<1>9. \A x : x \in o.shuts <=> StopsContainer(d, x)
  <2>1. o.shuts \subseteq 1 .. o.n
    BY <1>3
  <2> QED BY <1>2, <1>4, <1>6, <2>1 DEF ClosesContainer, StopsContainer
<1> QED BY <1>2, <1>7, <1>8, <1>9 DEF o

\* Where nodes begin and end there is something to be seen.
LEMMA EndsSeen ==
  ASSUME NEW d, WellFormed(d), Edged(OutlineOf(d)), NEW k \in DOMAIN d.nodes, Live(d, k)
  PROVE  LET o == OutlineOf(d)
         IN  /\ From(d, k) \in o.opens /\ From(d, k) \in 1 .. o.n
             /\ o.type[From(d, k)] \notin Blank \union Separator
             /\ To(d, k) \in o.closes /\ To(d, k) \in 1 .. o.n
             /\ o.type[To(d, k)] \notin Blank \union Separator
             /\ Kind(d, k) \in ContainerType => To(d, k) \in o.shuts
<1> DEFINE o == OutlineOf(d)
<1>1. /\ IsOutline(o) /\ o.n = Len(d.list)
      /\ \A x : x \in o.opens <=> Starts(d, x)
      /\ \A x : x \in o.closes <=> Stops(d, x)
      /\ \A x : x \in o.shuts <=> StopsContainer(d, x)
  BY TreeOutline
<1>2. From(d, k) \in 1 .. o.n /\ To(d, k) \in 1 .. o.n
  BY <1>1, LiveNode
<1> HIDE DEF o
<1>3. /\ From(d, k) \in o.opens /\ To(d, k) \in o.closes
      /\ Kind(d, k) \in ContainerType => To(d, k) \in o.shuts
  BY <1>1 DEF Starts, Stops, StopsContainer
<1> QED BY <1>2, <1>3 DEF Edged, o

\* Inside a node and outside its children, none begins or ends.
Bare(d, n, x) ==
  /\ From(d, n) < x /\ x < To(d, n)
  /\ \A j \in DOMAIN Kids(d, n) : x < From(d, Kids(d, n)[j]) \/ To(d, Kids(d, n)[j]) < x

LEMMA BareIs ==
  ASSUME NEW d, WellFormed(d), Edged(OutlineOf(d)), NEW n \in DOMAIN d.nodes, Live(d, n),
         NEW x \in Nat, Bare(d, n, x)
  PROVE  LET o == OutlineOf(d)
         IN  /\ x \in 1 .. o.n /\ x \notin o.opens /\ x \notin o.closes
             /\ o.type[x] \in Blank \union Separator
<1> DEFINE o == OutlineOf(d)
<1>1. /\ IsOutline(o) /\ o.n = Len(d.list) /\ o.n \in Nat
      /\ \A e : e \in o.opens <=> Starts(d, e)
      /\ \A e : e \in o.closes <=> Stops(d, e)
  BY TreeOutline
<1> HIDE DEF o
<1>2. /\ From(d, n) \in Nat /\ To(d, n) \in Nat /\ From(d, n) <= To(d, n)
      /\ From(d, n) < x /\ x < To(d, n) /\ To(d, n) \in 1 .. Len(d.list)
      /\ \A i \in DOMAIN Kids(d, n) : Within(d, n, Kids(d, n)[i])
  BY LiveNode DEF Bare
<1>3. x \in 1 .. o.n /\ x \in From(d, n) .. To(d, n)
  BY <1>1, <1>2
<1>4. ASSUME NEW k \in DOMAIN d.nodes, Live(d, k), From(d, k) = x \/ To(d, k) = x
      PROVE  FALSE
  <2>1. k # n
    BY <1>2, <1>4
  <2>2. From(d, k) \in Nat /\ To(d, k) \in Nat /\ From(d, k) <= To(d, k)
    BY <1>4, LiveNode
  <2>3. Inside(d, k, n) \/ Inside(d, n, k)
    BY <1>3, <1>4, <2>1, OwnEnds
  <2>4. ASSUME Inside(d, n, k) PROVE FALSE
    <3>1. From(d, k) < From(d, n) /\ To(d, n) < To(d, k)
      BY <1>4, <2>4, InsideIs
    <3> QED BY <1>2, <1>4, <2>2, <3>1
  <2>5. ASSUME Inside(d, k, n) PROVE FALSE
    <3>1. PICK i \in DOMAIN Kids(d, n) :
            \/ Kids(d, n)[i] = k
            \/ From(d, Kids(d, n)[i]) < From(d, k) /\ To(d, k) < To(d, Kids(d, n)[i])
      BY <2>5 DEF Inside
    <3>2. /\ Kids(d, n)[i] \in DOMAIN d.nodes /\ Live(d, Kids(d, n)[i])
          /\ x < From(d, Kids(d, n)[i]) \/ To(d, Kids(d, n)[i]) < x
      BY <1>2 DEF Within, Bare
    <3>3. From(d, Kids(d, n)[i]) \in Nat /\ To(d, Kids(d, n)[i]) \in Nat
      BY <3>2, LiveNode
    <3> QED BY <1>4, <2>2, <3>1, <3>2, <3>3
  <2> QED BY <2>3, <2>4, <2>5
<1>5. x \notin o.opens /\ x \notin o.closes
  BY <1>1, <1>4 DEF Starts, Stops
<1> QED BY <1>3, <1>5 DEF o, Edged

\* The first and the last thing inside a node.
FirstIn(d, n) == IF Kids(d, n) = <<>> THEN To(d, n) ELSE From(d, Kids(d, n)[1])
LastIn(d, n) == IF Kids(d, n) = <<>> THEN From(d, n) ELSE To(d, Kids(d, n)[Len(Kids(d, n))])

LEMMA InsideEnds ==
  ASSUME NEW d, WellFormed(d), NEW n \in DOMAIN d.nodes, Live(d, n), From(d, n) < To(d, n)
  PROVE  /\ From(d, n) \in Nat /\ To(d, n) \in Nat /\ FirstIn(d, n) \in Nat /\ LastIn(d, n) \in Nat
         /\ From(d, n) < FirstIn(d, n) /\ FirstIn(d, n) <= To(d, n) /\ FirstIn(d, n) \in 1 .. Len(d.list)
         /\ From(d, n) <= LastIn(d, n) /\ LastIn(d, n) < To(d, n) /\ LastIn(d, n) \in 1 .. Len(d.list)
         /\ \A x \in Nat : From(d, n) < x /\ x < FirstIn(d, n) => Bare(d, n, x)
         /\ \A x \in Nat : LastIn(d, n) < x /\ x < To(d, n) => Bare(d, n, x)
<1> DEFINE K == Kids(d, n)
           L == Len(K)
<1>1. /\ From(d, n) \in Nat /\ To(d, n) \in Nat /\ From(d, n) \in 1 .. Len(d.list) /\ To(d, n) \in 1 .. Len(d.list)
      /\ \A i \in DOMAIN K : Within(d, n, K[i])
  BY LiveNode
<1>2. L \in Nat /\ DOMAIN K = 1 .. L /\ K \in Seq(Nat)
  BY DocumentIs DEF WellFormed, Listed
<1>3. \A i, j \in DOMAIN K : i < j => To(d, K[i]) < From(d, K[j])
  BY KidsInOrder
<1> HIDE DEF K
<1>4. \A i \in DOMAIN K :
        /\ From(d, K[i]) \in Nat /\ To(d, K[i]) \in Nat /\ From(d, K[i]) <= To(d, K[i])
        /\ From(d, K[i]) \in 1 .. Len(d.list) /\ To(d, K[i]) \in 1 .. Len(d.list)
        /\ From(d, n) < From(d, K[i]) /\ To(d, K[i]) < To(d, n)
  BY <1>1, LiveNode DEF Within
<1>5. CASE K = <<>>
  <2>1. DOMAIN K = {} /\ FirstIn(d, n) = To(d, n) /\ LastIn(d, n) = From(d, n)
    BY <1>5 DEF FirstIn, LastIn, K
  <2> QED BY <1>1, <2>1 DEF Bare, K
<1>6. CASE K # <<>>
  <2>1. L >= 1 /\ 1 \in DOMAIN K /\ L \in DOMAIN K
    BY <1>2, <1>6
  <2>2. FirstIn(d, n) = From(d, K[1]) /\ LastIn(d, n) = To(d, K[L])
    BY <1>6 DEF FirstIn, LastIn, K
  <2>3. \A i \in DOMAIN K : From(d, K[1]) <= From(d, K[i]) /\ To(d, K[i]) <= To(d, K[L])
    <3> SUFFICES ASSUME NEW i \in DOMAIN K PROVE From(d, K[1]) <= From(d, K[i]) /\ To(d, K[i]) <= To(d, K[L])
      OBVIOUS
    <3>1. i = 1 \/ 1 < i
      BY <1>2
    <3>2. i = L \/ i < L
      BY <1>2
    <3>3. 1 < i => To(d, K[1]) < From(d, K[i])
      BY <1>3, <2>1
    <3>4. i < L => To(d, K[i]) < From(d, K[L])
      BY <1>3, <2>1
    <3>5. From(d, K[1]) <= From(d, K[i])
      BY <1>4, <2>1, <3>1, <3>3
    <3>6. To(d, K[i]) <= To(d, K[L])
      BY <1>4, <2>1, <3>2, <3>4
    <3> QED BY <3>5, <3>6
  <2>4. ASSUME NEW x \in Nat, From(d, n) < x, x < FirstIn(d, n) PROVE Bare(d, n, x)
    <3>1. x < To(d, n) /\ \A i \in DOMAIN K : x < From(d, K[i])
      BY <1>1, <1>4, <2>1, <2>2, <2>3, <2>4
    <3> QED BY <2>4, <3>1 DEF Bare, K
  <2>5. ASSUME NEW x \in Nat, LastIn(d, n) < x, x < To(d, n) PROVE Bare(d, n, x)
    <3>1. From(d, n) < x /\ \A i \in DOMAIN K : To(d, K[i]) < x
      BY <1>1, <1>4, <2>1, <2>2, <2>3, <2>5
    <3> QED BY <2>5, <3>1 DEF Bare, K
  <2> QED BY <1>1, <1>4, <2>1, <2>2, <2>4, <2>5
<1> QED BY <1>5, <1>6

\* There is nothing but blanks before the first thing inside a node ...
LEMMA FirstGap ==
  ASSUME NEW d, WellFormed(d), Edged(OutlineOf(d)), Parted(OutlineOf(d)),
         NEW n \in DOMAIN d.nodes, Live(d, n), From(d, n) < To(d, n)
  PROVE  Blanks(OutlineOf(d), From(d, n), FirstIn(d, n))
<1> DEFINE o == OutlineOf(d)
<1>1. /\ o.n \in Nat /\ o.closes \subseteq 1 .. o.n
      /\ \A e : e \in o.closes <=> Stops(d, e)
  BY TreeOutline DEF IsOutline
<1>2. From(d, n) \in 1 .. o.n /\ o.type[From(d, n)] \notin Blank \union Separator
  BY EndsSeen
<1>3. /\ From(d, n) \in Nat /\ FirstIn(d, n) \in Nat
      /\ \A x \in Nat : From(d, n) < x /\ x < FirstIn(d, n) => Bare(d, n, x)
  BY InsideEnds
<1>4. \A x \in Nat : From(d, n) < x /\ x < FirstIn(d, n) =>
        x \in 1 .. o.n /\ x \notin o.closes /\ o.type[x] \in Blank \union Separator
  BY <1>3, BareIs
<1>5. From(d, n) \notin o.closes
  <2> SUFFICES ASSUME NEW k \in DOMAIN d.nodes, Live(d, k), To(d, k) = From(d, n) PROVE FALSE
    BY <1>1 DEF Stops
  <2>1. k # n
    BY InsideEnds
  <2> QED BY <2>1, OwnEnds
<1> HIDE DEF o
<1>6. ASSUME NEW x \in 1 .. o.n, From(d, n) < x, x < FirstIn(d, n), o.type[x] \notin Blank
      PROVE  FALSE
  <2>1. o.type[x] \in Separator
    BY <1>1, <1>4, <1>6
  <2>2. PICK m \in o.closes : m < x /\ Blanks(o, m, x)
    BY <2>1 DEF Parted, Led, o
  <2>3. m \in 1 .. o.n /\ m \in Nat
    BY <1>1, <2>2
  <2>4. m # From(d, n)
    BY <1>5, <2>2
  <2>5. ~(m < From(d, n))
    BY <1>2, <1>6, <2>2 DEF Blanks
  <2>6. ~(From(d, n) < m)
    <3> SUFFICES ASSUME From(d, n) < m PROVE FALSE
      OBVIOUS
    <3>1. m < FirstIn(d, n)
      BY <1>3, <1>6, <2>2, <2>3
    <3> QED BY <1>4, <2>2, <2>3, <3>1
  <2> QED BY <1>3, <2>3, <2>4, <2>5, <2>6
<1> QED BY <1>6 DEF Blanks, o

\* ... and behind the last, but for one comma in a container.
LEMMA LastGap ==
  ASSUME NEW d, WellFormed(d), Edged(OutlineOf(d)), Parted(OutlineOf(d)),
         NEW n \in DOMAIN d.nodes, Live(d, n), From(d, n) < To(d, n),
         NEW x \in Nat, LastIn(d, n) < x, x < To(d, n), OutlineOf(d).type[x] \notin Blank
  PROVE  LET o == OutlineOf(d)
         IN  /\ o.type[x] = "comma" /\ Kids(d, n) # <<>>
             /\ Blanks(o, LastIn(d, n), x) /\ Blanks(o, x, To(d, n))
<1> DEFINE o == OutlineOf(d)
<1>1. /\ o.n \in Nat /\ o.closes \subseteq 1 .. o.n /\ o.opens \subseteq 1 .. o.n /\ o.shuts \subseteq o.closes
      /\ \A e : e \in o.opens <=> Starts(d, e)
      /\ \A e : e \in o.closes <=> Stops(d, e)
  BY TreeOutline DEF IsOutline
<1>2. /\ From(d, n) \in Nat /\ To(d, n) \in Nat /\ FirstIn(d, n) \in Nat /\ LastIn(d, n) \in Nat
      /\ From(d, n) <= LastIn(d, n) /\ LastIn(d, n) < To(d, n) /\ LastIn(d, n) \in 1 .. Len(d.list)
      /\ \A y \in Nat : From(d, n) < y /\ y < FirstIn(d, n) => Bare(d, n, y)
      /\ \A y \in Nat : LastIn(d, n) < y /\ y < To(d, n) => Bare(d, n, y)
  BY InsideEnds
<1>3. To(d, n) \in 1 .. o.n /\ o.type[To(d, n)] \notin Blank \union Separator
  BY EndsSeen
<1>4. \A y \in Nat : LastIn(d, n) < y /\ y < To(d, n) =>
        y \in 1 .. o.n /\ y \notin o.opens /\ y \notin o.closes /\ o.type[y] \in Blank \union Separator
  BY <1>2, BareIs
<1>5. /\ LastIn(d, n) \in 1 .. o.n /\ o.type[LastIn(d, n)] \notin Blank \union Separator
      /\ Kids(d, n) = <<>> => LastIn(d, n) = From(d, n)
  <2>1. CASE Kids(d, n) = <<>>
    BY <2>1, EndsSeen DEF LastIn
  <2>2. CASE Kids(d, n) # <<>>
    <3> DEFINE K == Kids(d, n)
               c == K[Len(K)]
    <3>1. K \in Seq(Nat) /\ DOMAIN K = 1 .. Len(K) /\ Len(K) \in Nat
      BY DocumentIs DEF WellFormed, Listed
    <3>2. \A i \in DOMAIN K : Within(d, n, K[i])
      BY LiveNode
    <3>3. Len(K) \in DOMAIN K
      <4> HIDE DEF K
      <4> QED BY <2>2, <3>1 DEF K
    <3>4. c \in DOMAIN d.nodes /\ Live(d, c)
      BY <3>2, <3>3 DEF Within
    <3> QED BY <2>2, <3>4, EndsSeen DEF LastIn
  <2> QED BY <2>1, <2>2
<1>6. From(d, n) \notin o.closes /\ To(d, n) \notin o.opens
  <2>1. ASSUME NEW k \in DOMAIN d.nodes, Live(d, k), To(d, k) = From(d, n) PROVE FALSE
    <3>1. k # n
      BY <1>2, <2>1
    <3> QED BY <2>1, <3>1, OwnEnds
  <2>2. ASSUME NEW k \in DOMAIN d.nodes, Live(d, k), From(d, k) = To(d, n) PROVE FALSE
    <3>1. k # n
      BY <1>2, <2>2
    <3> QED BY <2>2, <3>1, OwnEnds
  <2> QED BY <1>1, <2>1, <2>2 DEF Starts, Stops
<1> HIDE DEF o
<1>7. x \in 1 .. o.n /\ o.type[x] \in Separator /\ o.type[x] \notin Blank
  BY <1>1, <1>4 DEF o
<1>8. PICK m \in o.closes : m < x /\ Blanks(o, m, x)
  BY <1>7 DEF Parted, Led, o
<1>9. m = LastIn(d, n)
  <2>1. m \in 1 .. o.n /\ m \in Nat
    BY <1>1, <1>8
  <2>2. ~(m < LastIn(d, n))
    BY <1>5, <1>8 DEF Blanks
  <2>3. ~(LastIn(d, n) < m)
    <3> SUFFICES ASSUME LastIn(d, n) < m PROVE FALSE
      OBVIOUS
    <3>1. m < To(d, n)
      BY <1>2, <1>8, <2>1
    <3> QED BY <1>4, <1>8, <2>1, <3>1
  <2> QED BY <1>2, <2>1, <2>2, <2>3
<1>10. PICK e \in o.opens \union o.shuts :
         x < e /\ Blanks(o, x, e) /\ (o.type[x] = "colon" => e \in o.opens)
  BY <1>7 DEF Parted, Followed, o
<1>11. e = To(d, n)
  <2>1. e \in 1 .. o.n /\ e \in Nat /\ e \in o.opens \union o.closes
    BY <1>1, <1>10
  <2>2. ~(To(d, n) < e)
    BY <1>3, <1>10 DEF Blanks
  <2>3. ~(e < To(d, n))
    <3> SUFFICES ASSUME e < To(d, n) PROVE FALSE
      OBVIOUS
    <3>1. LastIn(d, n) < e
      BY <1>2, <1>10, <2>1
    <3> QED BY <1>4, <2>1, <3>1
  <2> QED BY <1>2, <2>1, <2>2, <2>3
<1>12. o.type[x] = "comma"
  BY <1>6, <1>7, <1>10, <1>11 DEF Separator
<1>13. Kids(d, n) # <<>>
  BY <1>5, <1>6, <1>8, <1>9
<1> QED BY <1>8, <1>9, <1>10, <1>11, <1>12, <1>13 DEF o

-----------------------------------------------------------------------------
(***************************************************************************)
(* No edit leaves a separator without its place.                           *)
(***************************************************************************)
\* Nothing but blanks is before the first node.
Begun(o) == \E j \in o.opens : Blanks(o, 0, j)

\* What stands behind a node may begin with a separator.
Leaning(o) ==
  \A i \in 1 .. o.n : o.type[i] \in Separator => (Led(o, i) \/ Blanks(o, 0, i)) /\ Followed(o, i)

LEMMA FreshVoiced ==
  ASSUME NEW f
  PROVE  Voiced(Fresh(f)) <=> Voiced(f)
BY DEF Voiced, Fresh, Begins, Ends

LEMMA RedrawnTidy ==
  ASSUME NEW d, NEW q, NEW f, NEW a, NEW b, Redrawn(d, q, f, a, b), Tidy(d),
         Voiced(f), Edged(OutlineOf(Fresh(f))),
         LET r == OutlineOf(q)
             o == OutlineOf(d)
             g == OutlineOf(Fresh(f))
         IN  /\ \A i \in 1 .. a : o.type[i] \in Separator /\ Blanks(o, i, a + 1) => Followed(r, i)
             /\ \A i \in b .. o.n : o.type[i] \in Separator /\ Blanks(o, b - 1, i) => Led(r, i + Drift(a, b, g.n))
             /\ \A i \in 1 .. g.n : g.type[i] \in Separator =>
                  /\ Led(g, i) \/ Led(r, i + a)
                  /\ Followed(g, i) \/ Followed(r, i + a)
  PROVE  Tidy(q)
BY PatchedKeeps DEF Redrawn, Tidy

LEMMA ReplacedTidy ==
  ASSUME NEW d, NEW q, NEW f, NEW a, NEW b, Redrawn(d, q, f, a, b), Tidy(d), Tidy(Fresh(f)),
         Begun(OutlineOf(Fresh(f))), Done(OutlineOf(Fresh(f)))
  PROVE  Tidy(q)
<1> DEFINE r == OutlineOf(q)
           o == OutlineOf(d)
           g == OutlineOf(Fresh(f))
           s == Drift(a, b, g.n)
<1>1. Patched(r, o, g, a, b) /\ Voiced(f) /\ Edged(g) /\ Parted(g)
  BY FreshVoiced DEF Redrawn, Tidy
<1> HIDE DEF r, o, g
<1>2. /\ o.n \in Nat /\ g.n \in Nat /\ a \in Nat /\ b \in Nat /\ s \in Int /\ s = g.n - (b - a - 1)
      /\ a < b /\ a <= o.n /\ b <= o.n + 1 /\ g.opens \subseteq 1 .. g.n /\ g.closes \subseteq 1 .. g.n
  BY <1>1 DEF Patched, IsOutline, Drift
<1>3. Stands(g, r, 1, g.n, a)
  BY <1>1, PatchedIs
<1>4. PICK j \in g.opens : Blanks(g, 0, j)
  BY DEF Begun, g
<1>5. PICK m \in g.closes : Blanks(g, m, g.n + 1)
  BY DEF Done, g
<1>6. /\ j \in 1 .. g.n /\ j \in 1 .. g.n + 1 /\ j + a \in r.opens
      /\ m \in 1 .. g.n /\ m \in 0 .. g.n /\ m + a \in r.closes
  BY <1>2, <1>3, <1>4, <1>5, StandsPlace DEF SameAt
<1> HIDE DEF s
<1>7. ASSUME NEW i \in 1 .. a, Blanks(o, i, a + 1) PROVE Followed(r, i)
  <2>1. i \in 0 .. a /\ i < j + a
    BY <1>2, <1>6
  <2>2. Blanks(r, i, j + a)
    BY <1>1, <1>4, <1>6, <1>7, <2>1, PatchedBlanks
  <2> QED BY <1>6, <2>1, <2>2 DEF Followed
<1>8. ASSUME NEW i \in b .. o.n, Blanks(o, b - 1, i) PROVE Led(r, i + s)
  <2>1. i \in b .. o.n + 1 /\ m + a < i + s
    BY <1>2, <1>6
  <2>2. Blanks(r, m + a, i + s)
    BY <1>1, <1>5, <1>6, <1>8, <2>1, PatchedBlanks DEF s
  <2> QED BY <1>6, <2>1, <2>2 DEF Led
<1>9. \A i \in 1 .. g.n : g.type[i] \in Separator => Led(g, i) /\ Followed(g, i)
  BY <1>1 DEF Parted
<1> QED BY <1>1, <1>7, <1>8, <1>9, RedrawnTidy DEF r, o, g, s

\* What may come in as child i of n.
Suits(d, n, i, o) ==
  IF Kids(d, n) = <<>> THEN Parted(o) /\ Done(o)
  ELSE IF i = 1 THEN Listing(o) ELSE Leaning(o) /\ Done(o)

LEMMA InsertedTidy ==
  ASSUME NEW d, WellFormed(d), Tidy(d), NEW n \in DOMAIN d.nodes, Live(d, n), Kind(d, n) \in ContainerType,
         NEW i \in 1 .. Len(Kids(d, n)) + 1, NEW a, Behind(d, n, i, a),
         NEW q, NEW f, Redrawn(d, q, f, a, a + 1), Voiced(f), Edged(OutlineOf(Fresh(f))),
         Suits(d, n, i, OutlineOf(Fresh(f)))
  PROVE  Tidy(q)
<1> DEFINE r == OutlineOf(q)
           o == OutlineOf(d)
           g == OutlineOf(Fresh(f))
           s == Drift(a, a + 1, g.n)
           K == Kids(d, n)
<1>1. Patched(r, o, g, a, a + 1) /\ Edged(g) /\ Edged(o) /\ Parted(o) /\ Suits(d, n, i, g)
  BY DEF Redrawn, Tidy
<1>2. /\ o.n \in Nat /\ o.n = Len(d.list) /\ o.closes \subseteq 1 .. o.n
      /\ \A x : x \in o.closes <=> Stops(d, x)
  BY TreeOutline DEF IsOutline
<1>3. From(d, n) < To(d, n) /\ From(d, n) \in Nat /\ \A j \in DOMAIN K : Within(d, n, K[j])
  BY LiveNode
<1>4. K \in Seq(Nat) /\ Len(K) \in Nat /\ DOMAIN K = 1 .. Len(K)
  BY DocumentIs DEF WellFormed, Listed
<1>5. /\ From(d, n) < FirstIn(d, n) /\ FirstIn(d, n) \in Nat /\ FirstIn(d, n) \in 1 .. o.n
      /\ Blanks(o, From(d, n), FirstIn(d, n))
  BY <1>1, <1>2, <1>3, InsideEnds, FirstGap
<1>6. From(d, n) \notin o.closes
  <2> SUFFICES ASSUME NEW k \in DOMAIN d.nodes, Live(d, k), To(d, k) = From(d, n) PROVE FALSE
    BY <1>2 DEF Stops
  <2>1. k # n
    BY <1>3
  <2> QED BY <2>1, OwnEnds
<1>7. i = 1 => a = From(d, n)
  BY DEF Behind
<1>8. i > 1 => a \in o.closes
  <2> SUFFICES ASSUME i > 1 PROVE a \in o.closes
    OBVIOUS
  <2>1. a = To(d, K[i - 1]) /\ i - 1 \in DOMAIN K
    BY <1>4 DEF Behind
  <2>2. K[i - 1] \in DOMAIN d.nodes /\ Live(d, K[i - 1])
    BY <1>3, <2>1 DEF Within
  <2> QED BY <1>1, <2>1, <2>2, EndsSeen
<1>9. a \in 1 .. o.n /\ o.type[a] \notin Blank \union Separator
  <2>1. CASE i = 1
    BY <1>1, <1>7, <2>1, EndsSeen
  <2>2. CASE i > 1
    BY <1>1, <1>2, <1>8, <2>2 DEF Edged
  <2> QED BY <2>1, <2>2
<1>10. K # <<>> /\ i = 1 => FirstIn(d, n) \in o.opens
  <2> SUFFICES ASSUME K # <<>> PROVE FirstIn(d, n) \in o.opens
    OBVIOUS
  <2>1. 1 \in DOMAIN K
    <3> HIDE DEF K
    <3> QED BY <1>4
  <2>2. K[1] \in DOMAIN d.nodes /\ Live(d, K[1])
    BY <1>3, <2>1 DEF Within
  <2> QED BY <1>1, <2>2, EndsSeen DEF FirstIn
<1> HIDE DEF r, o, g, K
<1>11. /\ g.n \in Nat /\ a \in Nat /\ s \in Int /\ s = g.n
       /\ g.opens \subseteq 1 .. g.n /\ g.closes \subseteq 1 .. g.n
  <2>1. IsOutline(g) /\ a \in Nat
    BY <1>1 DEF Patched
  <2>2. g.n \in Nat /\ g.opens \subseteq 1 .. g.n /\ g.closes \subseteq 1 .. g.n
    BY <2>1 DEF IsOutline
  <2>3. s = g.n
    BY <2>1, <2>2 DEF Drift
  <2> QED BY <2>1, <2>2, <2>3
<1>12. Stands(g, r, 1, g.n, a) /\ Stands(o, r, 1, a, 0) /\ Stands(o, r, a + 1, o.n, s)
  BY <1>1, PatchedIs
<1> HIDE DEF s
<1>13. ASSUME NEW x \in 1 .. a, o.type[x] \in Separator, Blanks(o, x, a + 1) PROVE FALSE
  <2>1. x # a
    BY <1>9, <1>13
  <2>2. x < a /\ a < a + 1
    BY <1>11, <2>1
  <2> QED BY <1>9, <1>13, <2>2 DEF Blanks
<1>14. ASSUME NEW x \in a + 1 .. o.n, o.type[x] \in Separator, Blanks(o, a, x) PROVE Led(r, x + s)
  <2>1. CASE Done(g)
    <3>1. PICK m \in g.closes : Blanks(g, m, g.n + 1)
      BY <2>1 DEF Done
    <3>2. m \in 1 .. g.n /\ m \in 0 .. g.n /\ m + a \in r.closes
      BY <1>11, <1>12, <3>1, StandsPlace DEF SameAt
    <3>3. x \in a + 1 .. o.n + 1 /\ m + a < x + s /\ (a + 1) - 1 = a
      BY <1>2, <1>11, <3>2
    <3>4. Blanks(r, m + a, x + s)
      BY <1>1, <1>14, <3>1, <3>2, <3>3, PatchedBlanks DEF s
    <3> QED BY <3>2, <3>3, <3>4 DEF Led
  <2>2. CASE i = 1
    <3>1. x \in 1 .. o.n
      BY <1>2, <1>11
    <3>2. PICK m \in o.closes : m < x /\ Blanks(o, m, x)
      BY <1>1, <1>14, <3>1 DEF Parted, Led
    <3>3. m \in 1 .. o.n /\ m \in Nat
      BY <1>2, <3>2
    <3>4. m # a
      BY <1>6, <1>7, <2>2, <3>2 DEF o
    <3>5. ~(m < a)
      <4> SUFFICES ASSUME m < a PROVE FALSE
        OBVIOUS
      <4>1. a < x
        BY <1>11
      <4> QED BY <1>9, <3>2, <4>1 DEF Blanks
    <3>6. ~(a < m)
      <4> SUFFICES ASSUME a < m PROVE FALSE
        OBVIOUS
      <4>1. o.type[m] \in Blank
        BY <1>14, <3>2, <3>3 DEF Blanks
      <4> QED BY <1>1, <3>2, <3>3, <4>1 DEF Edged
    <3> QED BY <1>11, <3>3, <3>4, <3>5, <3>6
  <2> QED BY <1>1, <2>1, <2>2 DEF Suits
<1>15. ASSUME NEW x \in 1 .. g.n, g.type[x] \in Separator
       PROVE  (Led(g, x) \/ Led(r, x + a)) /\ (Followed(g, x) \/ Followed(r, x + a))
  <2>1. CASE Parted(g)
    BY <1>15, <2>1 DEF Parted
  <2>2. CASE K # <<>> /\ i = 1 /\ Listing(g)
    <3> DEFINE j == FirstIn(d, n)
    <3>1. Led(g, x) /\ (Followed(g, x) \/ (g.type[x] = "comma" /\ Blanks(g, x, g.n + 1)))
      BY <1>15, <2>2 DEF Listing
    <3>2. ASSUME g.type[x] = "comma", Blanks(g, x, g.n + 1) PROVE Followed(r, x + a)
      <4>1. a < j /\ j \in a + 1 .. o.n /\ j \in a + 1 .. o.n + 1 /\ Blanks(o, a, j) /\ j \in o.opens
        BY <1>2, <1>5, <1>7, <1>10, <1>11, <2>2 DEF o, K
      <4> HIDE DEF j
      <4>2. j + s \in r.opens /\ x + a < j + s /\ x \in 0 .. g.n /\ (a + 1) - 1 = a
        BY <1>11, <1>12, <4>1, StandsPlace DEF SameAt
      <4>3. Blanks(r, x + a, j + s)
        BY <1>1, <3>2, <4>1, <4>2, PatchedBlanks DEF s
      <4> QED BY <4>2, <4>3 DEF Followed
    <3> QED BY <3>1, <3>2
  <2>3. CASE i > 1 /\ Leaning(g)
    <3>1. (Led(g, x) \/ Blanks(g, 0, x)) /\ Followed(g, x)
      BY <1>15, <2>3 DEF Leaning
    <3>2. ASSUME Blanks(g, 0, x) PROVE Led(r, x + a)
      <4>1. a \in r.closes
        <5>1. a \in 1 .. a /\ a + 0 = a
          BY <1>9, <1>11
        <5>2. SameAt(o, a, r, a + 0)
          BY <1>12, <5>1, StandsPlace
        <5> QED BY <1>8, <2>3, <5>1, <5>2 DEF SameAt, o
      <4>2. a \in 0 .. a /\ x \in 1 .. g.n + 1 /\ a < x + a
        BY <1>11
      <4>3. Blanks(o, a, a + 1)
        BY <1>2, <1>11 DEF Blanks
      <4>4. Blanks(r, a, x + a)
        BY <1>1, <3>2, <4>2, <4>3, PatchedBlanks
      <4> QED BY <4>1, <4>2, <4>4 DEF Led
    <3> QED BY <3>1, <3>2
  <2>4. i = 1 \/ i > 1
    BY <1>4 DEF K
  <2> QED BY <1>1, <2>1, <2>2, <2>3, <2>4 DEF Suits, K
<1>16. (a + 1) - 1 = a
  BY <1>11
<1> QED BY <1>1, <1>13, <1>14, <1>15, <1>16, RedrawnTidy DEF r, o, g, s

LEMMA NothingDrawn ==
  LET g == OutlineOf(Fresh(Nothing))
  IN  g.n = 0 /\ Edged(g) /\ Voiced(Nothing)
<1> DEFINE g == OutlineOf(Fresh(Nothing))
<1>1. Nothing.tokens \in Toks /\ Nothing.tokens = <<>> /\ Nothing.nodes = <<>>
  BY NothingIs DEF Fragment
<1>2. g.n = 0
  BY <1>1, FreshOutline
<1>3. Voiced(Nothing)
  BY <1>1 DEF Voiced
<1> QED BY <1>2, <1>3 DEF Edged

\* Nothing is left that only a separator is behind, or before.
LEMMA RemovedTidy ==
  ASSUME NEW d, NEW q, NEW a, NEW b, Redrawn(d, q, Nothing, a, b), Tidy(d),
         LET o == OutlineOf(d)
         IN  \/ b \in o.opens
             \/ a \in o.closes
             \/ /\ \E y \in 1 .. a : o.type[y] \notin Blank \union Separator /\ Blanks(o, y, a + 1)
                /\ \A x \in b .. o.n : o.type[x] \in Separator => ~Blanks(o, b - 1, x)
  PROVE  Tidy(q)
<1> DEFINE r == OutlineOf(q)
           o == OutlineOf(d)
           g == OutlineOf(Fresh(Nothing))
           s == Drift(a, b, g.n)
<1>1. /\ Patched(r, o, g, a, b) /\ Edged(o) /\ Parted(o) /\ g.n = 0 /\ Edged(g) /\ Voiced(Nothing)
      /\ \/ b \in o.opens
         \/ a \in o.closes
         \/ /\ \E y \in 1 .. a : o.type[y] \notin Blank \union Separator /\ Blanks(o, y, a + 1)
            /\ \A x \in b .. o.n : o.type[x] \in Separator => ~Blanks(o, b - 1, x)
  BY NothingDrawn DEF Redrawn, Tidy
<1> HIDE DEF r, o, g
<1>2. /\ o.n \in Nat /\ g.n = 0 /\ a \in Nat /\ b \in Nat /\ s \in Int /\ s = 0 - (b - a - 1)
      /\ a < b /\ a <= o.n /\ b <= o.n + 1 /\ o.opens \subseteq 1 .. o.n /\ o.closes \subseteq 1 .. o.n
  BY <1>1 DEF Patched, IsOutline, Drift
<1>3. Stands(o, r, 1, a, 0) /\ Stands(o, r, b, o.n, s)
  BY <1>1, PatchedIs
<1> HIDE DEF s
<1>4. ASSUME NEW m \in 1 .. o.n, m \in o.opens \union o.closes
      PROVE  o.type[m] \notin Blank \union Separator
  BY <1>1, <1>4 DEF Edged
<1>5. ASSUME NEW x \in 1 .. a, o.type[x] \in Separator, Blanks(o, x, a + 1) PROVE Followed(r, x)
  <2>1. CASE b \in o.opens
    <3>1. b \in b .. o.n /\ b \in b .. o.n + 1 /\ x \in 0 .. a /\ x < b + s
      BY <1>2, <2>1
    <3>2. b + s \in r.opens
      BY <1>3, <2>1, <3>1, StandsPlace DEF SameAt
    <3>3. Blanks(o, b - 1, b)
      BY <1>2 DEF Blanks
    <3>4. Blanks(r, x, b + s)
      BY <1>1, <1>5, <3>1, <3>3, PatchedBlanks DEF s
    <3> QED BY <3>1, <3>2, <3>4 DEF Followed
  <2>2. CASE \E y \in 1 .. a : o.type[y] \notin Blank \union Separator /\ Blanks(o, y, a + 1)
    <3>1. PICK y \in 1 .. a : o.type[y] \notin Blank \union Separator /\ Blanks(o, y, a + 1)
      BY <2>2
    <3>2. x \in 1 .. o.n /\ y \in 1 .. o.n /\ x < a + 1 /\ y < a + 1 /\ x # y
      BY <1>2, <1>5, <3>1
    <3>3. o.type[x] \notin Blank
      BY <1>5 DEF Blank, Separator
    <3>4. ~(y < x) /\ ~(x < y)
      BY <1>5, <3>1, <3>2, <3>3 DEF Blanks
    <3> QED BY <3>2, <3>4
  <2>3. CASE a \in o.closes
    <3>1. a \in 1 .. a /\ a \in 1 .. o.n
      BY <1>2, <2>3
    <3>2. o.type[a] \notin Blank \union Separator /\ Blanks(o, a, a + 1)
      BY <1>2, <1>4, <2>3, <3>1 DEF Blanks
    <3> QED BY <2>2, <3>1, <3>2
  <2> QED BY <1>1, <2>1, <2>2, <2>3
<1>6. ASSUME NEW x \in b .. o.n, o.type[x] \in Separator, Blanks(o, b - 1, x) PROVE Led(r, x + s)
  <2>1. CASE a \in o.closes
    <3>1. a \in 1 .. a /\ a + 0 = a /\ x \in b .. o.n + 1 /\ a \in 0 .. a /\ a < x + s
      BY <1>2, <2>1
    <3>2. SameAt(o, a, r, a + 0)
      BY <1>3, <3>1, StandsPlace
    <3>3. a \in r.closes
      BY <2>1, <3>1, <3>2 DEF SameAt
    <3>4. Blanks(o, a, a + 1)
      BY <1>2 DEF Blanks
    <3>5. Blanks(r, a, x + s)
      BY <1>1, <1>6, <3>1, <3>4, PatchedBlanks DEF s
    <3> QED BY <3>1, <3>3, <3>5 DEF Led
  <2>2. CASE b \in o.opens
    <3>1. b \in 1 .. o.n /\ b - 1 < b /\ o.type[b] \notin Blank \union Separator
      BY <1>2, <1>4, <2>2
    <3>2. b # x
      BY <1>6, <3>1
    <3>3. b < x
      BY <1>2, <3>2
    <3> QED BY <1>6, <3>1, <3>3 DEF Blanks
  <2> QED BY <1>1, <1>6, <2>1, <2>2
<1> QED BY <1>1, <1>5, <1>6, RedrawnTidy DEF r, o, g, s

\* An only child goes alone, or with the comma behind it.
LEMMA OnlyGoes ==
  ASSUME NEW d, WellFormed(d), Tidy(d), NEW n \in DOMAIN d.nodes, Live(d, n), Kind(d, n) \in ContainerType,
         Len(Kids(d, n)) = 1, NEW b \in Nat,
         LET c == Kids(d, n)[1]
         IN  \/ /\ b = To(d, c) + 1
                /\ \A x \in To(d, c) + 1 .. To(d, n) - 1 : d.tokens[d.list[x]].type # "comma"
             \/ To(d, c) + 1 < b /\ b <= To(d, n) /\ d.tokens[d.list[b - 1]].type = "comma"
  PROVE  LET o == OutlineOf(d)
             a == From(d, Kids(d, n)[1]) - 1
         IN  /\ \E y \in 1 .. a : o.type[y] \notin Blank \union Separator /\ Blanks(o, y, a + 1)
             /\ \A x \in b .. o.n : o.type[x] \in Separator => ~Blanks(o, b - 1, x)
<1> DEFINE o == OutlineOf(d)
           c == Kids(d, n)[1]
           a == From(d, c) - 1
<1>1. Edged(o) /\ Parted(o)
  BY DEF Tidy
<1>2. /\ o.n \in Nat /\ o.n = Len(d.list)
      /\ \A x \in 1 .. o.n : o.type[x] = d.tokens[d.list[x]].type
  BY TreeOutline
<1>3. From(d, n) < To(d, n) /\ From(d, n) \in Nat /\ To(d, n) \in Nat /\ To(d, n) \in 1 .. Len(d.list)
  BY LiveNode
<1>4. Kids(d, n) \in Seq(Nat) /\ Kids(d, n) # <<>> /\ Len(Kids(d, n)) = 1
  <2>1. Kids(d, n) \in Seq(Nat)
    BY DocumentIs DEF WellFormed, Listed
  <2> QED BY <2>1
<1>5. FirstIn(d, n) = From(d, c) /\ LastIn(d, n) = To(d, c)
  BY <1>4 DEF FirstIn, LastIn
<1>6. /\ From(d, n) < From(d, c) /\ From(d, c) \in Nat /\ From(d, c) <= To(d, n)
      /\ To(d, c) \in Nat /\ To(d, c) < To(d, n) /\ Blanks(o, From(d, n), From(d, c))
  BY <1>1, <1>3, <1>5, InsideEnds, FirstGap
<1>7. /\ From(d, n) \in 1 .. o.n /\ o.type[From(d, n)] \notin Blank \union Separator
      /\ To(d, n) \in 1 .. o.n /\ o.type[To(d, n)] \notin Blank \union Separator
  BY <1>1, EndsSeen
<1>8. ASSUME NEW x \in Nat, To(d, c) < x, x < To(d, n), o.type[x] \notin Blank
      PROVE  o.type[x] = "comma" /\ Blanks(o, x, To(d, n))
  BY <1>1, <1>3, <1>5, <1>8, LastGap
<1>9. \/ /\ b = To(d, c) + 1
         /\ \A x \in To(d, c) + 1 .. To(d, n) - 1 : o.type[x] # "comma"
      \/ To(d, c) + 1 < b /\ b <= To(d, n) /\ o.type[b - 1] = "comma"
  <2>1. \A x \in To(d, c) + 1 .. To(d, n) - 1 : x \in 1 .. o.n
    BY <1>2, <1>3, <1>6
  <2>2. To(d, c) + 1 < b /\ b <= To(d, n) => b - 1 \in 1 .. o.n
    BY <1>2, <1>3, <1>6
  <2> QED BY <1>2, <2>1, <2>2
<1> HIDE DEF o, c
<1>10. /\ From(d, n) \in 1 .. a /\ a + 1 = From(d, c)
  BY <1>6, <1>7
<1>11. ASSUME NEW x \in b .. o.n, o.type[x] \in Separator, Blanks(o, b - 1, x) PROVE FALSE
  <2>1. x \in Nat /\ x \in 1 .. o.n /\ To(d, c) < x /\ b - 1 < To(d, n) /\ o.type[x] \notin Blank
    <3>1. To(d, c) + 1 <= b /\ b - 1 < To(d, n)
      BY <1>3, <1>6, <1>9
    <3>2. o.type[x] \notin Blank
      BY <1>11 DEF Blank, Separator
    <3> QED BY <1>2, <1>6, <3>1, <3>2
  <2>2. x # To(d, n)
    BY <1>7, <1>11
  <2>3. ~(To(d, n) < x)
    BY <1>7, <1>11, <2>1 DEF Blanks
  <2>4. x < To(d, n)
    BY <1>3, <2>1, <2>2, <2>3
  <2>5. o.type[x] = "comma"
    BY <1>8, <2>1, <2>4
  <2>6. CASE b = To(d, c) + 1 /\ \A y \in To(d, c) + 1 .. To(d, n) - 1 : o.type[y] # "comma"
    BY <1>3, <1>6, <2>1, <2>4, <2>5, <2>6
  <2>7. CASE To(d, c) + 1 < b /\ b <= To(d, n) /\ o.type[b - 1] = "comma"
    <3>1. b - 1 \in Nat /\ To(d, c) < b - 1 /\ b - 1 < To(d, n) /\ b - 1 < x
      BY <1>3, <1>6, <2>7
    <3>2. o.type[b - 1] \notin Blank
      BY <2>7 DEF Blank
    <3>3. Blanks(o, b - 1, To(d, n))
      BY <1>8, <3>1, <3>2
    <3> QED BY <2>1, <2>4, <3>1, <3>3 DEF Blanks
  <2> QED BY <1>9, <2>6, <2>7
<1> QED BY <1>6, <1>7, <1>10, <1>11 DEF o, c

-----------------------------------------------------------------------------
(***************************************************************************)
(* The outline of what comes in.                                           *)
(***************************************************************************)
\* A fragment whose top may stand anywhere is a document.
LEMMA FreshIs ==
  ASSUME NEW f, Fragment(f), f.nodes # <<>>, Kind(f, 1) \notin WrapperType
  PROVE  WellFormed(Fresh(f))
<1> DEFINE d == Fresh(f)
<1>0. d.tokens = f.tokens /\ d.nodes = f.nodes /\ d.list = [i \in DOMAIN f.tokens |-> i]
  BY DEF Fresh
<1> HIDE DEF d
<1>1. Fragment(f) /\ f.nodes # <<>> /\ Kind(f, 1) \notin WrapperType
  OBVIOUS
<1>2. /\ f.tokens \in Toks /\ f.nodes \in Seq(NodeRecord)
      /\ Len(f.tokens) \in Nat /\ DOMAIN f.tokens = 1 .. Len(f.tokens)
      /\ Len(f.nodes) \in Nat /\ DOMAIN f.nodes = 1 .. Len(f.nodes)
  BY <1>1, DocumentIs DEF Fragment
<1>3. d.list \in Seq(Nat) /\ DOMAIN d.list = DOMAIN f.tokens /\ \A i \in DOMAIN f.tokens : d.list[i] = i /\ i \in Nat
  <2>1. d.list \in [1 .. Len(f.tokens) -> Nat]
    BY <1>0, <1>2
  <2> QED BY <1>0, <1>2, <2>1, FunctionIsSeq
<1>4. Listed(d)
  <2> HIDE DEF Toks, NodeRecord
  <2> QED BY <1>0, <1>2, <1>3 DEF Listed
<1>5. \A e : Held(d, e) <=> e \in DOMAIN f.tokens
  BY <1>3 DEF Held
<1>6. \A e \in DOMAIN f.tokens : Pos(d, e) = e
  BY <1>3, <1>4, PosOf
<1>7. Fragment(d)
  BY <1>0, <1>1, SameFragment
<1>8. Linked(d) /\ Formed(d) /\ OneParent(d) /\ Nests(d) /\ Rooted(d) /\ Ended(d)
  BY <1>7 DEF Fragment
<1>9. \A k \in DOMAIN d.nodes :
        /\ Live(d, k) /\ Held(d, Ends(d, k)) /\ From(d, k) = Begins(d, k) /\ To(d, k) = Ends(d, k)
        /\ \A i \in DOMAIN Kids(d, k) : Kids(d, k)[i] \in DOMAIN d.nodes
  <2>1. \A k \in DOMAIN d.nodes :
          /\ Begins(d, k) \in DOMAIN d.tokens /\ Ends(d, k) \in DOMAIN d.tokens
          /\ \A i \in DOMAIN Kids(d, k) : Kids(d, k)[i] \in DOMAIN d.nodes
    BY <1>8 DEF Linked, LinkedAt
  <2> QED BY <1>0, <1>5, <1>6, <2>1 DEF Live, From, To
<1>10. Standing(d)
  <2> SUFFICES ASSUME NEW k \in DOMAIN d.nodes PROVE StandingAt(d, k)
    BY DEF Standing
  <2>1. /\ Begins(d, k) <= Ends(d, k)
        /\ Kind(d, k) \in ContainerType => Begins(d, k) < Ends(d, k)
        /\ \A i \in DOMAIN Kids(d, k) :
             LET c == Kids(d, k)[i]
             IN  /\ Begins(d, k) < Begins(d, c) /\ Ends(d, c) < Ends(d, k)
                 /\ i > 1 => Ends(d, Kids(d, k)[i - 1]) < Begins(d, c)
    BY <1>8 DEF Nests
  <2>2. /\ Len(Kids(d, k)) \in Nat /\ DOMAIN Kids(d, k) = 1 .. Len(Kids(d, k))
    BY <1>4, DocumentIs DEF Listed
  <2>3. \A i \in DOMAIN Kids(d, k) : i > 1 => i - 1 \in DOMAIN Kids(d, k)
    BY <2>2
  <2>4. Held(d, Ends(d, k)) /\ From(d, k) <= To(d, k)
        /\ (Kind(d, k) \in ContainerType => From(d, k) < To(d, k))
    BY <1>9, <2>1
  <2>5. ASSUME NEW i \in DOMAIN Kids(d, k)
        PROVE  LET c == Kids(d, k)[i]
               IN  /\ Live(d, c) /\ From(d, k) < From(d, c) /\ To(d, c) < To(d, k)
                   /\ i > 1 => To(d, Kids(d, k)[i - 1]) < From(d, c)
    BY <1>9, <2>1, <2>3
  <2> QED BY <2>4, <2>5 DEF StandingAt
<1>11. Fallen(d)
  BY <1>9 DEF Fallen, FallenAt
<1>12. Kept(d)
  <2>1. 1 \in DOMAIN d.nodes
    <3> HIDE DEF NodeRecord
    <3> QED BY <1>0, <1>1, <1>2
  <2>2. Kind(d, 1) \notin WrapperType
    BY <1>0, <1>1 DEF Kind
  <2> QED BY <1>8, <1>9, <2>1, <2>2 DEF Kept, Rooted
<1>13. Marked(d)
  BY <1>8, <1>9 DEF Marked, Ended
<1> QED BY <1>4, <1>8, <1>10, <1>11, <1>12, <1>13 DEF WellFormed, d

\* No node of a fragment begins or ends with a token that is passed over.
LEMMA EdgedVoiced ==
  ASSUME NEW f, Fragment(f), Edged(OutlineOf(Fresh(f)))
  PROVE  Voiced(f) /\ Voiced(Fresh(f))
<1> DEFINE o == OutlineOf(Fresh(f))
<1>1. f.tokens \in Toks /\ Linked(f)
  BY DEF Fragment
<1>2. /\ o.n = Len(f.tokens) /\ DOMAIN f.tokens = 1 .. Len(f.tokens)
      /\ \A i \in 1 .. Len(f.tokens) :
           o.type[i] = f.tokens[i].type /\ (i \in o.opens <=> OpensAt(f, i)) /\ (i \in o.closes <=> ClosesAt(f, i))
  BY <1>1, FreshOutline
<1>3. Edged(o)
  OBVIOUS
<1> HIDE DEF o
<1>4. ASSUME NEW k \in DOMAIN f.nodes
      PROVE  Loud(f.tokens[Begins(f, k)]) /\ Loud(f.tokens[Ends(f, k)])
  <2>1. Begins(f, k) \in DOMAIN f.tokens /\ Ends(f, k) \in DOMAIN f.tokens
    BY <1>1 DEF Linked, LinkedAt
  <2>2. Begins(f, k) \in o.opens /\ Ends(f, k) \in o.closes
    BY <1>2, <2>1 DEF OpensAt, ClosesAt
  <2> QED BY <1>2, <1>3, <2>1, <2>2 DEF Edged, Loud
<1>5. Voiced(f)
  BY <1>4 DEF Voiced
<1> QED BY <1>5, FreshVoiced

\* A fragment that begins and ends with nodes.
Neat(f) ==
  /\ Tidy(Fresh(f))
  /\ Begun(OutlineOf(Fresh(f))) /\ Done(OutlineOf(Fresh(f)))

\* In a value, all that is not blank is in the top node.
LEMMA ValueNeat ==
  ASSUME NEW f, Fragment(f), f.nodes # <<>>, Kind(f, 1) \notin WrapperType, Tidy(Fresh(f))
  PROVE  Neat(f)
<1> DEFINE d == Fresh(f)
           o == OutlineOf(d)
<1>1. WellFormed(d) /\ Edged(o) /\ Parted(o)
  BY FreshIs DEF Tidy
<1> HIDE DEF d
<1>2. /\ IsOutline(o) /\ o.n \in Nat /\ o.opens \subseteq 1 .. o.n /\ o.closes \subseteq 1 .. o.n /\ o.shuts \subseteq o.closes
      /\ \A x : x \in o.opens <=> Starts(d, x)
      /\ \A x : x \in o.closes <=> Stops(d, x)
  BY <1>1, TreeOutline DEF IsOutline
<1> HIDE DEF o
<1>3. 1 \in DOMAIN d.nodes /\ Live(d, 1)
  BY <1>1 DEF WellFormed, Kept
<1>4. From(d, 1) \in o.opens /\ To(d, 1) \in o.closes /\ From(d, 1) \in Nat /\ To(d, 1) \in Nat
  BY <1>1, <1>2, <1>3, LiveNode DEF Starts, Stops
<1>5. \A k \in DOMAIN d.nodes : Live(d, k) =>
        /\ From(d, k) \in Nat /\ To(d, k) \in Nat /\ From(d, k) <= To(d, k)
        /\ From(d, 1) <= From(d, k) /\ To(d, k) <= To(d, 1)
  <2> SUFFICES ASSUME NEW k \in DOMAIN d.nodes, Live(d, k)
               PROVE  /\ From(d, k) \in Nat /\ To(d, k) \in Nat /\ From(d, k) <= To(d, k)
                      /\ From(d, 1) <= From(d, k) /\ To(d, k) <= To(d, 1)
    OBVIOUS
  <2>1. From(d, k) \in Nat /\ To(d, k) \in Nat /\ From(d, k) <= To(d, k)
    BY <1>1, LiveNode
  <2>2. CASE k = 1
    BY <2>1, <2>2
  <2>3. CASE k # 1
    <3>1. Inside(d, k, 1)
      BY <1>1, <2>3, RootHolds
    <3>2. From(d, 1) < From(d, k) /\ To(d, k) < To(d, 1)
      BY <1>1, <1>3, <3>1, InsideIs
    <3> QED BY <1>4, <2>1, <3>2
  <2> QED BY <2>2, <2>3
<1>6. \A x \in o.opens \union o.closes : x \in Nat /\ From(d, 1) <= x /\ x <= To(d, 1)
  BY <1>2, <1>4, <1>5 DEF Starts, Stops
<1>7. \A i \in 1 .. o.n : o.type[i] \notin Blank => From(d, 1) <= i /\ i <= To(d, 1)
  <2> SUFFICES ASSUME NEW i \in 1 .. o.n, o.type[i] \notin Blank PROVE From(d, 1) <= i /\ i <= To(d, 1)
    OBVIOUS
  <2>1. CASE o.type[i] \in Separator
    <3>1. Led(o, i) /\ Followed(o, i)
      BY <1>1, <2>1 DEF Parted, o
    <3>2. PICK m \in o.closes : m < i
      BY <3>1 DEF Led
    <3>3. PICK w \in o.opens \union o.shuts : i < w
      BY <3>1 DEF Followed
    <3>4. /\ m \in Nat /\ From(d, 1) <= m /\ w \in Nat /\ w <= To(d, 1)
      BY <1>2, <1>6
    <3> QED BY <1>4, <3>2, <3>3, <3>4
  <2>2. CASE o.type[i] \notin Separator
    BY <1>1, <1>6, <2>2 DEF Edged, o
  <2> QED BY <2>1, <2>2
<1>8. Blanks(o, 0, From(d, 1))
  BY <1>4, <1>7 DEF Blanks
<1>9. Blanks(o, To(d, 1), o.n + 1)
  BY <1>4, <1>7 DEF Blanks
<1>10. Begun(o) /\ Done(o)
  BY <1>4, <1>8, <1>9 DEF Begun, Done
<1> QED BY <1>10 DEF Neat, d, o

\* What was decoded.
LEMMA EncodedTidy ==
  ASSUME NEW x \in Txt, Encoded(x).ok
  PROVE  Tidy(Fresh(Encoded(x)))
<1> DEFINE p == Decode(x)
           f == Encoded(x)
           o == Outline(p)
           r == OutlineOf(Fresh(f))
<1>1. f = [ok |-> p.at = "end", tokens |-> p.tokens, nodes |-> p.nodes]
  BY DEF Encoded
<1>2. Good(p) /\ (p.at # "error" => Lined(p))
  BY DecodeOK, DecodeLined
<1>3. ValueOf(f)
  BY EncodedIs
<1> HIDE DEF p, f
<1>4. f.ok /\ f.tokens = p.tokens /\ f.nodes = p.nodes /\ p.at = "end"
  <2>1. f.ok
    BY DEF f
  <2> QED BY <1>1, <2>1
<1>5. p \in Parser /\ Tree(p) /\ p.open = <<>> /\ p.nodes # <<>> /\ Edged(o) /\ Parted(o)
  BY <1>2, <1>4 DEF Good, Placed, Lined
<1>6. \A k : ~IsOpen(p, k)
  <2>1. DOMAIN p.open = {}
    BY <1>5
  <2> QED BY <2>1 DEF IsOpen
<1>7. /\ IsOutline(o) /\ o.n = Len(p.tokens)
      /\ \A i \in DOMAIN p.tokens : o.type[i] = p.tokens[i].type
      /\ \A i : i \in o.opens <=> BeginsAt(p, i)
      /\ \A i : i \in o.closes <=> EndsAt(p, i)
      /\ \A i : i \in o.shuts <=> ShutsAt(p, i)
  BY <1>5, OutlineIs
<1>8. Fragment(f) /\ f.tokens \in Toks
  BY <1>3 DEF ValueOf, Fragment
<1>9. /\ IsOutline(r) /\ r.n = Len(f.tokens) /\ Len(f.tokens) \in Nat /\ DOMAIN f.tokens = 1 .. Len(f.tokens)
      /\ \A i \in 1 .. Len(f.tokens) :
           /\ r.type[i] = f.tokens[i].type
           /\ i \in r.opens <=> OpensAt(f, i)
           /\ i \in r.closes <=> ClosesAt(f, i)
           /\ i \in r.shuts <=> ClosesContainer(f, i)
  BY <1>8, FreshOutline
<1> HIDE DEF o, r
<1>10. \A i : /\ OpensAt(f, i) <=> BeginsAt(p, i)
              /\ ClosesAt(f, i) <=> EndsAt(p, i)
              /\ ClosesContainer(f, i) <=> ShutsAt(p, i)
  BY <1>4, <1>6 DEF OpensAt, ClosesAt, ClosesContainer, BeginsAt, EndsAt, ShutsAt, Begins, Ends, Kind
<1> HIDE DEF OpensAt, ClosesAt, ClosesContainer, BeginsAt, EndsAt, ShutsAt
<1>11. \A i \in 1 .. o.n : SameAt(o, i, r, i)
  <2> SUFFICES ASSUME NEW i \in 1 .. o.n PROVE SameAt(o, i, r, i)
    OBVIOUS
  <2>1. i \in DOMAIN p.tokens /\ i \in 1 .. Len(f.tokens)
    BY <1>4, <1>7, <1>9
  <2>2. r.type[i] = o.type[i]
    BY <1>4, <1>7, <1>9, <2>1
  <2>3. (i \in r.opens <=> i \in o.opens) /\ (i \in r.closes <=> i \in o.closes) /\ (i \in r.shuts <=> i \in o.shuts)
    BY <1>7, <1>9, <1>10, <2>1
  <2> QED BY <2>2, <2>3 DEF SameAt
<1>12. o.n \in Nat /\ r.n = o.n
  BY <1>4, <1>7, <1>9
<1>13. Stands(o, r, 1, o.n, 0)
  BY <1>7, <1>9, <1>11, <1>12 DEF Stands
<1>14. Edged(r) /\ Parted(r)
  BY <1>5, <1>12, <1>13, StandsParted
<1>15. Voiced(Fresh(f))
  BY <1>8, <1>14, EdgedVoiced DEF r
<1> QED BY <1>14, <1>15 DEF Tidy, r, f

\* The outline of a fragment that stands in another, with no end of another node inside.
LEMMA CarriedOutline ==
  ASSUME NEW f, Fragment(f), NEW g, g.tokens \in Toks, NEW h, NEW dn, Carried(f, g, h, dn),
         h + Len(f.tokens) <= Len(g.tokens),
         \A k \in DOMAIN g.nodes :
           \/ \E j \in DOMAIN f.nodes : k = j + dn
           \/ \A e \in DOMAIN f.tokens : Begins(g, k) # e + h /\ Ends(g, k) # e + h
  PROVE  Stands(OutlineOf(Fresh(f)), OutlineOf(Fresh(g)), 1, Len(f.tokens), h)
<1> DEFINE o == OutlineOf(Fresh(f))
           r == OutlineOf(Fresh(g))
<1>1. f.tokens \in Toks
  BY DEF Fragment
<1>2. /\ IsOutline(o) /\ o.n = Len(f.tokens) /\ Len(f.tokens) \in Nat /\ DOMAIN f.tokens = 1 .. Len(f.tokens)
      /\ \A i \in 1 .. Len(f.tokens) :
           /\ o.type[i] = f.tokens[i].type
           /\ i \in o.opens <=> OpensAt(f, i)
           /\ i \in o.closes <=> ClosesAt(f, i)
           /\ i \in o.shuts <=> ClosesContainer(f, i)
  BY <1>1, FreshOutline
<1>3. /\ IsOutline(r) /\ r.n = Len(g.tokens) /\ Len(g.tokens) \in Nat /\ DOMAIN g.tokens = 1 .. Len(g.tokens)
      /\ \A i \in 1 .. Len(g.tokens) :
           /\ r.type[i] = g.tokens[i].type
           /\ i \in r.opens <=> OpensAt(g, i)
           /\ i \in r.closes <=> ClosesAt(g, i)
           /\ i \in r.shuts <=> ClosesContainer(g, i)
  BY FreshOutline
<1> HIDE DEF o, r
<1>4. h \in Nat /\ \A e \in DOMAIN f.tokens : e + h \in DOMAIN g.tokens /\ g.tokens[e + h] = f.tokens[e]
  BY DEF Carried
<1>5. \A j \in DOMAIN f.nodes :
        /\ j + dn \in DOMAIN g.nodes /\ Kind(g, j + dn) = Kind(f, j)
        /\ Begins(g, j + dn) = Begins(f, j) + h /\ Ends(g, j + dn) = Ends(f, j) + h
        /\ Begins(f, j) \in Nat /\ Ends(f, j) \in Nat
  BY FragmentIs DEF Carried
<1>6. \A i \in DOMAIN f.tokens :
        /\ OpensAt(g, i + h) <=> OpensAt(f, i)
        /\ ClosesAt(g, i + h) <=> ClosesAt(f, i)
        /\ ClosesContainer(g, i + h) <=> ClosesContainer(f, i)
  <2> SUFFICES ASSUME NEW i \in DOMAIN f.tokens
               PROVE  /\ OpensAt(g, i + h) <=> OpensAt(f, i)
                      /\ ClosesAt(g, i + h) <=> ClosesAt(f, i)
                      /\ ClosesContainer(g, i + h) <=> ClosesContainer(f, i)
    OBVIOUS
  <2>1. i \in Nat
    BY <1>2
  <2>2. \A j \in DOMAIN f.nodes : /\ Begins(g, j + dn) = i + h <=> Begins(f, j) = i
                                  /\ Ends(g, j + dn) = i + h <=> Ends(f, j) = i
    BY <1>4, <1>5, <2>1
  <2>3. \A k \in DOMAIN g.nodes :
          (\E j \in DOMAIN f.nodes : k = j + dn) \/ (Begins(g, k) # i + h /\ Ends(g, k) # i + h)
    OBVIOUS
  <2>4. OpensAt(g, i + h) <=> OpensAt(f, i)
    BY <1>5, <2>2, <2>3 DEF OpensAt
  <2>5. ClosesAt(g, i + h) <=> ClosesAt(f, i)
    BY <1>5, <2>2, <2>3 DEF ClosesAt
  <2>6. ClosesContainer(g, i + h) <=> ClosesContainer(f, i)
    BY <1>5, <2>2, <2>3 DEF ClosesContainer
  <2> QED BY <2>4, <2>5, <2>6
<1>7. \A i \in 1 .. Len(f.tokens) : SameAt(o, i, r, i + h)
  <2> SUFFICES ASSUME NEW i \in 1 .. Len(f.tokens) PROVE SameAt(o, i, r, i + h)
    OBVIOUS
  <2>1. i \in DOMAIN f.tokens /\ i + h \in 1 .. Len(g.tokens) /\ g.tokens[i + h] = f.tokens[i]
    BY <1>2, <1>3, <1>4
  <2>2. r.type[i + h] = o.type[i]
    BY <1>2, <1>3, <2>1
  <2>3. /\ i + h \in r.opens <=> i \in o.opens
        /\ i + h \in r.closes <=> i \in o.closes
        /\ i + h \in r.shuts <=> i \in o.shuts
    BY <1>2, <1>3, <1>6, <2>1
  <2> QED BY <2>2, <2>3 DEF SameAt
<1> QED BY <1>2, <1>3, <1>4, <1>7 DEF Stands, o, r

-----------------------------------------------------------------------------
\* r is o with h tokens in front that begin and end no node.
Fronted(o, r, h) ==
  /\ Stands(o, r, 1, o.n, h) /\ h \in Nat /\ r.n = o.n + h
  /\ \A i \in 1 .. h : i \notin r.opens /\ i \notin r.closes

LEMMA FrontedIs ==
  ASSUME NEW o, NEW r, NEW h, Fronted(o, r, h)
  PROVE  /\ IsOutline(o) /\ IsOutline(r) /\ o.n \in Nat /\ r.n \in Nat /\ h \in Nat /\ r.n = o.n + h
         /\ o.opens \subseteq 1 .. o.n /\ o.closes \subseteq 1 .. o.n
         /\ \A i \in 1 .. o.n : i + h \in 1 .. r.n /\ SameAt(o, i, r, i + h)
         /\ \A x \in 1 .. r.n : x \in 1 .. h \/ (x - h \in 1 .. o.n /\ x = (x - h) + h)
         /\ \A i, j \in 0 .. o.n + 1 : Blanks(o, i, j) <=> Blanks(r, i + h, j + h)
         /\ \A i \in 1 .. o.n : Led(o, i) => Led(r, i + h)
         /\ \A i \in 1 .. o.n : Followed(o, i) => Followed(r, i + h)
         /\ Done(o) => Done(r)
<1>1. /\ IsOutline(o) /\ IsOutline(r) /\ o.n \in Nat /\ r.n \in Nat /\ h \in Nat /\ r.n = o.n + h
      /\ o.opens \subseteq 1 .. o.n /\ o.closes \subseteq 1 .. o.n /\ Stands(o, r, 1, o.n, h)
      /\ \A i \in 1 .. o.n : SameAt(o, i, r, i + h)
  BY DEF Fronted, Stands, IsOutline
<1>2. \A x \in 1 .. r.n : x \in 1 .. h \/ (x - h \in 1 .. o.n /\ x = (x - h) + h)
  BY <1>1
<1>3. \A i \in 1 .. o.n : i + h \in 1 .. r.n
  BY <1>1
<1>4. \A i, j \in 0 .. o.n + 1 : Blanks(o, i, j) <=> Blanks(r, i + h, j + h)
  <2>1. \A i \in 0 .. o.n + 1 : i \in 1 - 1 .. o.n + 1
    BY <1>1
  <2> QED BY <1>1, <2>1, StandsBlanks
<1>5. \A i \in 1 .. o.n : Led(o, i) => Led(r, i + h)
  BY <1>1, StandsLed
<1>6. \A i \in 1 .. o.n : Followed(o, i) => Followed(r, i + h)
  BY <1>1, StandsFollowed
<1>7. Done(o) => Done(r)
  <2> SUFFICES ASSUME Done(o) PROVE Done(r)
    OBVIOUS
  <2>1. PICK m \in o.closes : Blanks(o, m, o.n + 1)
    BY DEF Done
  <2>2. m \in 1 .. o.n /\ m \in 0 .. o.n + 1 /\ o.n + 1 \in 0 .. o.n + 1
    BY <1>1
  <2>3. m + h \in r.closes /\ Blanks(r, m + h, (o.n + 1) + h)
    BY <1>1, <1>4, <2>1, <2>2 DEF SameAt
  <2>4. (o.n + 1) + h = r.n + 1
    BY <1>1
  <2> QED BY <2>3, <2>4 DEF Done
<1> QED BY <1>1, <1>2, <1>3, <1>4, <1>5, <1>6, <1>7

\* Blanks in front change nothing.
LEMMA BlankFront ==
  ASSUME NEW o, NEW r, NEW h, Fronted(o, r, h), \A i \in 1 .. h : r.type[i] \in Blank, Edged(o), Parted(o)
  PROVE  /\ Edged(r) /\ Parted(r)
         /\ Begun(o) => Begun(r)
         /\ Done(o) => Done(r)
<1>1. /\ o.n \in Nat /\ r.n \in Nat /\ h \in Nat /\ r.n = o.n + h
      /\ o.opens \subseteq 1 .. o.n
      /\ \A i \in 1 .. o.n : i + h \in 1 .. r.n /\ SameAt(o, i, r, i + h)
      /\ \A x \in 1 .. r.n : x \in 1 .. h \/ (x - h \in 1 .. o.n /\ x = (x - h) + h)
      /\ \A i, j \in 0 .. o.n + 1 : Blanks(o, i, j) <=> Blanks(r, i + h, j + h)
      /\ \A i \in 1 .. o.n : Led(o, i) => Led(r, i + h)
      /\ \A i \in 1 .. o.n : Followed(o, i) => Followed(r, i + h)
      /\ Done(o) => Done(r)
      /\ \A i \in 1 .. h : i \notin r.opens /\ i \notin r.closes
  BY FrontedIs DEF Fronted
<1>2. Blank \cap Separator = {}
  BY DEF Blank, Separator
<1>3. Edged(r)
  <2> SUFFICES ASSUME NEW x \in 1 .. r.n
               PROVE  (x \in r.opens \union r.closes) <=> (r.type[x] \notin Blank \union Separator)
    BY DEF Edged
  <2>1. CASE x \in 1 .. h
    BY <1>1, <2>1
  <2>2. CASE x - h \in 1 .. o.n /\ x = (x - h) + h
    <3>1. SameAt(o, x - h, r, x)
      BY <1>1, <2>2
    <3> QED BY <2>2, <3>1 DEF Edged, SameAt
  <2> QED BY <1>1, <2>1, <2>2
<1>4. Parted(r)
  <2> SUFFICES ASSUME NEW x \in 1 .. r.n, r.type[x] \in Separator PROVE Led(r, x) /\ Followed(r, x)
    BY DEF Parted
  <2>1. x \notin 1 .. h
    BY <1>2
  <2>2. x - h \in 1 .. o.n /\ x = (x - h) + h
    BY <1>1, <2>1
  <2>3. SameAt(o, x - h, r, x)
    BY <1>1, <2>2
  <2>4. Led(o, x - h) /\ Followed(o, x - h)
    BY <2>2, <2>3 DEF Parted, SameAt
  <2> QED BY <1>1, <2>2, <2>4
<1>5. ASSUME Begun(o) PROVE Begun(r)
  <2>1. PICK j \in o.opens : Blanks(o, 0, j)
    BY <1>5 DEF Begun
  <2>2. j \in 1 .. o.n /\ j \in 0 .. o.n + 1 /\ 0 \in 0 .. o.n + 1
    BY <1>1
  <2>3. j + h \in r.opens /\ Blanks(r, 0 + h, j + h)
    BY <1>1, <2>1, <2>2 DEF SameAt
  <2>4. Blanks(r, 0, j + h)
    <3> SUFFICES ASSUME NEW m \in 1 .. r.n, m < j + h PROVE r.type[m] \in Blank
      BY DEF Blanks
    <3>1. CASE m \in 1 .. h
      BY <3>1
    <3>2. CASE 0 + h < m
      BY <2>3, <3>2 DEF Blanks
    <3> QED BY <1>1, <3>1, <3>2
  <2> QED BY <2>3, <2>4 DEF Begun
<1> QED BY <1>1, <1>3, <1>4, <1>5

\* A comma and blanks in front.
LEMMA CommaFront ==
  ASSUME NEW o, NEW r, NEW h, Fronted(o, r, h), h >= 1, r.type[1] = "comma",
         \A i \in 2 .. h : r.type[i] \in Blank, Edged(o), Parted(o), Begun(o), Done(o)
  PROVE  Edged(r) /\ Leaning(r) /\ Done(r)
<1>1. /\ o.n \in Nat /\ r.n \in Nat /\ h \in Nat /\ r.n = o.n + h
      /\ o.opens \subseteq 1 .. o.n
      /\ \A i \in 1 .. o.n : i + h \in 1 .. r.n /\ SameAt(o, i, r, i + h)
      /\ \A x \in 1 .. r.n : x \in 1 .. h \/ (x - h \in 1 .. o.n /\ x = (x - h) + h)
      /\ \A i, j \in 0 .. o.n + 1 : Blanks(o, i, j) <=> Blanks(r, i + h, j + h)
      /\ \A i \in 1 .. o.n : Led(o, i) => Led(r, i + h)
      /\ \A i \in 1 .. o.n : Followed(o, i) => Followed(r, i + h)
      /\ Done(r)
      /\ \A i \in 1 .. h : i \notin r.opens /\ i \notin r.closes
  BY FrontedIs DEF Fronted
<1>2. Blank \cap Separator = {} /\ "comma" \in Separator /\ "comma" # "colon"
  BY DEF Blank, Separator
<1>3. \A i \in 1 .. h : i = 1 \/ i \in 2 .. h
  BY <1>1
<1>4. Edged(r)
  <2> SUFFICES ASSUME NEW x \in 1 .. r.n
               PROVE  (x \in r.opens \union r.closes) <=> (r.type[x] \notin Blank \union Separator)
    BY DEF Edged
  <2>1. CASE x \in 1 .. h
    BY <1>1, <1>2, <1>3, <2>1
  <2>2. CASE x - h \in 1 .. o.n /\ x = (x - h) + h
    <3>1. SameAt(o, x - h, r, x)
      BY <1>1, <2>2
    <3> QED BY <2>2, <3>1 DEF Edged, SameAt
  <2> QED BY <1>1, <2>1, <2>2
<1>5. Followed(r, 1)
  <2>1. PICK j \in o.opens : Blanks(o, 0, j)
    BY DEF Begun
  <2>2. j \in 1 .. o.n /\ j \in 0 .. o.n + 1 /\ 0 \in 0 .. o.n + 1
    BY <1>1
  <2>3. j + h \in r.opens /\ Blanks(r, 0 + h, j + h)
    BY <1>1, <2>1, <2>2 DEF SameAt
  <2>4. Blanks(r, 1, j + h)
    <3> SUFFICES ASSUME NEW m \in 1 .. r.n, 1 < m, m < j + h PROVE r.type[m] \in Blank
      BY DEF Blanks
    <3>1. CASE m \in 1 .. h
      BY <1>3, <3>1
    <3>2. CASE 0 + h < m
      BY <2>3, <3>2 DEF Blanks
    <3> QED BY <1>1, <3>1, <3>2
  <2>5. 1 < j + h
    BY <1>1, <2>2
  <2> QED BY <1>2, <2>3, <2>4, <2>5 DEF Followed
<1>6. Leaning(r)
  <2> SUFFICES ASSUME NEW x \in 1 .. r.n, r.type[x] \in Separator
               PROVE  (Led(r, x) \/ Blanks(r, 0, x)) /\ Followed(r, x)
    BY DEF Leaning
  <2>1. CASE x \in 1 .. h
    <3>1. x = 1
      BY <1>2, <1>3, <2>1
    <3>2. Blanks(r, 0, 1)
      BY <1>1 DEF Blanks
    <3> QED BY <1>5, <3>1, <3>2
  <2>2. CASE x - h \in 1 .. o.n /\ x = (x - h) + h
    <3>1. SameAt(o, x - h, r, x)
      BY <1>1, <2>2
    <3>2. Led(o, x - h) /\ Followed(o, x - h)
      BY <2>2, <3>1 DEF Parted, SameAt
    <3> QED BY <1>1, <2>2, <3>2
  <2> QED BY <1>1, <2>1, <2>2
<1> QED BY <1>1, <1>4, <1>6

-----------------------------------------------------------------------------
\* Tokens around a fragment begin and end no node.
LEMMA PaddedOutline ==
  ASSUME NEW f, Fragment(f), NEW g, NEW h, Padded(f, g, h), h + Len(f.tokens) <= Len(g.tokens)
  PROVE  LET r == OutlineOf(Fresh(g))
         IN  /\ Stands(OutlineOf(Fresh(f)), r, 1, Len(f.tokens), h) /\ h \in Nat
             /\ IsOutline(r) /\ r.n = Len(g.tokens) /\ r.n \in Nat
             /\ \A i \in 1 .. r.n : r.type[i] = g.tokens[i].type
             /\ \A i \in 1 .. r.n : ~(i - h \in 1 .. Len(f.tokens)) => i \notin r.opens /\ i \notin r.closes
<1> DEFINE r == OutlineOf(Fresh(g))
<1>1. /\ g.tokens \in Toks /\ g.nodes \in Seq(NodeRecord) /\ DOMAIN g.nodes = DOMAIN f.nodes
      /\ Carried(f, g, h, 0) /\ h \in Nat
  BY DEF Padded, Carried
<1>2. /\ f.tokens \in Toks /\ Len(f.tokens) \in Nat /\ DOMAIN f.tokens = 1 .. Len(f.tokens)
      /\ Len(f.nodes) \in Nat /\ DOMAIN f.nodes = 1 .. Len(f.nodes)
  BY DocumentIs DEF Fragment
<1>3. \A k \in DOMAIN g.nodes : k \in DOMAIN f.nodes /\ k = k + 0
  BY <1>1, <1>2
<1>4. Stands(OutlineOf(Fresh(f)), r, 1, Len(f.tokens), h)
  <2>1. \A k \in DOMAIN g.nodes : \E j \in DOMAIN f.nodes : k = j + 0
    BY <1>3
  <2> QED BY <1>1, <2>1, CarriedOutline
<1>5. /\ IsOutline(r) /\ r.n = Len(g.tokens) /\ Len(g.tokens) \in Nat /\ DOMAIN g.tokens = 1 .. Len(g.tokens)
      /\ \A i \in 1 .. Len(g.tokens) :
           /\ r.type[i] = g.tokens[i].type
           /\ i \in r.opens <=> OpensAt(g, i)
           /\ i \in r.closes <=> ClosesAt(g, i)
  BY <1>1, FreshOutline
<1> HIDE DEF r
<1>6. \A k \in DOMAIN g.nodes :
        /\ Begins(g, k) = Begins(f, k) + h /\ Begins(f, k) \in 1 .. Len(f.tokens)
        /\ Ends(g, k) = Ends(f, k) + h /\ Ends(f, k) \in 1 .. Len(f.tokens)
  BY <1>1, <1>2, <1>3, FragmentIs DEF Carried
<1>7. ASSUME NEW i \in 1 .. r.n, ~(i - h \in 1 .. Len(f.tokens))
      PROVE  ~OpensAt(g, i) /\ ~ClosesAt(g, i)
  <2>1. \A k \in DOMAIN g.nodes : Begins(g, k) # i /\ Ends(g, k) # i
    BY <1>1, <1>2, <1>6, <1>7
  <2> QED BY <2>1 DEF OpensAt, ClosesAt
<1> QED BY <1>1, <1>4, <1>5, <1>7 DEF r

\* What is between the first token of a field or element and its value: in a field
\* the key, the colon, and blanks.
Headed(g, h, dn) ==
  /\ dn = 1 => h = 1
  /\ dn = 2 => /\ h >= 3 /\ Loud(g.tokens[2]) /\ g.tokens[3].type = "colon"
               /\ \A e \in 4 .. h : g.tokens[e].type \in Blank

LEMMA WrapsNeat ==
  ASSUME NEW f, Fragment(f), Neat(f), NEW g, Fragment(g), NEW type, NEW h, NEW dn,
         Wraps(f, g, type, h, dn), Headed(g, h, dn)
  PROVE  Neat(g)
<1> DEFINE o == OutlineOf(Fresh(f))
           r == OutlineOf(Fresh(g))
           m == Len(f.tokens)
<1>1. /\ g.tokens \in Toks /\ h \in Nat /\ dn \in {1, 2} /\ dn <= h
      /\ Len(g.tokens) = h + m + 1 /\ Len(g.nodes) = dn + Len(f.nodes)
      /\ Carried(f, g, h, dn)
      /\ Begins(g, 1) = 1 /\ Ends(g, 1) = Len(g.tokens)
      /\ dn = 2 => Begins(g, 2) = 2 /\ Ends(g, 2) = 2
      /\ g.tokens[1] = Anchor /\ g.tokens[Len(g.tokens)] = Anchor
  BY DEF Wraps
<1>2. /\ f.tokens \in Toks /\ m \in Nat /\ DOMAIN f.tokens = 1 .. m
      /\ Len(f.nodes) \in Nat /\ DOMAIN f.nodes = 1 .. Len(f.nodes)
      /\ Len(g.nodes) \in Nat /\ DOMAIN g.nodes = 1 .. Len(g.nodes)
  BY DocumentIs DEF Fragment
<1>3. Edged(o) /\ Parted(o) /\ Begun(o)
  BY DEF Neat, Tidy
<1>4. /\ IsOutline(o) /\ o.n = m /\ o.opens \subseteq 1 .. m
  <2>1. IsOutline(o) /\ o.n = m
    BY <1>2, FreshOutline
  <2> QED BY <2>1 DEF IsOutline
<1>5. /\ IsOutline(r) /\ r.n = Len(g.tokens)
      /\ \A i \in 1 .. r.n :
           /\ r.type[i] = g.tokens[i].type
           /\ i \in r.opens <=> OpensAt(g, i)
           /\ i \in r.closes <=> ClosesAt(g, i)
  BY <1>1, FreshOutline
<1> HIDE DEF o, r, m
<1>6. r.n = h + m + 1 /\ r.n \in Nat /\ 1 \in 1 .. r.n /\ r.n \in 1 .. r.n /\ h \in 1 .. r.n
  BY <1>1, <1>2, <1>5
<1>7. \A k \in DOMAIN g.nodes :
        \/ k = 1 /\ Begins(g, k) = 1 /\ Ends(g, k) = r.n
        \/ k = 2 /\ dn = 2 /\ Begins(g, k) = 2 /\ Ends(g, k) = 2
        \/ \E j \in DOMAIN f.nodes : k = j + dn
  <2> SUFFICES ASSUME NEW k \in DOMAIN g.nodes, k # 1, ~(k = 2 /\ dn = 2)
               PROVE  \E j \in DOMAIN f.nodes : k = j + dn
    BY <1>1, <1>5
  <2>1. k \in 1 .. dn + Len(f.nodes) /\ dn \in {1, 2} /\ Len(f.nodes) \in Nat /\ DOMAIN f.nodes = 1 .. Len(f.nodes)
    BY <1>1, <1>2
  <2>2. k - dn \in 1 .. Len(f.nodes) /\ k = (k - dn) + dn
    BY <2>1
  <2> QED BY <2>1, <2>2
<1>8. \A j \in DOMAIN f.nodes :
        /\ Begins(g, j + dn) = Begins(f, j) + h /\ Begins(f, j) \in 1 .. m
        /\ Ends(g, j + dn) = Ends(f, j) + h /\ Ends(f, j) \in 1 .. m
  BY <1>1, <1>2, FragmentIs DEF Carried
<1>9. Stands(o, r, 1, m, h)
  <2>1. \A k \in DOMAIN g.nodes :
           \/ \E j \in DOMAIN f.nodes : k = j + dn
           \/ \A e \in DOMAIN f.tokens : Begins(g, k) # e + h /\ Ends(g, k) # e + h
    <3> SUFFICES ASSUME NEW k \in DOMAIN g.nodes, ~(\E j \in DOMAIN f.nodes : k = j + dn),
                        NEW e \in DOMAIN f.tokens
                 PROVE  Begins(g, k) # e + h /\ Ends(g, k) # e + h
      OBVIOUS
    <3>1. (Begins(g, k) = 1 \/ (Begins(g, k) = 2 /\ dn = 2)) /\ (Ends(g, k) = r.n \/ (Ends(g, k) = 2 /\ dn = 2))
      BY <1>7
    <3> QED BY <1>1, <1>2, <1>6, <3>1
  <2>2. h + m <= Len(g.tokens)
    BY <1>1, <1>2
  <2> QED BY <1>1, <2>1, <2>2, CarriedOutline DEF o, r, m
<1>10. \A x \in 1 .. r.n : x = 1 \/ x = r.n \/ x \in 2 .. h \/ (x - h \in 1 .. m /\ x = (x - h) + h)
  BY <1>1, <1>2, <1>6
<1>11. 1 \in r.opens /\ r.n \in r.closes /\ (dn = 2 => 2 \in r.opens /\ 2 \in r.closes)
  <2>1. 1 \in DOMAIN g.nodes /\ (dn = 2 => 2 \in DOMAIN g.nodes)
    BY <1>1, <1>2
  <2>2. dn = 2 => 2 \in 1 .. r.n
    BY <1>1, <1>6
  <2> QED BY <1>1, <1>5, <1>6, <2>1, <2>2 DEF OpensAt, ClosesAt
<1>12. ASSUME NEW x \in 3 .. h PROVE x \notin r.opens /\ x \notin r.closes
  <2>1. x \in 1 .. r.n /\ x # 1 /\ x # 2 /\ x # r.n /\ \A y \in 1 .. m : y + h # x
    BY <1>1, <1>2, <1>6
  <2>2. \A k \in DOMAIN g.nodes : Begins(g, k) # x /\ Ends(g, k) # x
    BY <1>7, <1>8, <2>1
  <2> QED BY <1>5, <2>1, <2>2 DEF OpensAt, ClosesAt
<1>13. /\ r.type[1] \notin Blank \union Separator /\ r.type[r.n] \notin Blank \union Separator
       /\ dn = 1 => h = 1
       /\ dn = 2 => /\ h >= 3 /\ r.type[2] \notin Blank \union Separator /\ r.type[3] = "colon"
                    /\ \A e \in 4 .. h : r.type[e] \in Blank
  <2>1. \A e \in 1 .. h : e \in 1 .. r.n
    BY <1>1, <1>2, <1>6
  <2>2. dn = 2 => 2 \in 1 .. h /\ 3 \in 1 .. h /\ \A e \in 4 .. h : e \in 1 .. h
    BY <1>1 DEF Headed
  <2>3. r.type[1] \notin Blank \union Separator /\ r.type[r.n] \notin Blank \union Separator
    BY <1>1, <1>5, <1>6, LoudTokens DEF Loud
  <2>4. dn = 1 => h = 1
    BY DEF Headed
  <2>5. ASSUME dn = 2
        PROVE  /\ h >= 3 /\ r.type[2] \notin Blank \union Separator /\ r.type[3] = "colon"
               /\ \A e \in 4 .. h : r.type[e] \in Blank
    <3>1. /\ h >= 3 /\ g.tokens[2].type \notin Blank \union Separator /\ g.tokens[3].type = "colon"
          /\ \A e \in 4 .. h : g.tokens[e].type \in Blank
      BY <2>5 DEF Headed, Loud
    <3>2. 2 \in 1 .. r.n /\ 3 \in 1 .. r.n /\ \A e \in 4 .. h : e \in 1 .. r.n
      BY <2>1, <2>2, <2>5
    <3> QED BY <1>5, <3>1, <3>2
  <2> QED BY <2>3, <2>4, <2>5
<1>14. Edged(r)
  <2> SUFFICES ASSUME NEW x \in 1 .. r.n
               PROVE  (x \in r.opens \union r.closes) <=> (r.type[x] \notin Blank \union Separator)
    BY DEF Edged
  <2>1. CASE x = 1 \/ x = r.n
    BY <1>11, <1>13, <2>1
  <2>2. CASE x \in 2 .. h
    <3>1. dn = 2 /\ (x = 2 \/ x \in 3 .. h)
      BY <1>1, <1>13, <2>2
    <3>2. CASE x = 2
      BY <1>11, <1>13, <3>1, <3>2
    <3>3. CASE x \in 3 .. h
      <4>1. x = 3 \/ x \in 4 .. h
        BY <3>3
      <4>2. r.type[x] \in Blank \union Separator
        BY <1>13, <3>1, <4>1 DEF Separator
      <4> QED BY <1>12, <3>3, <4>2
    <3> QED BY <3>1, <3>2, <3>3
  <2>3. CASE x - h \in 1 .. m /\ x = (x - h) + h
    <3>1. SameAt(o, x - h, r, x)
      BY <1>9, <2>3 DEF Stands
    <3> QED BY <1>3, <1>4, <2>3, <3>1 DEF Edged, SameAt
  <2> QED BY <1>10, <2>1, <2>2, <2>3
<1>15. Parted(r)
  <2> SUFFICES ASSUME NEW x \in 1 .. r.n, r.type[x] \in Separator PROVE Led(r, x) /\ Followed(r, x)
    BY DEF Parted
  <2>1. x # 1 /\ x # r.n
    BY <1>13
  <2>2. CASE x \in 2 .. h
    <3>1. dn = 2 /\ (x = 2 \/ x = 3 \/ x \in 4 .. h)
      BY <1>1, <1>13, <2>2
    <3>2. Blank \cap Separator = {}
      BY DEF Blank, Separator
    <3>3. x = 3
      BY <1>13, <3>1, <3>2
    <3>4. Led(r, 3)
      <4>1. Blanks(r, 2, 3)
        BY <1>6 DEF Blanks
      <4> QED BY <1>11, <3>1, <4>1 DEF Led
    <3>5. PICK j \in o.opens : Blanks(o, 0, j)
      BY <1>3 DEF Begun
    <3>6. j \in 1 .. m /\ 0 \in 1 - 1 .. m + 1 /\ j \in 1 - 1 .. m + 1 /\ 3 < j + h
      BY <1>1, <1>2, <1>4, <1>13, <3>1
    <3>7. j + h \in r.opens /\ Blanks(r, 0 + h, j + h)
      <4>1. SameAt(o, j, r, j + h)
        BY <1>9, <3>6 DEF Stands
      <4>2. Blanks(r, 0 + h, j + h)
        BY <1>9, <3>5, <3>6, StandsBlanks
      <4> QED BY <3>5, <4>1, <4>2 DEF SameAt
    <3>8. Blanks(r, 3, j + h)
      <4> SUFFICES ASSUME NEW i \in 1 .. r.n, 3 < i, i < j + h PROVE r.type[i] \in Blank
        BY DEF Blanks
      <4>1. i \in 4 .. h \/ 0 + h < i
        BY <1>1, <1>6
      <4> QED BY <1>13, <3>1, <3>7, <4>1 DEF Blanks
    <3> QED BY <3>3, <3>4, <3>6, <3>7, <3>8 DEF Followed
  <2>3. CASE x - h \in 1 .. m /\ x = (x - h) + h
    <3>1. SameAt(o, x - h, r, x)
      BY <1>9, <2>3 DEF Stands
    <3>2. Led(o, x - h) /\ Followed(o, x - h)
      BY <1>3, <1>4, <2>3, <3>1 DEF Parted, SameAt
    <3>3. Led(r, (x - h) + h)
      BY <1>9, <2>3, <3>2, StandsLed
    <3>4. ~(m < o.n)
      BY <1>2, <1>4
    <3>5. Followed(r, (x - h) + h)
      BY <1>9, <2>3, <3>2, <3>4, StandsFollowed
    <3> QED BY <2>3, <3>3, <3>5
  <2> QED BY <1>10, <2>1, <2>2, <2>3
<1>16. Begun(r) /\ Done(r)
  <2>1. Blanks(r, 0, 1) /\ Blanks(r, r.n, r.n + 1)
    BY <1>6 DEF Blanks
  <2> QED BY <1>11, <2>1 DEF Begun, Done
<1>17. Voiced(Fresh(g))
  BY <1>14, EdgedVoiced DEF r
<1> QED BY <1>14, <1>15, <1>16, <1>17 DEF Neat, Tidy, r

=============================================================================
