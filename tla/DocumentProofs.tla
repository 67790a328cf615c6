--------------------------- MODULE DocumentProofs ---------------------------
(***************************************************************************)
(* Document, for every value of its constants: every call leaves a         *)
(* document that is WellFormed (DocumentTrees), so that TypeOK and         *)
(* AnchorsMatch hold at all times, and leaves the nodes alone that it is   *)
(* not about, OthersUntouched, and the comments that do not go with what   *)
(* it removes, CommentsKept.  The document stays Tidy, so that every       *)
(* comment is next to a node that reports it: EveryCommentFound.           *)
(***************************************************************************)
EXTENDS DocumentTrees

-----------------------------------------------------------------------------
(***************************************************************************)
(* The fragments that the methods make out of a value.                     *)
(***************************************************************************)
Plain == {ts \in Toks : \A e \in DOMAIN ts : ts[e] # Anchor}

\* Blank tokens.
Margin == {ts \in Toks : \A e \in DOMAIN ts : ts[e].type \in Blank}

LEMMA MarginPlain ==
  ASSUME NEW ts \in Margin
  PROVE  ts \in Plain
<1>1. Anchor.type \notin Blank
  BY DEF Anchor, Blank
<1> HIDE DEF Toks
<1> QED BY <1>1 DEF Margin, Plain

LEMMA PunctuationTypes == TokenType(",") = "comma" /\ TokenType(":") = "colon"
<1>1. TokenType(",") = "comma"
  BY PunctuationAssumption, Zenon DEF TokenType, Punctuation, Keyword
<1>2. TokenType(":") = "colon"
  BY PunctuationAssumption, Zenon DEF TokenType, Punctuation, Keyword
<1> QED BY <1>1, <1>2

LEMMA CarrierIs ==
  ASSUME NEW f \in Carrier
  PROVE  /\ f.ok \in BOOLEAN /\ f.tokens \in Toks /\ f.nodes \in Seq(NodeRecord)
         /\ Len(f.tokens) \in Nat /\ DOMAIN f.tokens = 1 .. Len(f.tokens)
         /\ Len(f.nodes) \in Nat /\ DOMAIN f.nodes = 1 .. Len(f.nodes)
<1>1. f.ok \in BOOLEAN /\ f.tokens \in Toks /\ f.nodes \in Seq(NodeRecord)
  BY Zenon DEF Carrier
<1> QED BY <1>1, DocumentIs

\* Both parts of a fragment as Prefixed makes them.
Heads(g, f, ts) ==
  /\ g \in Carrier /\ g.ok = f.ok
  /\ Joins(Tok, g.tokens, ts, f.tokens) /\ Shifts(g.nodes, f.nodes, Len(ts), 0)

LEMMA PrefixedIs ==
  ASSUME NEW f \in Carrier, NEW ts \in Toks
  PROVE  Heads(Prefixed(ts, f), f, ts)
<1> DEFINE g == Prefixed(ts, f)
           x == ts \o f.tokens
           s == Shift(f.nodes, Len(ts), 0)
<1>1. f.ok \in BOOLEAN /\ f.tokens \in Toks /\ f.nodes \in Seq(NodeRecord)
  BY CarrierIs
<1>2. Len(ts) \in Nat /\ 0 \in Nat
  BY DEF Toks
<1>3. Shifts(s, f.nodes, Len(ts), 0)
  BY <1>1, <1>2, ShiftIs
<1>4. Joins(Tok, x, ts, f.tokens)
  BY <1>1, ConcatOf DEF Toks
<1>5. x \in Toks /\ s \in Seq(NodeRecord)
  BY <1>3, <1>4 DEF Joins, Shifts, Toks
<1> HIDE DEF x, s
<1>6. g.ok = f.ok /\ g.tokens = x /\ g.nodes = s
  <2>1. g = [f EXCEPT !.tokens = x, !.nodes = s]
    BY DEF Prefixed, x, s
  <2> HIDE DEF g
  <2> QED BY <2>1 DEF Carrier
<1>7. g \in Carrier
  <2>1. g = [f EXCEPT !.tokens = x, !.nodes = s]
    BY DEF Prefixed, x, s
  <2> HIDE DEF g
  <2> QED BY <1>1, <1>5, <2>1 DEF Carrier
<1> HIDE DEF g
<1>8. Heads(g, f, ts)
  BY <1>3, <1>4, <1>6, <1>7 DEF Heads
<1> QED BY <1>8 DEF g

\* Tokens in front of a fragment, plain ones, only move it.
LEMMA HeadsPad ==
  ASSUME NEW f \in Carrier, NEW ts \in Plain, NEW g, Heads(g, f, ts)
  PROVE  Padded(f, g, Len(ts))
<1> DEFINE h == Len(ts)
           M == Len(f.nodes)
           k == Len(f.tokens)
<1>1. /\ ts \in Toks /\ h \in Nat /\ DOMAIN ts = 1 .. h
      /\ \A e \in 1 .. h : ts[e] # Anchor
  BY DEF Plain, Toks
<1>2. /\ M \in Nat /\ DOMAIN f.nodes = 1 .. M /\ k \in Nat /\ DOMAIN f.tokens = 1 .. k
  BY CarrierIs
<1>3. /\ g.tokens \in Toks /\ g.nodes \in Seq(NodeRecord)
      /\ DOMAIN g.tokens = 1 .. h + k /\ DOMAIN g.nodes = 1 .. M
  <2>1. g \in Carrier
    BY DEF Heads
  <2>2. Len(g.nodes) = M
    BY DEF Heads, Shifts
  <2>3. DOMAIN g.tokens = 1 .. h + k
    BY DEF Heads, Joins
  <2> QED BY <2>1, <2>2, <2>3, CarrierIs
<1>4. /\ \A e \in 1 .. h : g.tokens[e] = ts[e]
      /\ \A e \in 1 .. k : g.tokens[h + e] = f.tokens[e]
  BY DEF Heads, Joins
<1>5. \A j \in 1 .. M :
        /\ Kind(g, j) = Kind(f, j)
        /\ Begins(g, j) = Begins(f, j) + h /\ Ends(g, j) = Ends(f, j) + h
        /\ Kids(g, j) = [i \in DOMAIN Kids(f, j) |-> Kids(f, j)[i] + 0]
  BY DEF Heads, Shifts, Kind, Begins, Ends, Kids
<1> HIDE DEF h, M, k
<1>6. Carried(f, g, h, 0)
  <2>1. \A j \in 1 .. M : j + 0 = j
    BY <1>2
  <2>2. \A e \in 1 .. k : e + h \in 1 .. h + k /\ e + h = h + e
    BY <1>1, <1>2
  <2>3. \A e \in 1 .. k : e + h \in 1 .. h + k /\ g.tokens[e + h] = f.tokens[e]
    BY <1>4, <2>2
  <2>4. \A j \in 1 .. M :
          /\ j + 0 \in 1 .. M /\ Kind(g, j + 0) = Kind(f, j)
          /\ Begins(g, j + 0) = Begins(f, j) + h /\ Ends(g, j + 0) = Ends(f, j) + h
          /\ Kids(g, j + 0) = [i \in DOMAIN Kids(f, j) |-> Kids(f, j)[i] + 0]
    BY <1>5, <2>1
  <2> QED BY <1>1, <1>2, <1>3, <2>3, <2>4 DEF Carried
<1>7. ASSUME NEW e \in 1 .. h + k, g.tokens[e] = Anchor PROVE e - h \in 1 .. k
  <2>1. e \notin 1 .. h
    BY <1>1, <1>4, <1>7
  <2> QED BY <1>1, <1>2, <2>1
<1>8. Padded(f, g, h)
  BY <1>2, <1>3, <1>6, <1>7 DEF Padded
<1> QED BY <1>8 DEF h

\* A field or an element that is in no document yet.
PartOf(f, type) ==
  f \in Carrier /\ Fragment(f) /\ f.nodes # <<>> /\ Kind(f, 1) = type

LEMMA PaddedPart ==
  ASSUME NEW f, NEW type, PartOf(f, type), NEW g \in Carrier, NEW h, Padded(f, g, h)
  PROVE  PartOf(g, type)
<1>1. Fragment(g) /\ \A k \in DOMAIN f.nodes : Kind(g, k) = Kind(f, k)
  BY PaddedKeeps DEF PartOf
<1>2. f.nodes \in Seq(NodeRecord) /\ f.nodes # <<>> /\ g.nodes \in Seq(NodeRecord)
      /\ DOMAIN g.nodes = DOMAIN f.nodes
  BY CarrierIs DEF PartOf, Padded
<1>3. 1 \in DOMAIN f.nodes /\ g.nodes # <<>>
  <2> HIDE DEF NodeRecord
  <2> QED BY <1>2
<1> QED BY <1>1, <1>3 DEF PartOf

LEMMA CommaIs == Comma \in Tok /\ Comma # Anchor
<1>1. "," \in AnyLexeme
  BY DEF AnyLexeme, Punctuation
<1>2. Token(",") \in LexTok
  BY <1>1, TokenIs
<1>3. Token(",") \in Tok /\ Token(",") # Anchor
  BY <1>2, LexTokNoAnchor
<1> QED BY <1>3 DEF Comma

LEMMA CommaPads ==
  ASSUME NEW f \in Carrier
  PROVE  LET g == [f EXCEPT !.tokens = Append(@, Comma)]
         IN  /\ g \in Carrier /\ g.ok = f.ok /\ Padded(f, g, 0)
             /\ Len(g.tokens) = Len(f.tokens) + 1 /\ g.tokens[Len(f.tokens) + 1] = Comma
<1> DEFINE x == Append(f.tokens, Comma)
           g == [f EXCEPT !.tokens = x]
           k == Len(f.tokens)
<1>1. f.ok \in BOOLEAN /\ f.tokens \in Toks /\ f.nodes \in Seq(NodeRecord) /\ k \in Nat /\ DOMAIN f.tokens = 1 .. k
  BY CarrierIs
<1>2. Comma \in Tok /\ Comma # Anchor
  BY CommaIs
<1>3. x \in Toks /\ Len(x) = k + 1 /\ DOMAIN x = 1 .. k + 1 /\ \A e \in 1 .. k : x[e] = f.tokens[e]
  <2> HIDE DEF Tok
  <2> QED BY <1>1, <1>2 DEF Toks
<1>4. x[k + 1] = Comma
  <2> HIDE DEF Tok
  <2> QED BY <1>1, <1>2 DEF Toks
<1> HIDE DEF x
<1>5. g \in Carrier /\ g.ok = f.ok /\ g.tokens = x /\ g.nodes = f.nodes
  BY <1>1, <1>3 DEF Carrier
<1> HIDE DEF g
<1>6. \A j \in DOMAIN f.nodes :
        /\ j + 0 = j
        /\ Begins(f, j) + 0 = Begins(f, j) /\ Ends(f, j) + 0 = Ends(f, j)
        /\ Kids(f, j) = [i \in DOMAIN Kids(f, j) |-> Kids(f, j)[i] + 0]
  <2> SUFFICES ASSUME NEW j \in DOMAIN f.nodes
               PROVE  /\ j + 0 = j
                      /\ Begins(f, j) + 0 = Begins(f, j) /\ Ends(f, j) + 0 = Ends(f, j)
                      /\ Kids(f, j) = [i \in DOMAIN Kids(f, j) |-> Kids(f, j)[i] + 0]
    OBVIOUS
  <2>1. /\ j \in Nat /\ Begins(f, j) \in Nat /\ Ends(f, j) \in Nat /\ Kids(f, j) \in Seq(Nat)
        /\ DOMAIN f.nodes = 1 .. Len(f.nodes) /\ Len(f.nodes) \in Nat
    BY <1>1, DocumentIs
  <2>2. \A i \in DOMAIN Kids(f, j) : Kids(f, j)[i] + 0 = Kids(f, j)[i]
    BY <2>1
  <2>3. Kids(f, j) = [i \in DOMAIN Kids(f, j) |-> Kids(f, j)[i]]
    BY <2>1
  <2>4. [i \in DOMAIN Kids(f, j) |-> Kids(f, j)[i]] = [i \in DOMAIN Kids(f, j) |-> Kids(f, j)[i] + 0]
    BY <2>2, Zenon
  <2>5. Kids(f, j) = [i \in DOMAIN Kids(f, j) |-> Kids(f, j)[i] + 0]
    BY <2>3, <2>4, Zenon
  <2> QED BY <2>1, <2>5
<1>7. \A j \in DOMAIN f.nodes :
        Kind(g, j) = Kind(f, j) /\ Begins(g, j) = Begins(f, j) /\ Ends(g, j) = Ends(f, j) /\ Kids(g, j) = Kids(f, j)
  BY <1>5 DEF Kind, Begins, Ends, Kids
<1>8. Carried(f, g, 0, 0)
  <2>1. \A e \in 1 .. k : e + 0 = e /\ e \in 1 .. k + 1
    BY <1>1
  <2>2. \A e \in DOMAIN f.tokens : e + 0 \in DOMAIN g.tokens /\ g.tokens[e + 0] = f.tokens[e]
    BY <1>1, <1>3, <1>5, <2>1
  <2>3. \A j \in DOMAIN f.nodes :
          /\ j + 0 \in DOMAIN g.nodes /\ Kind(g, j + 0) = Kind(f, j)
          /\ Begins(g, j + 0) = Begins(f, j) + 0 /\ Ends(g, j + 0) = Ends(f, j) + 0
          /\ Kids(g, j + 0) = [i \in DOMAIN Kids(f, j) |-> Kids(f, j)[i] + 0]
    BY <1>5, <1>6, <1>7
  <2>4. 0 \in Nat
    OBVIOUS
  <2> QED BY <2>2, <2>3, <2>4 DEF Carried
<1>9. ASSUME NEW e \in DOMAIN g.tokens, g.tokens[e] = Anchor PROVE e - 0 \in DOMAIN f.tokens
  <2>1. e \in 1 .. k + 1 /\ e # k + 1
    BY <1>2, <1>3, <1>4, <1>5, <1>9
  <2> QED BY <1>1, <2>1
<1>10. Padded(f, g, 0)
  BY <1>1, <1>3, <1>5, <1>8, <1>9 DEF Padded
<1> QED BY <1>3, <1>4, <1>5, <1>10 DEF g, x

\* The outline with tokens in front, and with a comma behind.
LEMMA HeadsFront ==
  ASSUME NEW f \in Carrier, Fragment(f), NEW ts \in Plain, NEW g, Heads(g, f, ts)
  PROVE  LET r == OutlineOf(Fresh(g))
         IN  /\ Fronted(OutlineOf(Fresh(f)), r, Len(ts))
             /\ \A i \in 1 .. Len(ts) : r.type[i] = ts[i].type
<1> DEFINE o == OutlineOf(Fresh(f))
           r == OutlineOf(Fresh(g))
           h == Len(ts)
           k == Len(f.tokens)
<1>1. Padded(f, g, h)
  BY HeadsPad
<1>2. h \in Nat /\ k \in Nat /\ Len(g.tokens) = h + k /\ \A i \in 1 .. h : g.tokens[i] = ts[i]
  BY DEF Heads, Joins
<1>3. o.n = k
  <2>1. f.tokens \in Toks
    BY CarrierIs
  <2> QED BY <2>1, FreshOutline
<1> HIDE DEF o, h, k
<1>4. /\ Stands(o, r, 1, k, h)
      /\ r.n = h + k
      /\ \A i \in 1 .. r.n : r.type[i] = g.tokens[i].type
      /\ \A i \in 1 .. r.n : ~(i - h \in 1 .. k) => i \notin r.opens /\ i \notin r.closes
  <2>1. h + k <= Len(g.tokens)
    BY <1>2
  <2> QED BY <1>1, <1>2, <2>1, PaddedOutline DEF o, k
<1> HIDE DEF r
<1>5. \A i \in 1 .. h : i \in 1 .. r.n /\ ~(i - h \in 1 .. k)
  BY <1>2, <1>4
<1>6. r.n = o.n + h
  BY <1>2, <1>3, <1>4
<1>7. Fronted(o, r, h)
  BY <1>2, <1>3, <1>4, <1>5, <1>6 DEF Fronted
<1> QED BY <1>2, <1>4, <1>5, <1>7 DEF o, r, h

LEMMA CommaBehind ==
  ASSUME NEW f \in Carrier, Fragment(f)
  PROVE  LET o == OutlineOf(Fresh(f))
             r == OutlineOf(Fresh([f EXCEPT !.tokens = Append(@, Comma)]))
         IN  Longer(o, r) /\ r.type[r.n] = "comma"
<1> DEFINE g == [f EXCEPT !.tokens = Append(@, Comma)]
           o == OutlineOf(Fresh(f))
           r == OutlineOf(Fresh(g))
           k == Len(f.tokens)
<1>1. Padded(f, g, 0) /\ Len(g.tokens) = k + 1 /\ g.tokens[k + 1] = Comma /\ k \in Nat /\ f.tokens \in Toks
  BY CommaPads, CarrierIs
<1> HIDE DEF g
<1>2. IsOutline(o) /\ o.n = k
  BY <1>1, FreshOutline
<1> HIDE DEF o
<1>3. /\ Stands(o, r, 1, k, 0) /\ IsOutline(r)
      /\ r.n = k + 1
      /\ \A i \in 1 .. r.n : r.type[i] = g.tokens[i].type
      /\ \A i \in 1 .. r.n : ~(i - 0 \in 1 .. k) => i \notin r.opens /\ i \notin r.closes
  <2>1. 0 + k <= Len(g.tokens)
    BY <1>1
  <2> QED BY <1>1, <2>1, PaddedOutline DEF o, k
<1> HIDE DEF r, k
<1>4. r.type[r.n] = "comma" /\ r.n \notin r.opens /\ r.n \notin r.closes
  <2>1. r.n \in 1 .. r.n /\ ~(r.n - 0 \in 1 .. k)
    BY <1>1, <1>3
  <2>2. Comma.type = "comma"
    BY PunctuationTypes DEF Comma, Token
  <2> QED BY <1>1, <1>3, <2>1, <2>2
<1>5. \A i \in 1 .. o.n : SameAt(o, i, r, i)
  <2>1. \A i \in 1 .. k : i + 0 = i
    BY <1>1
  <2> QED BY <1>2, <1>3, <2>1 DEF Stands
<1>6. Longer(o, r)
  BY <1>2, <1>3, <1>4, <1>5 DEF Longer, SameAt, Separator
<1> QED BY <1>4, <1>6 DEF g, o, r

\* The node at the head of a field or element, and the key of a field.
HeadNode(type, e, dn) ==
  [type |-> type, start |-> 1, end |-> e, children |-> [k \in 1 .. dn |-> k + 1]]
KeyLeaf == [type |-> "string", start |-> 2, end |-> 2, children |-> <<>>]

IsHead(x, type, e, dn) ==
  /\ x \in NodeRecord /\ x.type = type /\ x.start = 1 /\ x.end = e
  /\ Len(x.children) = dn /\ \A i \in 1 .. dn : x.children[i] = i + 1

LEMMA HeadNodeIs ==
  ASSUME NEW type \in WrapperType, NEW e \in Nat, NEW dn \in Nat
  PROVE  IsHead(HeadNode(type, e, dn), type, e, dn)
<1> DEFINE c == [k \in 1 .. dn |-> k + 1]
<1>1. c \in [1 .. dn -> Nat] /\ \A i \in 1 .. dn : c[i] = i + 1
  OBVIOUS
<1> HIDE DEF c
<1>2. c \in Seq(Nat) /\ Len(c) = dn
  BY <1>1, FunctionIsSeq
<1>3. type \in NodeType
  BY DEF NodeType
<1>4. HeadNode(type, e, dn) = [type |-> type, start |-> 1, end |-> e, children |-> c]
  BY DEF HeadNode, c
<1> QED BY <1>1, <1>2, <1>3, <1>4 DEF NodeRecord, IsHead

LEMMA KeyLeafIs ==
  /\ KeyLeaf \in NodeRecord /\ KeyLeaf.type = "string"
  /\ KeyLeaf.start = 2 /\ KeyLeaf.end = 2 /\ KeyLeaf.children = <<>>
BY DEF KeyLeaf, NodeRecord, NodeType

LEMMA TwoShifts ==
  ASSUME NEW ns \in Seq(NodeRecord), NEW s, NEW r, NEW dt \in Nat, NEW dn \in Nat,
         Shifts(s, ns, dt, 0), Shifts(r, s, 0, dn)
  PROVE  Shifts(r, ns, dt, dn)
<1> DEFINE M == Len(ns)
<1>1. /\ M \in Nat /\ DOMAIN ns = 1 .. M
      /\ \A j \in 1 .. M : /\ ns[j].start \in Nat /\ ns[j].end \in Nat /\ ns[j].children \in Seq(Nat)
  <2>1. M \in Nat /\ DOMAIN ns = 1 .. M /\ \A j \in 1 .. M : ns[j] \in NodeRecord
    <3> HIDE DEF NodeRecord
    <3> QED OBVIOUS
  <2>2. \A x \in NodeRecord : x.start \in Nat /\ x.end \in Nat /\ x.children \in Seq(Nat)
    BY DEF NodeRecord
  <2> QED BY <2>1, <2>2
<1>2. /\ r \in Seq(NodeRecord) /\ Len(s) = M /\ Len(r) = M
  BY DEF Shifts
<1>3. \A j \in 1 .. M :
        /\ s[j].type = ns[j].type /\ s[j].start = ns[j].start + dt /\ s[j].end = ns[j].end + dt
        /\ s[j].children = [i \in DOMAIN ns[j].children |-> ns[j].children[i] + 0]
  BY DEF Shifts
<1>4. \A j \in 1 .. M :
        /\ r[j].type = s[j].type /\ r[j].start = s[j].start + 0 /\ r[j].end = s[j].end + 0
        /\ r[j].children = [i \in DOMAIN s[j].children |-> s[j].children[i] + dn]
  BY <1>2 DEF Shifts
<1> HIDE DEF M
<1>5. ASSUME NEW j \in 1 .. M
      PROVE  /\ r[j].type = ns[j].type /\ r[j].start = ns[j].start + dt /\ r[j].end = ns[j].end + dt
             /\ r[j].children = [i \in DOMAIN ns[j].children |-> ns[j].children[i] + dn]
  <2> DEFINE x == ns[j].children
             y == s[j].children
  <2>1. x \in Seq(Nat)
    BY <1>1
  <2>2. y = [i \in DOMAIN x |-> x[i] + 0]
    BY <1>3
  <2>3. r[j].children = [i \in DOMAIN y |-> y[i] + dn]
    BY <1>4
  <2> HIDE DEF x, y
  <2>4. DOMAIN y = DOMAIN x /\ \A i \in DOMAIN x : y[i] = x[i]
    BY <2>1, <2>2
  <2>5. [i \in DOMAIN y |-> y[i] + dn] = [i \in DOMAIN x |-> x[i] + dn]
    BY <2>4, Zenon
  <2>6. r[j].children = [i \in DOMAIN x |-> x[i] + dn]
    BY <2>3, <2>5, Zenon
  <2>7. ns[j].start + dt + 0 = ns[j].start + dt /\ ns[j].end + dt + 0 = ns[j].end + dt
    BY <1>1
  <2>8. r[j].type = ns[j].type /\ r[j].start = ns[j].start + dt /\ r[j].end = ns[j].end + dt
    BY <1>3, <1>4, <2>7
  <2> QED BY <2>6, <2>8 DEF x
<1>6. M = Len(ns)
  BY DEF M
<1> QED BY <1>1, <1>2, <1>5, <1>6 DEF Shifts

\* What goes in front of the value of an element, and of a field.
Fronts(type, ts, ns) ==
  \/ type = "element" /\ ns = <<>>
  \/ type = "field" /\ ns = <<KeyLeaf>> /\ ts # <<>>

\* ts follows the first token.
LedBy(g, ts) == \A e \in 1 .. Len(ts) : g.tokens[e + 1] = ts[e]

LEMMA WrapperIs ==
  ASSUME NEW f \in Carrier, NEW type, NEW ts \in Plain, NEW ns, Fronts(type, ts, ns)
  PROVE  LET g == Wrapper(type, f, ts, ns)
         IN  /\ g \in Carrier /\ g.ok = f.ok /\ Wraps(f, g, type, Len(ts) + 1, Len(ns) + 1)
             /\ LedBy(g, ts)
<1> DEFINE h == Len(ts) + 1
           dn == Len(ns) + 1
           k == Len(f.tokens)
           M == Len(f.nodes)
           at == <<Anchor>> \o ts
           inner == Prefixed(at, f)
           x == Append(inner.tokens, Anchor)
           head == HeadNode(type, Len(inner.tokens) + 1, dn)
           front == <<head>> \o ns
           mid == Shift(inner.nodes, 0, dn)
           all == front \o mid
           g == [f EXCEPT !.tokens = x, !.nodes = all]
<1>1. /\ type \in WrapperType /\ ns \in Seq(NodeRecord) /\ dn \in Nat /\ Len(ns) \in Nat
      /\ \/ type = "element" /\ dn = 1
         \/ type = "field" /\ dn = 2 /\ ns[1] = KeyLeaf /\ ts # <<>>
  <2>1. CASE type = "element" /\ ns = <<>>
    <3> HIDE DEF NodeRecord
    <3> QED BY <2>1 DEF WrapperType
  <2>2. CASE type = "field" /\ ns = <<KeyLeaf>> /\ ts # <<>>
    <3>1. KeyLeaf \in NodeRecord
      BY KeyLeafIs
    <3> HIDE DEF NodeRecord
    <3> QED BY <2>2, <3>1 DEF WrapperType
  <2> QED BY <2>1, <2>2 DEF Fronts
<1>2. ts \in Toks /\ Len(ts) \in Nat /\ DOMAIN ts = 1 .. Len(ts) /\ \A e \in 1 .. Len(ts) : ts[e] # Anchor
  BY DEF Plain, Toks
<1>3. h \in Nat /\ dn <= h /\ (dn = 1 \/ dn = 2)
  <2>1. ts # <<>> => Len(ts) >= 1
    <3> HIDE DEF Tok
    <3> QED BY <1>2 DEF Toks
  <2> QED BY <1>1, <1>2, <2>1
<1>4. k \in Nat /\ DOMAIN f.tokens = 1 .. k /\ M \in Nat /\ DOMAIN f.nodes = 1 .. M /\ f.nodes \in Seq(NodeRecord)
  BY CarrierIs
<1>5. at \in Toks /\ Len(at) = h /\ at[1] = Anchor /\ \A e \in 1 .. Len(ts) : at[e + 1] = ts[e]
  <2>1. Anchor \in Tok
    BY AnchorIs
  <2> HIDE DEF Tok
  <2>2. <<Anchor>> \in Seq(Tok) /\ Len(<<Anchor>>) = 1 /\ <<Anchor>>[1] = Anchor
    BY <2>1
  <2>3. Joins(Tok, at, <<Anchor>>, ts)
    BY <1>2, <2>2, ConcatOf DEF Toks
  <2> HIDE DEF at
  <2>4. at \in Seq(Tok) /\ Len(at) = 1 + Len(ts) /\ at[1] = Anchor /\ \A e \in 1 .. Len(ts) : at[1 + e] = ts[e]
    BY <2>2, <2>3 DEF Joins
  <2>5. 1 + Len(ts) = h /\ \A e \in 1 .. Len(ts) : 1 + e = e + 1
    BY <1>2
  <2> QED BY <2>4, <2>5 DEF Toks
<1>6. Heads(inner, f, at)
  BY <1>5, PrefixedIs
<1> HIDE DEF at, inner
<1>7. /\ inner.tokens \in Toks /\ Len(inner.tokens) = h + k /\ inner.nodes \in Seq(NodeRecord)
      /\ \A e \in 1 .. h : inner.tokens[e] = at[e]
      /\ \A e \in 1 .. k : inner.tokens[h + e] = f.tokens[e]
      /\ Shifts(inner.nodes, f.nodes, h, 0)
  <2>1. inner \in Carrier /\ Joins(Tok, inner.tokens, at, f.tokens) /\ Shifts(inner.nodes, f.nodes, h, 0)
    BY <1>5, <1>6 DEF Heads
  <2> QED BY <1>5, <2>1, CarrierIs DEF Joins
<1>8. /\ x \in Toks /\ Len(x) = h + k + 1 /\ DOMAIN x = 1 .. h + k + 1 /\ x[h + k + 1] = Anchor
      /\ \A e \in 1 .. h + k : x[e] = inner.tokens[e]
  <2>1. Anchor \in Tok
    BY AnchorIs
  <2> HIDE DEF Tok, h, k
  <2>2. h + k \in Nat
    BY <1>3, <1>4
  <2> QED BY <1>7, <2>1, <2>2 DEF Toks
<1>9. Shifts(mid, f.nodes, h, dn)
  <2>1. Shifts(mid, inner.nodes, 0, dn)
    BY <1>1, <1>7, ShiftIs
  <2> HIDE DEF mid, h, dn
  <2> QED BY <1>1, <1>3, <1>4, <1>7, <2>1, TwoShifts
<1> HIDE DEF mid, x
<1>10. /\ head \in NodeRecord /\ head.type = type /\ head.start = 1 /\ head.end = h + k + 1
       /\ Len(head.children) = dn /\ \A i \in 1 .. dn : head.children[i] = i + 1
  <2> HIDE DEF dn, h, k
  <2>1. Len(inner.tokens) + 1 = h + k + 1 /\ h + k + 1 \in Nat
    BY <1>3, <1>4, <1>7
  <2>2. head = HeadNode(type, h + k + 1, dn)
    BY <2>1
  <2> HIDE DEF head
  <2>3. IsHead(head, type, h + k + 1, dn)
    BY <1>1, <2>1, <2>2, HeadNodeIs
  <2> QED BY <2>3 DEF IsHead
<1> HIDE DEF head
<1>11. front \in Seq(NodeRecord) /\ Len(front) = dn /\ front[1] = head /\ (dn = 2 => front[2] = KeyLeaf)
  <2>1. <<head>> \in Seq(NodeRecord) /\ Len(<<head>>) = 1 /\ <<head>>[1] = head
    <3> HIDE DEF NodeRecord
    <3> QED BY <1>10
  <2>2. Joins(NodeRecord, front, <<head>>, ns)
    BY <1>1, <2>1, ConcatOf
  <2> HIDE DEF front
  <2>3. front \in Seq(NodeRecord) /\ Len(front) = 1 + Len(ns) /\ front[1] = head
    BY <2>1, <2>2 DEF Joins
  <2>0. dn = Len(ns) + 1 /\ Len(ns) \in Nat
    BY <1>1
  <2> HIDE DEF dn
  <2>4. dn = 2 => Len(ns) = 1 /\ 1 \in 1 .. 1 /\ 1 + 1 = 2
    <3>1. \A u \in Nat : u + 1 = 2 => u = 1
      OBVIOUS
    <3>2. 1 \in 1 .. 1 /\ 1 + 1 = 2
      OBVIOUS
    <3> QED BY <2>0, <3>1, <3>2, Zenon
  <2>5. dn = 2 => front[2] = ns[1] /\ ns[1] = KeyLeaf
    BY <1>1, <2>1, <2>2, <2>4 DEF Joins
  <2>6. 1 + Len(ns) = dn
    BY <2>0
  <2> QED BY <2>3, <2>5, <2>6
<1> HIDE DEF front
<1>12. /\ all \in Seq(NodeRecord) /\ Len(all) = dn + M /\ DOMAIN all = 1 .. dn + M
       /\ all[1] = head /\ (dn = 2 => all[2] = KeyLeaf)
       /\ \A j \in 1 .. M : all[dn + j] = mid[j]
  <2>1. mid \in Seq(NodeRecord) /\ Len(mid) = M
    BY <1>9 DEF Shifts
  <2>2. Joins(NodeRecord, all, front, mid)
    BY <1>11, <2>1, ConcatOf
  <2> HIDE DEF all
  <2>3. /\ all \in Seq(NodeRecord) /\ Len(all) = dn + M /\ DOMAIN all = 1 .. dn + M
        /\ \A j \in 1 .. dn : all[j] = front[j]
        /\ \A j \in 1 .. M : all[dn + j] = mid[j]
    BY <1>11, <2>1, <2>2 DEF Joins
  <2>4. 1 \in 1 .. dn /\ (dn = 2 => 2 \in 1 .. dn)
    BY <1>3
  <2> QED BY <1>11, <2>3, <2>4
<1> HIDE DEF all, M, k, h, dn
<1>13. g \in Carrier /\ g.ok = f.ok /\ g.tokens = x /\ g.nodes = all
  BY <1>8, <1>12, CarrierIs DEF Carrier
<1>14. Wrapper(type, f, ts, ns) = g
  BY DEF Wrapper, HeadNode, g, all, front, mid, head, x, inner, at, dn
<1> HIDE DEF g
<1>15. Carried(f, g, h, dn)
  <2>1. \A j \in 1 .. M : j + dn = dn + j /\ j + dn \in 1 .. dn + M
    BY <1>3, <1>4
  <2>2. \A e \in 1 .. k : e + h = h + e /\ e + h \in 1 .. h + k /\ e + h \in 1 .. h + k + 1
    BY <1>3, <1>4
  <2>3. \A e \in 1 .. k : e + h \in 1 .. h + k + 1 /\ g.tokens[e + h] = f.tokens[e]
    BY <1>7, <1>8, <1>13, <2>2
  <2>4. \A j \in 1 .. M : j + dn \in DOMAIN g.nodes /\ g.nodes[j + dn] = mid[j]
    BY <1>12, <1>13, <2>1
  <2>5. \A j \in 1 .. M :
          /\ mid[j].type = Kind(f, j) /\ mid[j].start = Begins(f, j) + h /\ mid[j].end = Ends(f, j) + h
          /\ mid[j].children = [i \in DOMAIN Kids(f, j) |-> Kids(f, j)[i] + dn]
    BY <1>9 DEF Shifts, Kind, Begins, Ends, Kids, M
  <2>6. \A j \in 1 .. M :
          /\ j + dn \in DOMAIN g.nodes /\ Kind(g, j + dn) = Kind(f, j)
          /\ Begins(g, j + dn) = Begins(f, j) + h /\ Ends(g, j + dn) = Ends(f, j) + h
          /\ Kids(g, j + dn) = [i \in DOMAIN Kids(f, j) |-> Kids(f, j)[i] + dn]
    <3> SUFFICES ASSUME NEW j \in 1 .. M
                 PROVE  /\ j + dn \in DOMAIN g.nodes /\ Kind(g, j + dn) = Kind(f, j)
                        /\ Begins(g, j + dn) = Begins(f, j) + h /\ Ends(g, j + dn) = Ends(f, j) + h
                        /\ Kids(g, j + dn) = [i \in DOMAIN Kids(f, j) |-> Kids(f, j)[i] + dn]
      OBVIOUS
    <3>1. /\ Kind(g, j + dn) = mid[j].type /\ Begins(g, j + dn) = mid[j].start
          /\ Ends(g, j + dn) = mid[j].end /\ Kids(g, j + dn) = mid[j].children
      BY <2>4 DEF Kind, Begins, Ends, Kids
    <3> QED BY <2>4, <2>5, <3>1
  <2> QED BY <1>1, <1>3, <1>4, <1>8, <1>13, <2>3, <2>6 DEF Carried
<1>16. /\ Kind(g, 1) = type /\ Begins(g, 1) = 1 /\ Ends(g, 1) = h + k + 1
       /\ Len(Kids(g, 1)) = dn /\ \A i \in 1 .. dn : Kids(g, 1)[i] = i + 1
  BY <1>10, <1>12, <1>13 DEF Kind, Begins, Ends, Kids
<1>17. dn = 2 => Kind(g, 2) = "string" /\ Begins(g, 2) = 2 /\ Ends(g, 2) = 2 /\ Kids(g, 2) = <<>>
  BY <1>12, <1>13, KeyLeafIs DEF Kind, Begins, Ends, Kids
<1>18. g.tokens[1] = Anchor /\ \A e \in 2 .. h : g.tokens[e] # Anchor
  <2>1. 1 \in 1 .. h /\ 1 \in 1 .. h + k
    BY <1>3, <1>4
  <2>2. g.tokens[1] = Anchor
    BY <1>5, <1>7, <1>8, <1>13, <2>1
  <2>3. ASSUME NEW e \in 2 .. h PROVE g.tokens[e] # Anchor
    <3>1. h = Len(ts) + 1
      BY DEF h
    <3>2. e - 1 \in 1 .. Len(ts) /\ (e - 1) + 1 = e /\ e \in 1 .. h /\ e \in 1 .. h + k
      BY <1>2, <1>4, <3>1
    <3>3. at[e] = ts[e - 1]
      BY <1>5, <3>2
    <3> QED BY <1>2, <1>7, <1>8, <1>13, <3>2, <3>3
  <2> QED BY <2>2, <2>3
<1>19. /\ g.tokens \in Toks /\ g.nodes \in Seq(NodeRecord)
       /\ Len(g.tokens) = h + k + 1 /\ Len(g.nodes) = dn + M /\ g.tokens[h + k + 1] = Anchor
       /\ k = Len(f.tokens) /\ M = Len(f.nodes)
  BY <1>8, <1>12, <1>13 DEF k, M
<1>20. type = (IF dn = 1 THEN "element" ELSE "field") /\ dn \in {1, 2}
  <2>1. 1 # 2
    OBVIOUS
  <2> QED BY <1>1, <2>1
<1>21. Wraps(f, g, type, h, dn)
  BY <1>3, <1>15, <1>16, <1>17, <1>18, <1>19, <1>20 DEF Wraps
<1>22. LedBy(g, ts)
  <2>1. h = Len(ts) + 1
    BY DEF h
  <2>2. \A e \in 1 .. Len(ts) : e + 1 \in 1 .. h /\ e + 1 \in 1 .. h + k
    BY <1>2, <1>4, <2>1
  <2>3. \A e \in 1 .. Len(ts) : g.tokens[e + 1] = ts[e]
    BY <1>5, <1>7, <1>8, <1>13, <2>2
  <2> HIDE DEF g
  <2> QED BY <2>3 DEF LedBy
<1> QED BY <1>13, <1>14, <1>21, <1>22 DEF h, dn

-----------------------------------------------------------------------------
(***************************************************************************)
(* The first and the last place of a set, and a sequence cut before the    *)
(* first: what SelectInSeq, SelectLastInSeq and Before come to.            *)
(***************************************************************************)
FirstOf(I) == IF I # {} THEN Min(I) ELSE 0
LastOf(I) == IF I # {} THEN Max(I) ELSE 0
Cut(s, I) == LET k == FirstOf(I) IN IF k = 0 THEN s ELSE SubSeq(s, 1, k - 1)

LEMMA FirstOfIs ==
  ASSUME NEW l \in Nat, NEW I \in SUBSET (1 .. l)
  PROVE  /\ FirstOf(I) \in 0 .. l
         /\ I = {} => FirstOf(I) = 0
         /\ I # {} => FirstOf(I) \in I /\ \A x \in I : FirstOf(I) <= x
<1>1. CASE I = {}
  BY <1>1 DEF FirstOf
<1>2. CASE I # {}
  <2>1. I \in SUBSET Nat
    OBVIOUS
  <2>2. \E m \in I : \A x \in I : m <= x
    BY <1>2, <2>1, LeastNat
  <2>3. Min(I) \in I /\ \A x \in I : Min(I) <= x
    BY <2>2 DEF Min
  <2>4. FirstOf(I) = Min(I)
    BY <1>2 DEF FirstOf
  <2>5. FirstOf(I) \in 0 .. l
    <3>1. \A x \in I : x \in 0 .. l
      OBVIOUS
    <3> QED BY <2>3, <2>4, <3>1, Zenon
  <2> QED BY <1>2, <2>3, <2>4, <2>5
<1> QED BY <1>1, <1>2

LEMMA LastOfIs ==
  ASSUME NEW l \in Nat, NEW I \in SUBSET (1 .. l)
  PROVE  /\ LastOf(I) \in 0 .. l
         /\ I # {} => LastOf(I) \in I /\ \A x \in I : x <= LastOf(I)
<1>1. CASE I = {}
  BY <1>1 DEF LastOf
<1>2. CASE I # {}
  <2>1. I \in SUBSET (0 .. l)
    OBVIOUS
  <2>2. \E m \in I : \A x \in I : x <= m
    BY <1>2, <2>1, GreatestUpTo
  <2>3. \E m \in I : \A x \in I : m >= x
    BY <2>1, <2>2
  <2>4. Max(I) \in I /\ \A x \in I : Max(I) >= x
    BY <2>3 DEF Max
  <2>5. LastOf(I) = Max(I)
    BY <1>2 DEF LastOf
  <2>6. LastOf(I) \in 0 .. l /\ \A x \in I : x <= LastOf(I)
    <3>1. \A x \in I : x \in 0 .. l /\ x \in Nat
      OBVIOUS
    <3>2. LastOf(I) \in 0 .. l
      BY <2>4, <2>5, <3>1, Zenon
    <3>3. \A x, y \in Nat : y >= x => x <= y
      OBVIOUS
    <3>4. \A x \in I : x <= Max(I)
      BY <2>4, <3>1, <3>3, Zenon
    <3> QED BY <2>5, <3>2, <3>4, Zenon
  <2> QED BY <2>4, <2>5, <2>6
<1> QED BY <1>1, <1>2

IsCut(T, r, s, I) ==
  /\ r \in Seq(T) /\ Len(r) \in 0 .. Len(s)
  /\ \A j \in 1 .. Len(r) : r[j] = s[j] /\ j \notin I
  /\ I = {} => r = s
  /\ I # {} => Len(r) = FirstOf(I) - 1

LEMMA CutIs ==
  ASSUME NEW T, NEW s \in Seq(T), NEW I \in SUBSET (1 .. Len(s))
  PROVE  IsCut(T, Cut(s, I), s, I)
<1> DEFINE k == FirstOf(I)
           l == Len(s)
           r == Cut(s, I)
<1>1. /\ l \in Nat /\ k \in 0 .. l /\ (I = {} => k = 0)
      /\ I # {} => k \in I /\ \A x \in I : k <= x
  <2>1. l \in Nat
    OBVIOUS
  <2> QED BY <2>1, FirstOfIs
<1>2. r = IF k = 0 THEN s ELSE SubSeq(s, 1, k - 1)
  BY DEF Cut
<1> HIDE DEF r, k
<1>3. CASE I = {}
  <2>1. r = s
    BY <1>1, <1>2, <1>3
  <2>2. IsCut(T, r, s, I)
    BY <1>1, <1>3, <2>1 DEF IsCut
  <2> QED BY <2>2 DEF r
<1>4. CASE I # {}
  <2>1. k \in 1 .. l /\ k # 0
    BY <1>1, <1>4
  <2>2. r = SubSeq(s, 1, k - 1)
    BY <1>2, <2>1
  <2>3. r \in Seq(T) /\ Len(r) = k - 1 /\ \A j \in 1 .. k - 1 : r[j] = s[j]
    BY <2>1, <2>2
  <2>4. ASSUME NEW j \in 1 .. k - 1 PROVE j \notin I
    BY <1>1, <1>4, <2>1
  <2>5. k - 1 \in 0 .. l
    BY <1>1, <2>1
  <2>6. \A j \in 1 .. Len(r) : r[j] = s[j] /\ j \notin I
    BY <2>3, <2>4
  <2>7. Len(r) \in 0 .. Len(s)
    BY <2>3, <2>5
  <2>8. IsCut(T, r, s, I)
    BY <1>4, <2>3, <2>6, <2>7 DEF IsCut, k
  <2> QED BY <2>8 DEF r
<1> QED BY <1>3, <1>4

-----------------------------------------------------------------------------
(***************************************************************************)
(* Walks through the token list.                                           *)
(***************************************************************************)
Refs == Seq(DOMAIN token)

LEMMA HereIs ==
  /\ Here.tokens = token /\ Here.nodes = node /\ Here.list = list
  /\ \A e : In(e) <=> Held(Here, e)
  /\ \A e : At(e) = Pos(Here, e)
BY DEF Here, In, At, Held, Pos

LEMMA ListIs ==
  ASSUME Listed(Here)
  PROVE  /\ token \in Toks /\ node \in Seq(NodeRecord) /\ list \in Refs
         /\ Len(list) \in Nat /\ DOMAIN list = 1 .. Len(list)
         /\ Len(token) \in Nat /\ DOMAIN token = 1 .. Len(token)
         /\ Len(node) \in Nat /\ DOMAIN node = 1 .. Len(node)
<1>1. /\ token \in Toks /\ node \in Seq(NodeRecord) /\ list \in Seq(Nat)
      /\ \A i \in DOMAIN list : list[i] \in DOMAIN token
  BY HereIs DEF Listed
<1>2. list \in Refs
  <2>1. \A i \in 1 .. Len(list) : list[i] \in DOMAIN token
    BY <1>1
  <2> QED BY <1>1, <2>1 DEF Refs
<1>3. /\ Len(token) \in Nat /\ DOMAIN token = 1 .. Len(token)
      /\ Len(node) \in Nat /\ DOMAIN node = 1 .. Len(node)
  <2> HIDE DEF NodeRecord, Tok
  <2> QED BY <1>1 DEF Toks
<1>4. Len(list) \in Nat /\ DOMAIN list = 1 .. Len(list)
  BY <1>1
<1> QED BY <1>1, <1>2, <1>3, <1>4

LEMMA ValuesAre ==
  ASSUME Listed(Here), NEW s \in Refs
  PROVE  /\ Values(s) \in Toks /\ Len(Values(s)) = Len(s) /\ DOMAIN Values(s) = 1 .. Len(s)
         /\ \A i \in 1 .. Len(s) : Values(s)[i] = token[s[i]] /\ s[i] \in DOMAIN token
<1>1. token \in Toks /\ DOMAIN token = 1 .. Len(token)
  BY ListIs
<1>2. Len(s) \in Nat /\ DOMAIN s = 1 .. Len(s) /\ \A i \in 1 .. Len(s) : s[i] \in DOMAIN token
  BY DEF Refs
<1>3. \A e \in DOMAIN token : token[e] \in Tok
  <2> HIDE DEF Tok
  <2> QED BY <1>1 DEF Toks
<1> DEFINE v == [i \in 1 .. Len(s) |-> token[s[i]]]
<1>4. v \in [1 .. Len(s) -> Tok]
  BY <1>2, <1>3
<1>5. Values(s) = v
  BY <1>2 DEF Values
<1>6. v \in Seq(Tok) /\ Len(v) = Len(s) /\ DOMAIN v = 1 .. Len(s)
  <2>1. v \in Seq(Tok) /\ Len(v) = Len(s)
    <3> HIDE DEF v
    <3> QED BY <1>2, <1>4, FunctionIsSeq
  <2> QED BY <2>1
<1> QED BY <1>2, <1>5, <1>6 DEF Toks

\* What follows token e, up to f.
Rest(e) == SubSeq(list, At(e) + 1, Len(list))
Stretch(e, f) == Cut(Rest(e), {i \in 1 .. Len(Rest(e)) : Rest(e)[i] = f})

LEMMA BetweenIs ==
  ASSUME NEW e, NEW f
  PROVE  Between(e, f) = IF In(e) THEN Stretch(e, f) ELSE <<>>
BY Zenon DEF Between, Stretch, Rest, Before, Cut, SelectInSeq, FirstOf

LEMMA TailIs ==
  ASSUME NEW T, NEW s \in Seq(T), NEW p \in 0 .. Len(s)
  PROVE  LET r == SubSeq(s, p + 1, Len(s))
         IN  /\ r \in Seq(T) /\ Len(r) = Len(s) - p
             /\ \A j \in 1 .. Len(s) - p : p + j \in 1 .. Len(s) /\ r[j] = s[p + j]
OBVIOUS

Follows(r, e, f) ==
  /\ r \in Refs /\ Len(r) \in 0 .. Len(list) - Pos(Here, e)
  /\ \A j \in 1 .. Len(r) :
       Pos(Here, e) + j \in 1 .. Len(list) /\ r[j] = list[Pos(Here, e) + j] /\ r[j] # f
  /\ Held(Here, f) /\ Pos(Here, e) < Pos(Here, f) => Len(r) = Pos(Here, f) - Pos(Here, e) - 1
  /\ ~Held(Here, f) => Len(r) = Len(list) - Pos(Here, e)

LEMMA StretchIs ==
  ASSUME Listed(Here), NEW e, Held(Here, e), NEW f
  PROVE  Follows(Between(e, f), e, f)
<1> DEFINE p == Pos(Here, e)
           l == Len(list)
           s == Rest(e)
           I == {i \in 1 .. Len(s) : s[i] = f}
           r == Between(e, f)
<1>1. list \in Seq(DOMAIN token) /\ l \in Nat /\ DOMAIN list = 1 .. l /\ p \in 1 .. l /\ list[p] = e
  <2>1. list \in Seq(DOMAIN token) /\ l \in Nat /\ DOMAIN list = 1 .. l
    BY ListIs DEF Refs
  <2> QED BY <2>1, HereIs, PosIs
<1>2. s = SubSeq(list, p + 1, l)
  BY HereIs DEF Rest
<1>3. /\ s \in Seq(DOMAIN token) /\ Len(s) = l - p /\ p \in 0 .. l
      /\ \A j \in 1 .. l - p : p + j \in 1 .. l /\ s[j] = list[p + j]
  <2>1. p \in 0 .. l
    BY <1>1
  <2> HIDE DEF p, s, l
  <2>2. l = Len(list)
    BY DEF l
  <2>3. p \in 0 .. Len(list)
    BY <2>1, <2>2
  <2>4. /\ SubSeq(list, p + 1, Len(list)) \in Seq(DOMAIN token)
        /\ Len(SubSeq(list, p + 1, Len(list))) = Len(list) - p
        /\ \A j \in 1 .. Len(list) - p :
             p + j \in 1 .. Len(list) /\ SubSeq(list, p + 1, Len(list))[j] = list[p + j]
    BY <1>1, <2>3, TailIs
  <2> QED BY <1>2, <2>1, <2>2, <2>4
<1>4. r = Cut(s, I)
  BY BetweenIs, HereIs DEF Stretch
<1>5. I \in SUBSET (1 .. Len(s))
  OBVIOUS
<1>6. IsCut(DOMAIN token, r, s, I)
  <2> HIDE DEF s, I, r
  <2> QED BY <1>3, <1>4, <1>5, CutIs
<1>7. \A i \in 1 .. l - p : i \in I <=> list[p + i] = f
  BY <1>3
<1> HIDE DEF s, I, r, p, l
<1>8. r \in Seq(DOMAIN token) /\ Len(r) \in 0 .. l - p
  BY <1>3, <1>6 DEF IsCut
<1>9. ASSUME NEW j \in 1 .. Len(r) PROVE p + j \in 1 .. l /\ r[j] = list[p + j] /\ r[j] # f
  <2>1. j \in 1 .. l - p
    BY <1>1, <1>8
  <2>2. r[j] = s[j] /\ j \notin I
    BY <1>6 DEF IsCut
  <2> QED BY <1>3, <1>7, <2>1, <2>2
<1>10. ASSUME Held(Here, f), p < Pos(Here, f) PROVE Len(r) = Pos(Here, f) - p - 1
  <2> DEFINE k == Pos(Here, f)
  <2>1. k \in 1 .. l /\ list[k] = f
    BY <1>10, HereIs, PosIs DEF l
  <2>2. k - p \in 1 .. l - p /\ p + (k - p) = k
    BY <1>1, <1>10, <2>1
  <2>3. k - p \in I
    BY <1>7, <2>1, <2>2
  <2>4. ASSUME NEW i \in I PROVE i = k - p
    <3>1. i \in 1 .. l - p /\ p + i \in 1 .. l
      BY <1>3, <1>5, <2>4
    <3>2. list[p + i] = f
      BY <1>7, <2>4, <3>1
    <3>3. Pos(Here, list[p + i]) = p + i
      BY <1>1, <3>1, HereIs, PosOf
    <3>4. p + i = k
      BY <3>2, <3>3
    <3> QED BY <1>1, <2>1, <3>1, <3>4
  <2>5. FirstOf(I) \in I
    BY <1>1, <1>3, <1>5, <2>3, FirstOfIs
  <2>6. Len(r) = FirstOf(I) - 1
    BY <1>6, <2>3 DEF IsCut
  <2> QED BY <2>4, <2>5, <2>6
<1>11. ASSUME ~Held(Here, f) PROVE Len(r) = l - p
  <2>1. ASSUME NEW i \in I PROVE FALSE
    <3>1. i \in 1 .. l - p /\ p + i \in 1 .. l
      BY <1>3, <1>5
    <3>2. list[p + i] = f
      BY <1>7, <2>1, <3>1
    <3> QED BY <1>1, <1>11, <3>1, <3>2, HereIs DEF Held
  <2>2. I = {}
    BY <2>1
  <2> QED BY <1>3, <1>6, <2>2 DEF IsCut
<1>12. Follows(r, e, f)
  BY <1>8, <1>9, <1>10, <1>11 DEF Follows, Refs, p, l
<1> QED BY <1>12 DEF r

LEMMA BetweenType ==
  ASSUME Listed(Here), NEW e, NEW f
  PROVE  Between(e, f) \in Refs
<1>1. CASE In(e)
  BY <1>1, HereIs, StretchIs DEF Follows
<1>2. CASE ~In(e)
  <2>1. Between(e, f) = <<>>
    BY <1>2, BetweenIs
  <2> QED BY <2>1 DEF Refs
<1> QED BY <1>1, <1>2

LEMMA MarginIs ==
  ASSUME Listed(Here), NEW s \in Refs, \A i \in 1 .. Len(s) : token[s[i]].type \in Blank
  PROVE  Values(s) \in Margin
<1>1. /\ Values(s) \in Toks /\ DOMAIN Values(s) = 1 .. Len(s)
      /\ \A i \in 1 .. Len(s) : Values(s)[i] = token[s[i]]
  BY ValuesAre
<1> QED BY <1>1 DEF Margin

LEMMA GapBlank ==
  ASSUME Listed(Here), NEW e, NEW f
  PROVE  GapTokens(e, f) \in Margin
<1> DEFINE b == Between(e, f)
           I == {i \in 1 .. Len(b) : token[b[i]].type \notin Space}
           r == Cut(b, I)
<1>1. b \in Refs
  BY BetweenType
<1>2. I \in SUBSET (1 .. Len(b))
  OBVIOUS
<1>3. GapTokens(e, f) = Values(r)
  BY Zenon DEF GapTokens, Before, Cut, SelectInSeq, FirstOf, r, I, b
<1>4. IsCut(DOMAIN token, r, b, I)
  <2> HIDE DEF I, b, r
  <2> QED BY <1>1, <1>2, CutIs DEF Refs, r
<1>5. ASSUME NEW i \in 1 .. Len(r) PROVE token[r[i]].type \in Blank
  <2>1. r[i] = b[i] /\ i \notin I /\ Len(r) \in 0 .. Len(b)
    BY <1>4 DEF IsCut
  <2>2. i \in 1 .. Len(b)
    BY <1>1, <2>1 DEF Refs
  <2>3. token[b[i]].type \in Space
    BY <2>1, <2>2
  <2> QED BY <2>1, <2>3 DEF Space, Blank
<1>6. r \in Refs
  BY <1>4 DEF IsCut, Refs
<1> QED BY <1>3, <1>5, <1>6, MarginIs

LEMMA LeadingBlank ==
  ASSUME Listed(Here), NEW n, NEW i
  PROVE  LeadingGap(n, i) \in Margin
<1> DEFINE from == IF i = 1 THEN node[n].start ELSE node[Child(n, i - 1)].end
           b == Between(from, node[Child(n, i)].start)
           I == {j \in 1 .. Len(b) : token[b[j]].type \notin Space \union {"comma", "comment"}}
           r == Cut(b, I)
           K == {j \in 1 .. Len(r) : token[r[j]].type # "whitespace"}
           k == LastOf(K)
           x == IF k # 0 /\ token[r[k]].type = "newline" THEN k ELSE k + 1
           s == SubSeq(r, x, Len(r))
<1>1. b \in Refs
  BY BetweenType
<1>2. I \in SUBSET (1 .. Len(b))
  OBVIOUS
<1>3. LeadingGap(n, i) = Values(s)
  BY Zenon DEF LeadingGap, Before, Cut, SelectInSeq, SelectLastInSeq, FirstOf, LastOf,
               s, x, k, K, r, I, b, from
<1>4. IsCut(DOMAIN token, r, b, I)
  <2> HIDE DEF I, b, r
  <2> QED BY <1>1, <1>2, CutIs DEF Refs, r
<1>6. r \in Refs /\ Len(r) \in Nat
  <2> HIDE DEF r, b, I
  <2> QED BY <1>4 DEF IsCut, Refs
<1>7. K \in SUBSET (1 .. Len(r))
  OBVIOUS
<1>5. \A y \in 1 .. Len(r) : y \notin K => token[r[y]].type = "whitespace"
  OBVIOUS
<1> HIDE DEF r, K
<1>8. k \in 0 .. Len(r) /\ \A y \in 1 .. Len(r) : k < y => y \notin K
  <2>1. k \in 0 .. Len(r) /\ (K # {} => k \in K /\ \A y \in K : y <= k)
    BY <1>6, <1>7, LastOfIs
  <2>2. \A y \in 1 .. Len(r) : y \in K => y <= k
    BY <2>1
  <2> QED BY <2>1, <2>2
<1> HIDE DEF k
<1>9. /\ x \in 1 .. Len(r) + 1
      /\ \A y \in 1 .. Len(r) : x <= y => token[r[y]].type \in Blank
  <2>1. x \in 1 .. Len(r) + 1
    BY <1>6, <1>8
  <2>2. ASSUME NEW y \in 1 .. Len(r), x <= y PROVE token[r[y]].type \in Blank
    <3>1. k < y \/ (y = k /\ token[r[k]].type = "newline")
      BY <1>6, <1>8, <2>2
    <3> QED BY <1>5, <1>8, <3>1 DEF Blank
  <2> QED BY <2>1, <2>2
<1> HIDE DEF x
<1>10. s \in Refs /\ Len(s) \in Nat /\ \A j \in 1 .. Len(s) : x + j - 1 \in 1 .. Len(r) /\ s[j] = r[x + j - 1]
  BY <1>6, <1>9 DEF Refs
<1>11. \A j \in 1 .. Len(s) : token[s[j]].type \in Blank
  <2>1. \A j \in 1 .. Len(s) : x <= x + j - 1
    BY <1>6, <1>9, <1>10
  <2> QED BY <1>9, <1>10, <2>1
<1> HIDE DEF s
<1> QED BY <1>3, <1>10, <1>11, MarginIs

-----------------------------------------------------------------------------
(***************************************************************************)
(* What the inserting methods put into the document.                       *)
(***************************************************************************)
LEMMA PrefixIsText ==
  ASSUME Listed(Here), NEW n
  PROVE  FieldValuePrefix(n) \in Txt
<1> DEFINE s == Between(node[KeyNode(n, 1)].end, node[Field(n, 1)].start)
           K == {i \in 1 .. Len(s) : token[s[i]].type = "colon"}
           k == FirstOf(K)
           r == SubSeq(s, k + 1, Len(s))
<1>1. s \in Seq(DOMAIN token) /\ Len(s) \in Nat
  <2>1. s \in Seq(DOMAIN token)
    BY BetweenType DEF Refs
  <2> HIDE DEF s
  <2> QED BY <2>1
<1>2. FieldValuePrefix(n) = IF Size(n) = 0 THEN <<>> ELSE Text(Values(r))
  BY Zenon DEF FieldValuePrefix, SelectInSeq, FirstOf, s, K, k, r
<1> HIDE DEF s
<1>3. K \in SUBSET (1 .. Len(s))
  OBVIOUS
<1> HIDE DEF K
<1>4. k \in 0 .. Len(s)
  BY <1>1, <1>3, FirstOfIs
<1> HIDE DEF k
<1>5. r \in Refs
  BY <1>1, <1>4, TailIs DEF Refs
<1> HIDE DEF r
<1>6. Text(Values(r)) \in Txt
  BY <1>5, ValuesAre, TextType
<1>7. <<>> \in Txt
  BY DEF Txt
<1> QED BY <1>2, <1>6, <1>7

LEMMA NewElementIs ==
  ASSUME NEW f, ValueOf(f), Neat(f)
  PROVE  NewElement(f).ok = f.ok /\ PartOf(NewElement(f), "element") /\ Neat(NewElement(f))
<1> DEFINE g == NewElement(f)
<1>1. f \in Carrier /\ Fragment(f) /\ f.nodes # <<>> /\ Kind(f, 1) \notin WrapperType
  BY DEF ValueOf
<1>2. <<>> \in Plain /\ Fronts("element", <<>>, <<>>)
  BY DEF Plain, Toks, Fronts
<1>3. g = Wrapper("element", f, <<>>, <<>>)
  BY DEF NewElement
<1>4. g \in Carrier /\ g.ok = f.ok /\ Wraps(f, g, "element", Len(<<>>) + 1, Len(<<>>) + 1)
  <2> HIDE DEF g
  <2> QED BY <1>1, <1>2, <1>3, WrapperIs
<1> HIDE DEF g
<1>5. Fragment(g)
  BY <1>1, <1>4, WrapsKeeps
<1>6. Kind(g, 1) = "element"
  BY <1>4 DEF Wraps
<1>7. g.nodes # <<>>
  <2>1. Len(g.nodes) = Len(<<>>) + 1 + Len(f.nodes) /\ Len(f.nodes) \in Nat
    BY <1>1, <1>4, CarrierIs DEF Wraps
  <2>2. Len(g.nodes) # 0
    BY <2>1
  <2> QED BY <2>2
<1>8. Neat(g)
  <2>1. Headed(g, Len(<<>>) + 1, Len(<<>>) + 1)
    BY DEF Headed
  <2> QED BY <1>1, <1>4, <1>5, <2>1, WrapsNeat
<1> QED BY <1>4, <1>5, <1>6, <1>7, <1>8 DEF PartOf, g

\* A key is to be seen.
LEMMA QuotedLoud ==
  ASSUME NEW x \in Quoted
  PROVE  Loud(Token(x))
<1>1. x \in AnyLexeme
  BY DEF AnyLexeme
<1>2. x \notin Punctuation /\ x \notin LineComment \union BlockComment
  BY PunctuationAssumption, CommentAssumption
<1>3. /\ x # "," /\ x # ":" /\ x \notin {"{", "}", "[", "]"} /\ x # " " /\ x # "\n"
      /\ x \notin LineComment \union BlockComment
  BY <1>2 DEF Punctuation
<1>5. TokenType(x) =
        CASE x = "," -> "comma"
          [] x = ":" -> "colon"
          [] x \in {"{", "}", "[", "]"} -> "delim"
          [] x = " " -> "whitespace"
          [] x = "\n" -> "newline"
          [] x \in LineComment \union BlockComment -> "comment"
          [] x \in Number -> "number"
          [] x \in Quoted -> "string"
          [] x \in Identifier \union Keyword -> "identifier"
  BY DEF TokenType
<1>6. TokenType(x) \in {"string", "number", "identifier"}
  BY <1>3, <1>5
<1>4. Token(x) \in LexTok
  BY <1>1, TokenIs
<1> QED BY <1>4, <1>6, LoudTokens DEF Token

LEMMA NewFieldIs ==
  ASSUME NEW f, ValueOf(f), Neat(f), NEW name \in Name, NEW prefix \in Txt
  PROVE  /\ NewField(name, prefix, f).ok = f.ok
         /\ PartOf(NewField(name, prefix, f), "field") /\ Neat(NewField(name, prefix, f))
<1> DEFINE key == Token(QuoteOf[name])
           colon == Token(":")
           gap == [type |-> "whitespace", literal |-> prefix]
           two == <<key, colon>>
           more == IF prefix = <<>> THEN <<>> ELSE <<gap>>
           ts == two \o more
           ns == <<KeyLeaf>>
           g == NewField(name, prefix, f)
<1>1. f \in Carrier /\ Fragment(f) /\ f.nodes # <<>> /\ Kind(f, 1) \notin WrapperType
  BY DEF ValueOf
<1>2. key \in Tok /\ key # Anchor /\ colon \in Tok /\ colon # Anchor
  <2>1. QuoteOf[name] \in AnyLexeme /\ ":" \in AnyLexeme
    <3>1. QuoteOf[name] \in Quoted
      BY DocumentAssumption
    <3>2. QuoteOf[name] \in AnyLexeme
      BY <3>1 DEF AnyLexeme
    <3>3. ":" \in AnyLexeme
      BY DEF AnyLexeme, Punctuation
    <3> QED BY <3>2, <3>3
  <2> QED BY <2>1, TokenIs, LexTokNoAnchor
<1>3. gap \in Tok /\ gap # Anchor
  BY DEF Tok, LexType, Anchor
<1>13. Loud(key) /\ colon.type = "colon" /\ gap.type \in Blank
  <2>1. Loud(key)
    <3>1. QuoteOf[name] \in Quoted
      BY DocumentAssumption
    <3> QED BY <3>1, QuotedLoud
  <2>2. colon.type = "colon"
    BY PunctuationTypes DEF Token
  <2> QED BY <2>1, <2>2 DEF Blank
<1> HIDE DEF key, colon, gap
<1>4. two \in Seq(Tok) /\ Len(two) = 2 /\ two[1] = key /\ two[2] = colon
  <2> HIDE DEF Tok
  <2> QED BY <1>2
<1>5. more \in Seq(Tok) /\ \A e \in 1 .. Len(more) : more[e] # Anchor /\ more[e].type \in Blank
  <2> HIDE DEF Tok
  <2>1. CASE prefix = <<>>
    BY <2>1
  <2>2. CASE prefix # <<>>
    <3>1. more = <<gap>>
      BY <2>2
    <3> HIDE DEF more
    <3> QED BY <1>3, <1>13, <3>1
  <2> QED BY <2>1, <2>2
<1> HIDE DEF two, more
<1>6. ts \in Plain /\ ts # <<>>
  <2>1. Joins(Tok, ts, two, more)
    BY <1>4, <1>5, ConcatOf
  <2> HIDE DEF ts
  <2>2. /\ ts \in Seq(Tok) /\ Len(ts) = 2 + Len(more) /\ DOMAIN ts = 1 .. 2 + Len(more) /\ Len(more) \in Nat
        /\ \A e \in 1 .. 2 : ts[e] = two[e]
        /\ \A e \in 1 .. Len(more) : ts[2 + e] = more[e]
    BY <1>4, <2>1 DEF Joins
  <2>3. ASSUME NEW e \in 1 .. 2 + Len(more) PROVE ts[e] # Anchor
    <3>1. CASE e \in 1 .. 2
      <4>1. e = 1 \/ e = 2
        BY <3>1
      <4> QED BY <1>2, <1>4, <2>2, <3>1, <4>1
    <3>2. CASE e \notin 1 .. 2
      <4>1. e - 2 \in 1 .. Len(more) /\ 2 + (e - 2) = e
        BY <2>2, <3>2
      <4> QED BY <1>5, <2>2, <4>1
    <3> QED BY <3>1, <3>2
  <2>4. ts # <<>>
    <3>1. Len(ts) # 0
      BY <2>2
    <3> QED BY <3>1
  <2> QED BY <2>2, <2>3, <2>4 DEF Plain, Toks
<1>14. /\ Len(ts) \in Nat /\ Len(ts) >= 2 /\ ts[1] = key /\ ts[2] = colon
       /\ \A e \in 3 .. Len(ts) : ts[e].type \in Blank
  <2>1. Joins(Tok, ts, two, more)
    BY <1>4, <1>5, ConcatOf
  <2> HIDE DEF ts
  <2>2. /\ Len(ts) = 2 + Len(more) /\ Len(more) \in Nat
        /\ \A e \in 1 .. 2 : ts[e] = two[e]
        /\ \A e \in 1 .. Len(more) : ts[2 + e] = more[e]
    BY <1>4, <2>1 DEF Joins
  <2>3. \A e \in 3 .. Len(ts) : e - 2 \in 1 .. Len(more) /\ 2 + (e - 2) = e
    BY <2>2
  <2>4. \A e \in 3 .. Len(ts) : ts[e] = more[e - 2]
    BY <2>2, <2>3
  <2>5. \A e \in 3 .. Len(ts) : ts[e].type \in Blank
    BY <1>5, <2>3, <2>4
  <2>6. 1 \in 1 .. 2 /\ 2 \in 1 .. 2
    OBVIOUS
  <2> QED BY <1>4, <2>2, <2>5, <2>6
<1>7. g = Wrapper("field", f, ts, ns)
  BY DEF NewField, KeyLeaf, ts, two, more, key, colon, gap, ns
<1> HIDE DEF ts
<1>8. Fronts("field", ts, ns) /\ Len(ns) = 1
  BY <1>6 DEF Fronts
<1>9. /\ g \in Carrier /\ g.ok = f.ok /\ Wraps(f, g, "field", Len(ts) + 1, Len(ns) + 1)
      /\ LedBy(g, ts)
  <2> HIDE DEF g, ns
  <2> QED BY <1>1, <1>6, <1>7, <1>8, WrapperIs
<1> HIDE DEF g, ns
<1>10. Fragment(g)
  BY <1>1, <1>9, WrapsKeeps
<1>11. Kind(g, 1) = "field"
  BY <1>9 DEF Wraps
<1>12. g.nodes # <<>>
  <2>1. Len(g.nodes) = Len(ns) + 1 + Len(f.nodes) /\ Len(f.nodes) \in Nat
    BY <1>1, <1>9, CarrierIs DEF Wraps
  <2>2. Len(g.nodes) # 0
    BY <1>8, <2>1
  <2> QED BY <2>2
<1>15. Neat(g)
  <2>1. /\ Len(ns) + 1 = 2 /\ Len(ts) + 1 >= 3 /\ 1 \in 1 .. Len(ts) /\ 2 \in 1 .. Len(ts) /\ 1 + 1 = 2 /\ 2 + 1 = 3
        /\ \A e \in 4 .. Len(ts) + 1 : e - 1 \in 3 .. Len(ts) /\ e - 1 \in 1 .. Len(ts) /\ (e - 1) + 1 = e
    BY <1>8, <1>14
  <2>2. g.tokens[2] = key /\ g.tokens[3] = colon
    BY <1>9, <1>14, <2>1 DEF LedBy
  <2>3. \A e \in 4 .. Len(ts) + 1 : g.tokens[e].type \in Blank
    <3> SUFFICES ASSUME NEW e \in 4 .. Len(ts) + 1 PROVE g.tokens[e].type \in Blank
      OBVIOUS
    <3>1. g.tokens[(e - 1) + 1] = ts[e - 1] /\ (e - 1) + 1 = e
      BY <1>9, <2>1 DEF LedBy
    <3> QED BY <1>14, <2>1, <3>1
  <2>4. Headed(g, Len(ts) + 1, Len(ns) + 1)
    BY <1>13, <2>1, <2>2, <2>3 DEF Headed
  <2> QED BY <1>1, <1>9, <1>10, <2>4, WrapsNeat
<1> QED BY <1>9, <1>10, <1>11, <1>12, <1>15 DEF PartOf, g

\* The gap and the comma around a new child do not touch it.
LEMMA HeadsPart ==
  ASSUME NEW f, NEW type, PartOf(f, type), NEW ts \in Plain
  PROVE  Prefixed(ts, f).ok = f.ok /\ PartOf(Prefixed(ts, f), type)
<1> DEFINE g == Prefixed(ts, f)
<1>1. f \in Carrier /\ ts \in Toks
  BY DEF PartOf, Plain
<1>2. Heads(g, f, ts)
  BY <1>1, PrefixedIs
<1> HIDE DEF g
<1>3. Padded(f, g, Len(ts)) /\ g \in Carrier /\ g.ok = f.ok
  BY <1>1, <1>2, HeadsPad DEF Heads
<1>4. PartOf(g, type)
  BY <1>3, PaddedPart
<1> QED BY <1>3, <1>4 DEF g

LEMMA SpacedIs ==
  ASSUME Listed(Here), NEW f, NEW type, PartOf(f, type), NEW n \in Node, NEW i \in 1 .. Size(n) + 1
  PROVE  Spaced(n, i, f).ok = f.ok /\ PartOf(Spaced(n, i, f), type)
<1>1. Size(n) \in Nat
  <2>1. Len(Kids(Here, n)) \in Nat
    BY ListIs, HereIs, DocumentIs DEF Node
  <2> QED BY <2>1, HereIs DEF Size, Kids
<1>2. CASE Size(n) = 0
  <2> DEFINE ts == GapTokens(node[n].start, node[n].end)
  <2>1. ts \in Plain
    BY GapBlank, MarginPlain
  <2>2. Spaced(n, i, f) = Prefixed(ts, f)
    <3>1. ~(Size(n) # 0 /\ i = 1) /\ ~(i > 1)
      BY <1>2
    <3> QED BY <1>2, <3>1 DEF Spaced
  <2> QED BY <2>1, <2>2, HeadsPart
<1>3. CASE Size(n) # 0 /\ i = 1
  <2> DEFINE ts == GapTokens(node[n].start, node[Child(n, 1)].start)
             g == Prefixed(ts, f)
             q == [g EXCEPT !.tokens = Append(@, Comma)]
  <2>1. ts \in Plain
    BY GapBlank, MarginPlain
  <2>2. g.ok = f.ok /\ PartOf(g, type)
    BY <2>1, HeadsPart
  <2>3. Spaced(n, i, f) = q
    <3>1. ~(Size(n) = 0) /\ ~(i > 1)
      BY <1>3
    <3> QED BY <1>3, <3>1 DEF Spaced
  <2> HIDE DEF g
  <2>4. q \in Carrier /\ q.ok = g.ok /\ Padded(g, q, 0)
    BY <2>2, CommaPads DEF PartOf
  <2> HIDE DEF q
  <2> QED BY <2>2, <2>3, <2>4, PaddedPart
<1>4. CASE i > 1 /\ Size(n) # 0
  <2> DEFINE gap == LeadingGap(n, IF i > Size(n) THEN Size(n) ELSE i)
             ts == <<Comma>> \o gap
  <2>1. gap \in Toks /\ Len(gap) \in Nat /\ DOMAIN gap = 1 .. Len(gap) /\ \A e \in 1 .. Len(gap) : gap[e] # Anchor
    <3>1. gap \in Plain
      BY LeadingBlank, MarginPlain
    <3> HIDE DEF gap
    <3> QED BY <3>1 DEF Plain, Toks
  <2>2. <<Comma>> \in Seq(Tok) /\ Len(<<Comma>>) = 1 /\ <<Comma>>[1] = Comma /\ Comma # Anchor
    <3> HIDE DEF Tok
    <3> QED BY CommaIs
  <2>3. Spaced(n, i, f) = Prefixed(ts, f)
    <3>1. ~(Size(n) = 0) /\ ~(Size(n) # 0 /\ i = 1)
      BY <1>4
    <3> QED BY <1>4, <3>1 DEF Spaced
  <2> HIDE DEF gap
  <2>4. Joins(Tok, ts, <<Comma>>, gap)
    BY <2>1, <2>2, ConcatOf DEF Toks
  <2> HIDE DEF ts
  <2>5. /\ ts \in Seq(Tok) /\ DOMAIN ts = 1 .. 1 + Len(gap)
        /\ \A e \in 1 .. 1 : ts[e] = <<Comma>>[e]
        /\ \A e \in 1 .. Len(gap) : ts[1 + e] = gap[e]
    BY <2>2, <2>4 DEF Joins
  <2>6. ASSUME NEW e \in 1 .. 1 + Len(gap) PROVE ts[e] # Anchor
    <3>1. CASE e = 1
      <4>1. 1 \in 1 .. 1
        OBVIOUS
      <4>2. ts[1] = Comma
        BY <2>2, <2>5, <4>1
      <4> QED BY <2>2, <3>1, <4>2
    <3>2. CASE e # 1
      <4>1. e - 1 \in 1 .. Len(gap) /\ 1 + (e - 1) = e
        BY <2>1, <3>2
      <4> QED BY <2>1, <2>5, <4>1
    <3> QED BY <3>1, <3>2
  <2>7. ts \in Plain
    BY <2>5, <2>6 DEF Plain, Toks
  <2> QED BY <2>3, <2>7, HeadsPart
<1> QED BY <1>1, <1>2, <1>3, <1>4

\* What fits as child i of n.
GoesIn(n, i, g) ==
  LET o == OutlineOf(Fresh(g))
  IN  Edged(o) /\ Suits(Here, n, i, o)

\* Blanks in front of a fragment that begins and ends with nodes.
LEMMA MarginNeat ==
  ASSUME NEW f, NEW type, PartOf(f, type), Neat(f), NEW ts \in Margin
  PROVE  Neat(Prefixed(ts, f))
<1> DEFINE g == Prefixed(ts, f)
           o == OutlineOf(Fresh(f))
           r == OutlineOf(Fresh(g))
<1>1. f \in Carrier /\ Fragment(f) /\ ts \in Plain /\ ts \in Toks
  BY MarginPlain DEF PartOf, Plain
<1>2. Heads(g, f, ts)
  BY <1>1, PrefixedIs
<1>3. Fragment(g)
  BY <1>1, HeadsPart DEF PartOf
<1> HIDE DEF g
<1>4. Fronted(o, r, Len(ts)) /\ \A e \in 1 .. Len(ts) : r.type[e] = ts[e].type
  BY <1>1, <1>2, HeadsFront
<1>5. Edged(o) /\ Parted(o) /\ Begun(o) /\ Done(o)
  BY DEF Neat, Tidy
<1> HIDE DEF o, r
<1>6. \A e \in 1 .. Len(ts) : r.type[e] \in Blank
  <2>1. DOMAIN ts = 1 .. Len(ts)
    BY <1>1 DEF Toks
  <2> QED BY <1>4, <2>1 DEF Margin
<1>7. Edged(r) /\ Parted(r) /\ Begun(r) /\ Done(r)
  BY <1>4, <1>5, <1>6, BlankFront
<1>8. Voiced(Fresh(g))
  BY <1>3, <1>7, EdgedVoiced DEF r
<1> QED BY <1>7, <1>8 DEF Neat, Tidy, r, g

LEMMA SpacedFits ==
  ASSUME Listed(Here), NEW f, NEW type, PartOf(f, type), Neat(f), NEW n \in Node, NEW i \in 1 .. Size(n) + 1
  PROVE  GoesIn(n, i, Spaced(n, i, f))
<1>1. Size(n) \in Nat /\ Size(n) = Len(Kids(Here, n)) /\ (Size(n) = 0 <=> Kids(Here, n) = <<>>)
  <2>1. Len(Kids(Here, n)) \in Nat /\ (Len(Kids(Here, n)) = 0 <=> Kids(Here, n) = <<>>)
    BY ListIs, HereIs, DocumentIs DEF Node
  <2> QED BY <2>1, HereIs DEF Size, Kids
<1>2. CASE Size(n) = 0
  <2> DEFINE ts == GapTokens(node[n].start, node[n].end)
             g == Prefixed(ts, f)
             r == OutlineOf(Fresh(g))
  <2>1. Neat(g)
    BY GapBlank, MarginNeat
  <2>2. Spaced(n, i, f) = g
    <3>1. ~(Size(n) # 0 /\ i = 1) /\ ~(i > 1)
      BY <1>2
    <3> QED BY <1>2, <3>1 DEF Spaced
  <2>3. Edged(r) /\ Parted(r) /\ Done(r)
    BY <2>1 DEF Neat, Tidy
  <2> HIDE DEF g
  <2>4. Suits(Here, n, i, r)
    BY <1>1, <1>2, <2>3 DEF Suits
  <2> QED BY <2>2, <2>3, <2>4 DEF GoesIn
<1>3. CASE Size(n) # 0 /\ i = 1
  <2> DEFINE ts == GapTokens(node[n].start, node[Child(n, 1)].start)
             g == Prefixed(ts, f)
             q == [g EXCEPT !.tokens = Append(@, Comma)]
             o == OutlineOf(Fresh(g))
             r == OutlineOf(Fresh(q))
  <2>1. Neat(g)
    BY GapBlank, MarginNeat
  <2>2. g \in Carrier /\ Fragment(g)
    <3>1. ts \in Plain
      BY GapBlank, MarginPlain
    <3> QED BY <3>1, HeadsPart DEF PartOf
  <2>3. Spaced(n, i, f) = q
    <3>1. ~(Size(n) = 0) /\ ~(i > 1)
      BY <1>3
    <3> QED BY <1>3, <3>1 DEF Spaced
  <2> HIDE DEF g
  <2>4. Longer(o, r) /\ r.type[r.n] = "comma"
    BY <2>2, CommaBehind
  <2>5. Edged(o) /\ Parted(o) /\ Done(o)
    BY <2>1 DEF Neat, Tidy
  <2> HIDE DEF q, o
  <2>6. Edged(r) /\ Listing(r)
    <3> HIDE DEF r
    <3>1. r.type[r.n] \in Separator
      BY <2>4 DEF Separator
    <3> QED BY <2>4, <2>5, <3>1, SeparatorLonger
  <2>7. Suits(Here, n, i, r)
    BY <1>1, <1>3, <2>6 DEF Suits
  <2> QED BY <2>3, <2>6, <2>7 DEF GoesIn
<1>4. CASE i > 1 /\ Size(n) # 0
  <2> DEFINE gap == LeadingGap(n, IF i > Size(n) THEN Size(n) ELSE i)
             ts == <<Comma>> \o gap
             g == Prefixed(ts, f)
             o == OutlineOf(Fresh(f))
             r == OutlineOf(Fresh(g))
  <2>1. gap \in Toks /\ Len(gap) \in Nat /\ DOMAIN gap = 1 .. Len(gap) /\ \A e \in 1 .. Len(gap) : gap[e].type \in Blank
    <3>1. gap \in Margin
      BY LeadingBlank
    <3> HIDE DEF gap
    <3> QED BY <3>1 DEF Margin, Toks
  <2>2. /\ <<Comma>> \in Seq(Tok) /\ Len(<<Comma>>) = 1 /\ <<Comma>>[1] = Comma /\ Comma # Anchor
        /\ Comma.type = "comma"
    <3>1. Comma.type = "comma"
      BY PunctuationTypes DEF Comma, Token
    <3> HIDE DEF Tok
    <3> QED BY CommaIs, <3>1
  <2>3. Spaced(n, i, f) = g
    <3>1. ~(Size(n) = 0) /\ ~(Size(n) # 0 /\ i = 1)
      BY <1>4
    <3> QED BY <1>4, <3>1 DEF Spaced
  <2> HIDE DEF gap
  <2>4. Joins(Tok, ts, <<Comma>>, gap)
    BY <2>1, <2>2, ConcatOf DEF Toks
  <2> HIDE DEF ts
  <2>5. /\ ts \in Seq(Tok) /\ DOMAIN ts = 1 .. 1 + Len(gap) /\ Len(ts) = 1 + Len(gap)
        /\ \A e \in 1 .. 1 : ts[e] = <<Comma>>[e]
        /\ \A e \in 1 .. Len(gap) : ts[1 + e] = gap[e]
    BY <2>2, <2>4 DEF Joins
  <2>6. ts[1] = Comma
    <3>1. 1 \in 1 .. 1
      OBVIOUS
    <3> QED BY <2>2, <2>5, <3>1
  <2>7. ASSUME NEW e \in 2 .. Len(ts) PROVE ts[e].type \in Blank
    <3>1. e - 1 \in 1 .. Len(gap) /\ 1 + (e - 1) = e
      BY <2>1, <2>5
    <3> QED BY <2>1, <2>5, <3>1
  <2>8. ASSUME NEW e \in 1 .. Len(ts) PROVE ts[e] # Anchor
    <3>1. Anchor.type \notin Blank
      BY DEF Anchor, Blank
    <3>2. CASE e = 1
      BY <2>2, <2>6, <3>2
    <3>3. CASE e # 1
      <4>1. e \in 2 .. Len(ts)
        BY <2>1, <2>5, <3>3
      <4> QED BY <2>7, <3>1, <4>1
    <3> QED BY <3>2, <3>3
  <2>9. ts \in Plain /\ ts \in Toks
    BY <2>5, <2>8 DEF Plain, Toks
  <2>10. Heads(g, f, ts) /\ f \in Carrier /\ Fragment(f)
    BY <2>9, PrefixedIs DEF PartOf
  <2> HIDE DEF g
  <2>11. Fronted(o, r, Len(ts)) /\ \A e \in 1 .. Len(ts) : r.type[e] = ts[e].type
    BY <2>9, <2>10, HeadsFront
  <2>12. Edged(o) /\ Parted(o) /\ Begun(o) /\ Done(o)
    BY DEF Neat, Tidy
  <2> HIDE DEF o
  <2>13. Edged(r) /\ Leaning(r) /\ Done(r)
    <3> HIDE DEF r
    <3>1. Len(ts) >= 1 /\ Len(ts) \in Nat /\ 1 \in 1 .. Len(ts) /\ \A e \in 2 .. Len(ts) : e \in 1 .. Len(ts)
      BY <2>1, <2>5
    <3>2. r.type[1] = "comma" /\ \A e \in 2 .. Len(ts) : r.type[e] \in Blank
      BY <2>2, <2>6, <2>7, <2>11, <3>1
    <3> QED BY <2>11, <2>12, <3>1, <3>2, CommaFront
  <2>14. Suits(Here, n, i, r)
    BY <1>1, <1>4, <2>13 DEF Suits
  <2> QED BY <2>3, <2>13, <2>14 DEF GoesIn
<1> QED BY <1>1, <1>2, <1>3, <1>4

-----------------------------------------------------------------------------
(***************************************************************************)
(* Sequences in the order of a measure g of their members.                 *)
(***************************************************************************)
SortedBy(g, s) == \A i, j \in 1 .. Len(s) : i < j => g[s[i]] < g[s[j]]
Holds(s, x) == \E i \in 1 .. Len(s) : s[i] = x

LEMMA SortedConcat ==
  ASSUME NEW T, NEW g, NEW r \in Seq(T), NEW s \in Seq(T), SortedBy(g, r), SortedBy(g, s),
         \A x, y \in T : Holds(r, x) /\ Holds(s, y) => g[x] < g[y]
  PROVE  /\ SortedBy(g, r \o s)
         /\ \A x : Holds(r \o s, x) <=> Holds(r, x) \/ Holds(s, x)
<1> DEFINE t == r \o s
           a == Len(r)
           b == Len(s)
<1>1. /\ a \in Nat /\ b \in Nat /\ Len(t) = a + b
      /\ \A i \in 1 .. a : t[i] = r[i] /\ r[i] \in T
      /\ \A i \in 1 .. b : t[a + i] = s[i] /\ s[i] \in T
  BY ConcatIs
<1> HIDE DEF t, a, b
<1>2. \A i \in 1 .. a + b : i \in 1 .. a \/ (i - a \in 1 .. b /\ a + (i - a) = i)
  BY <1>1
<1>3. \A i \in 1 .. a : Holds(r, r[i]) /\ i \in 1 .. a + b
  BY <1>1 DEF Holds, a
<1>4. \A i \in 1 .. b : Holds(s, s[i]) /\ a + i \in 1 .. a + b
  <2>1. \A i \in 1 .. b : a + i \in 1 .. a + b
    BY <1>1
  <2> QED BY <2>1 DEF Holds, b
<1>5. ASSUME NEW i \in 1 .. a + b, NEW j \in 1 .. a + b, i < j PROVE g[t[i]] < g[t[j]]
  <2>1. CASE i \in 1 .. a /\ j \in 1 .. a
    BY <1>1, <1>5, <2>1 DEF SortedBy, a
  <2>2. CASE i \in 1 .. a /\ j - a \in 1 .. b /\ a + (j - a) = j
    <3>1. t[i] = r[i] /\ r[i] \in T /\ Holds(r, r[i])
      BY <1>1, <1>3, <2>2
    <3>2. t[j] = s[j - a] /\ s[j - a] \in T /\ Holds(s, s[j - a])
      BY <1>1, <1>4, <2>2
    <3> QED BY <3>1, <3>2
  <2>3. CASE i - a \in 1 .. b /\ a + (i - a) = i /\ j - a \in 1 .. b /\ a + (j - a) = j
    <3>1. i - a < j - a
      BY <1>1, <1>5
    <3>2. t[i] = s[i - a] /\ t[j] = s[j - a]
      BY <1>1, <2>3
    <3> QED BY <2>3, <3>1, <3>2 DEF SortedBy, b
  <2>4. ~(i - a \in 1 .. b /\ j \in 1 .. a)
    BY <1>1, <1>5
  <2> QED BY <1>2, <2>1, <2>2, <2>3, <2>4
<1>6. SortedBy(g, t)
  BY <1>1, <1>5 DEF SortedBy
<1>7. ASSUME NEW x PROVE Holds(t, x) <=> Holds(r, x) \/ Holds(s, x)
  <2>1. ASSUME NEW i \in 1 .. a + b, t[i] = x PROVE Holds(r, x) \/ Holds(s, x)
    <3>1. CASE i \in 1 .. a
      BY <1>1, <1>3, <2>1, <3>1
    <3>2. CASE i - a \in 1 .. b /\ a + (i - a) = i
      BY <1>1, <1>4, <2>1, <3>2
    <3> QED BY <1>2, <3>1, <3>2
  <2>2. ASSUME NEW i \in 1 .. a, r[i] = x PROVE Holds(t, x)
    BY <1>1, <1>3, <2>2 DEF Holds
  <2>3. ASSUME NEW i \in 1 .. b, s[i] = x PROVE Holds(t, x)
    BY <1>1, <1>4, <2>3 DEF Holds
  <2>4. (Holds(r, x) <=> \E i \in 1 .. a : r[i] = x) /\ (Holds(s, x) <=> \E i \in 1 .. b : s[i] = x)
    BY DEF Holds, a, b
  <2>5. Holds(t, x) <=> \E i \in 1 .. a + b : t[i] = x
    BY <1>1 DEF Holds
  <2> QED BY <2>1, <2>2, <2>3, <2>4, <2>5
<1> QED BY <1>6, <1>7 DEF t

FlatUpTo(T, g, ss, r, n) ==
  /\ r \in Seq(T) /\ SortedBy(g, r)
  /\ \A x : Holds(r, x) <=> \E m \in 1 .. n : Holds(ss[m], x)

LEMMA FlattenSorted ==
  ASSUME NEW T, NEW g, NEW ss \in Seq(Seq(T)),
         \A n \in 1 .. Len(ss) : SortedBy(g, ss[n]),
         \A m, n \in 1 .. Len(ss) : m < n =>
           \A x, y \in T : Holds(ss[m], x) /\ Holds(ss[n], y) => g[x] < g[y]
  PROVE  /\ FlattenSeq(ss) \in Seq(T) /\ SortedBy(g, FlattenSeq(ss))
         /\ \A x : Holds(FlattenSeq(ss), x) <=> \E n \in 1 .. Len(ss) : Holds(ss[n], x)
<1> DEFINE N == Len(ss)
<1>1. N \in Nat /\ \A n \in 1 .. N : ss[n] \in Seq(T)
  OBVIOUS
<1>2. PICK f \in [0 .. N -> Seq(T)] : Flattens(f, ss) /\ FlattenSeq(ss) = f[N]
  BY FlattenIsFold
<1>3. f[0] = <<>> /\ \A n \in 1 .. N : f[n] = f[n - 1] \o ss[n]
  BY <1>2 DEF Flattens
<1> HIDE DEF N
<1> DEFINE S == {n \in 0 .. N : FlatUpTo(T, g, ss, f[n], n)}
<1>4. FlatUpTo(T, g, ss, f[0], 0)
  <2>1. Len(<<>>) = 0 /\ <<>> \in Seq(T) /\ 1 .. 0 = {}
    OBVIOUS
  <2>2. SortedBy(g, <<>>) /\ \A x : ~Holds(<<>>, x)
    BY <2>1 DEF SortedBy, Holds
  <2> QED BY <1>3, <2>1, <2>2 DEF FlatUpTo
<1>5. ASSUME NEW n \in 1 .. N, FlatUpTo(T, g, ss, f[n - 1], n - 1) PROVE FlatUpTo(T, g, ss, f[n], n)
  <2>0. N = Len(ss)
    BY DEF N
  <2>1. /\ ss[n] \in Seq(T) /\ f[n - 1] \in Seq(T) /\ f[n] = f[n - 1] \o ss[n]
        /\ SortedBy(g, ss[n]) /\ SortedBy(g, f[n - 1])
    BY <1>1, <1>3, <1>5, <2>0 DEF FlatUpTo
  <2>2. \A m \in 1 .. n - 1 : m \in 1 .. N /\ m < n
    BY <1>1
  <2>3. \A x, y \in T : Holds(f[n - 1], x) /\ Holds(ss[n], y) => g[x] < g[y]
    <3> SUFFICES ASSUME NEW x \in T, NEW y \in T, Holds(f[n - 1], x), Holds(ss[n], y) PROVE g[x] < g[y]
      OBVIOUS
    <3>1. PICK m \in 1 .. n - 1 : Holds(ss[m], x)
      BY <1>5 DEF FlatUpTo
    <3> QED BY <2>0, <2>2, <3>1
  <2>4. /\ SortedBy(g, f[n])
        /\ \A x : Holds(f[n], x) <=> Holds(f[n - 1], x) \/ Holds(ss[n], x)
    <3>1. /\ SortedBy(g, f[n - 1] \o ss[n])
          /\ \A x : Holds(f[n - 1] \o ss[n], x) <=> Holds(f[n - 1], x) \/ Holds(ss[n], x)
      BY <2>1, <2>3, SortedConcat
    <3> QED BY <2>1, <3>1
  <2>5. f[n] \in Seq(T)
    BY <2>1, ConcatIs
  <2>6. \A m : m \in 1 .. n <=> m \in 1 .. n - 1 \/ m = n
    BY <1>1
  <2>7. \A x : Holds(f[n - 1], x) <=> \E m \in 1 .. n - 1 : Holds(ss[m], x)
    BY <1>5 DEF FlatUpTo
  <2>8. \A x : Holds(f[n], x) <=> \E m \in 1 .. n : Holds(ss[m], x)
    BY <2>4, <2>6, <2>7, Zenon
  <2> QED BY <2>4, <2>5, <2>8 DEF FlatUpTo
<1>6. \A n \in 0 .. N : n \in S
  <2>1. 0 \in S
    BY <1>1, <1>4
  <2>2. \A n \in 1 .. N : n - 1 \in S => n \in S
    <3> SUFFICES ASSUME NEW n \in 1 .. N, n - 1 \in S PROVE n \in S
      OBVIOUS
    <3>1. n \in 0 .. N
      BY <1>1
    <3> QED BY <1>5, <3>1
  <2> HIDE DEF S
  <2> QED BY <1>1, <2>1, <2>2, UpTo
<1>7. FlatUpTo(T, g, ss, f[N], N)
  <2>1. N \in 0 .. N
    BY <1>1
  <2> QED BY <1>6, <2>1
<1> QED BY <1>2, <1>7 DEF N, FlatUpTo

-----------------------------------------------------------------------------
(***************************************************************************)
(* The tokens of a node in use.                                            *)
(***************************************************************************)
LEMMA NodeIs ==
  ASSUME Listed(Here), NEW n \in Node
  PROVE  /\ node[n].type = Kind(Here, n) /\ node[n].start = Begins(Here, n)
         /\ node[n].end = Ends(Here, n) /\ node[n].children = Kids(Here, n)
         /\ Size(n) = Len(Kids(Here, n)) /\ Size(n) \in Nat /\ DOMAIN Kids(Here, n) = 1 .. Size(n)
         /\ \A i : Child(n, i) = Kids(Here, n)[i]
         /\ n \in DOMAIN Here.nodes
<1>1. n \in DOMAIN Here.nodes /\ Here.tokens \in Toks /\ Here.nodes \in Seq(NodeRecord)
  BY HereIs, ListIs DEF Node
<1>2. Len(Kids(Here, n)) \in Nat /\ DOMAIN Kids(Here, n) = 1 .. Len(Kids(Here, n))
  BY <1>1, DocumentIs
<1>3. /\ node[n].type = Kind(Here, n) /\ node[n].start = Begins(Here, n)
      /\ node[n].end = Ends(Here, n) /\ node[n].children = Kids(Here, n)
  BY HereIs DEF Kind, Begins, Ends, Kids
<1> QED BY <1>1, <1>2, <1>3 DEF Size, Child

SpanOf(n, s) ==
  /\ s \in Refs /\ Len(s) = To(Here, n) - From(Here, n) + 1
  /\ \A j \in 1 .. Len(s) :
       From(Here, n) + j - 1 \in 1 .. Len(list) /\ s[j] = list[From(Here, n) + j - 1]

LEMMA SpanIs ==
  ASSUME WellFormed(Here), NEW n \in Node, Live(Here, n)
  PROVE  SpanOf(n, Span(n))
<1> DEFINE a == From(Here, n)
           b == To(Here, n)
           e == Begins(Here, n)
           f == NextOf(Ends(Here, n))
           l == Len(list)
           r == Between(e, f)
<1>1. Listed(Here)
  BY DEF WellFormed
<1>2. /\ n \in DOMAIN Here.nodes /\ node[n].start = e /\ node[n].end = Ends(Here, n)
  BY <1>1, NodeIs
<1>3. /\ Held(Here, e) /\ Held(Here, Ends(Here, n)) /\ l \in Nat
      /\ a \in 1 .. l /\ b \in 1 .. l /\ a <= b
  BY <1>2, LiveNode, HereIs
<1>4. a = Pos(Here, e) /\ b = Pos(Here, Ends(Here, n)) /\ list[a] = e /\ e \in DOMAIN token
  BY <1>1, <1>3, PosIs, HereIs DEF From, To
<1>5. Span(n) = <<e>> \o r
  BY <1>2, <1>3, HereIs DEF Span
<1>6. f = IF b < l THEN list[b + 1] ELSE 0
  BY <1>3, <1>4, HereIs DEF NextOf, Nil
<1>7. Follows(r, e, f)
  BY <1>1, <1>3, StretchIs
<1> HIDE DEF f, l, r, a, b, e
<1>8. Len(r) = b - a
  <2>1. CASE b < l
    <3>1. b + 1 \in 1 .. l /\ f = list[b + 1]
      BY <1>3, <1>6, <2>1
    <3>2. Held(Here, f) /\ Pos(Here, f) = b + 1
      BY <1>1, <3>1, PosOf, HereIs, ListIs DEF l
    <3>3. Len(r) = (b + 1) - a - 1
      BY <1>3, <1>4, <1>7, <3>2 DEF Follows
    <3> QED BY <1>3, <3>3
  <2>2. CASE ~(b < l)
    <3>1. b = l /\ f = 0
      BY <1>3, <1>6, <2>2
    <3>2. ~Held(Here, f)
      <4>1. \A i \in DOMAIN list : list[i] \in 1 .. Len(token)
        BY <1>1, ListIs DEF Refs
      <4> QED BY <3>1, <4>1, HereIs DEF Held
    <3>3. Len(r) = l - a
      BY <1>4, <1>7, <3>2 DEF Follows, l
    <3> QED BY <3>1, <3>3
  <2> QED BY <2>1, <2>2
<1>9. r \in Refs /\ \A j \in 1 .. b - a : a + j \in 1 .. l /\ r[j] = list[a + j]
  BY <1>4, <1>7, <1>8 DEF Follows, l
<1>10. <<e>> \in Refs /\ Len(<<e>>) = 1 /\ <<e>>[1] = e
  BY <1>4 DEF Refs
<1> DEFINE s == <<e>> \o r
<1>11. Joins(DOMAIN token, s, <<e>>, r)
  BY <1>9, <1>10, ConcatOf DEF Refs
<1> HIDE DEF s
<1>12. /\ s \in Refs /\ Len(s) = 1 + (b - a) /\ s[1] = e
       /\ \A j \in 1 .. b - a : s[1 + j] = list[a + j]
  <2>1. 1 \in 1 .. 1
    OBVIOUS
  <2> QED BY <1>8, <1>9, <1>10, <1>11, <2>1 DEF Joins, Refs
<1>13. ASSUME NEW j \in 1 .. 1 + (b - a) PROVE a + j - 1 \in 1 .. l /\ s[j] = list[a + j - 1]
  <2>1. CASE j = 1
    <3>1. a + j - 1 = a
      BY <1>3, <2>1
    <3> QED BY <1>3, <1>4, <1>12, <2>1, <3>1
  <2>2. CASE j # 1
    <3>1. j - 1 \in 1 .. b - a /\ 1 + (j - 1) = j /\ a + (j - 1) = a + j - 1
      BY <1>3, <2>2
    <3>2. s[1 + (j - 1)] = list[a + (j - 1)] /\ a + (j - 1) \in 1 .. l
      BY <1>9, <1>12, <3>1
    <3> QED BY <3>1, <3>2
  <2> QED BY <2>1, <2>2
<1>14. 1 + (b - a) = b - a + 1
  BY <1>3
<1>15. SpanOf(n, s)
  BY <1>12, <1>13, <1>14 DEF SpanOf, a, b, l
<1> QED BY <1>5, <1>15 DEF s

-----------------------------------------------------------------------------
(***************************************************************************)
(* The nodes of a subtree: those whose tokens lie in the span of its root, *)
(* in the order of their first tokens.                                     *)
(***************************************************************************)
Below(k, m) ==
  /\ m \in Node /\ Live(Here, m)
  /\ From(Here, k) <= From(Here, m) /\ To(Here, m) <= To(Here, k)

Order == [m \in Node |-> From(Here, m)]

IsWalk(k, s) == s \in Seq(Node) /\ SortedBy(Order, s) /\ \A m : Holds(s, m) <=> Below(k, m)

LEMMA BelowIs ==
  ASSUME WellFormed(Here), NEW k \in Node, Live(Here, k), NEW m
  PROVE  Below(k, m) <=> m = k \/ \E i \in DOMAIN Kids(Here, k) : Below(Kids(Here, k)[i], m)
<1>1. Listed(Here) /\ k \in DOMAIN Here.nodes /\ Node = DOMAIN Here.nodes
  BY HereIs DEF WellFormed, Node
<1>2. \A x \in Node : Live(Here, x) =>
        From(Here, x) \in Nat /\ To(Here, x) \in Nat /\ From(Here, x) <= To(Here, x)
  BY <1>1, LiveNode
<1>3. \A i \in DOMAIN Kids(Here, k) :
        LET c == Kids(Here, k)[i]
        IN  c \in Node /\ Live(Here, c) /\ From(Here, k) < From(Here, c) /\ To(Here, c) < To(Here, k)
  BY <1>1, LiveNode DEF Within
<1>4. Below(k, k)
  BY <1>2 DEF Below
<1>5. ASSUME NEW i \in DOMAIN Kids(Here, k), Below(Kids(Here, k)[i], m) PROVE Below(k, m)
  BY <1>2, <1>3, <1>5 DEF Below
<1>6. ASSUME Below(k, m), m # k PROVE \E i \in DOMAIN Kids(Here, k) : Below(Kids(Here, k)[i], m)
  <2>1. m \in Node /\ Live(Here, m) /\ From(Here, k) <= From(Here, m) /\ To(Here, m) <= To(Here, k)
    BY <1>6 DEF Below
  <2>2. From(Here, m) \in From(Here, k) .. To(Here, k)
    BY <1>2, <2>1
  <2>3. Inside(Here, m, k) \/ Inside(Here, k, m)
    BY <1>1, <1>6, <2>1, <2>2, OwnEnds
  <2>4. ~Inside(Here, k, m)
    <3>1. Inside(Here, k, m) => From(Here, m) < From(Here, k)
      BY <1>1, <2>1, InsideIs
    <3> QED BY <1>2, <2>1, <3>1
  <2>5. PICK i \in DOMAIN Kids(Here, k) :
          \/ Kids(Here, k)[i] = m
          \/ From(Here, Kids(Here, k)[i]) < From(Here, m) /\ To(Here, m) < To(Here, Kids(Here, k)[i])
    BY <2>3, <2>4 DEF Inside
  <2>6. Below(Kids(Here, k)[i], m)
    BY <1>2, <1>3, <2>1, <2>5 DEF Below
  <2> QED BY <2>6
<1> QED BY <1>4, <1>5, <1>6

\* Children come later in the allocation order: the walk is found from the youngest node on.
WalkStep(w, k) == <<k>> \o FlattenSeq([i \in 1 .. Size(k) |-> w[Child(k, i)]])
Walks(w) == w = [k \in Node |-> WalkStep(w, k)]

LEMMA YoungerKids ==
  ASSUME WellFormed(Here)
  PROVE  /\ Len(node) \in Nat /\ Node = 1 .. Len(node)
         /\ \A k \in Node : Size(k) \in Nat /\ \A i \in 1 .. Size(k) : Child(k, i) \in Node /\ k < Child(k, i)
<1>1. Listed(Here) /\ Linked(Here)
  BY DEF WellFormed
<1>2. Len(node) \in Nat /\ Node = 1 .. Len(node)
  BY <1>1, ListIs DEF Node
<1>3. ASSUME NEW k \in Node
      PROVE  Size(k) \in Nat /\ \A i \in 1 .. Size(k) : Child(k, i) \in Node /\ k < Child(k, i)
  <2>1. LinkedAt(Here, k) /\ Here.nodes = node
    BY <1>1, HereIs DEF Linked, Node
  <2> QED BY <1>1, <2>1, NodeIs DEF LinkedAt, Node
<1> QED BY <1>2, <1>3

LEMMA WalkStepIs ==
  ASSUME WellFormed(Here), NEW k \in Node, NEW T, NEW w, k \in T,
         \A i \in 1 .. Size(k) : w[Child(k, i)] \in Seq(T)
  PROVE  /\ [i \in 1 .. Size(k) |-> w[Child(k, i)]] \in Seq(Seq(T))
         /\ Len([i \in 1 .. Size(k) |-> w[Child(k, i)]]) = Size(k)
         /\ WalkStep(w, k) \in Seq(T)
<1> DEFINE ss == [i \in 1 .. Size(k) |-> w[Child(k, i)]]
<1>1. Size(k) \in Nat
  BY YoungerKids
<1>2. ss \in [1 .. Size(k) -> Seq(T)]
  OBVIOUS
<1> HIDE DEF ss
<1>3. ss \in Seq(Seq(T)) /\ Len(ss) = Size(k)
  BY <1>1, <1>2, FunctionIsSeq
<1>4. FlattenSeq(ss) \in Seq(T)
  <2>1. PICK f \in [0 .. Len(ss) -> Seq(T)] : FlattenSeq(ss) = f[Len(ss)]
    BY <1>3, FlattenIsFold
  <2> QED BY <1>1, <1>3, <2>1
<1>5. <<k>> \in Seq(T)
  OBVIOUS
<1>6. <<k>> \o FlattenSeq(ss) \in Seq(T)
  BY <1>4, <1>5, ConcatIs
<1> QED BY <1>3, <1>6 DEF WalkStep, ss

LEMMA SameStep ==
  ASSUME NEW k, NEW v, NEW w, \A i \in 1 .. Size(k) : v[Child(k, i)] = w[Child(k, i)]
  PROVE  WalkStep(v, k) = WalkStep(w, k)
<1>1. [i \in 1 .. Size(k) |-> v[Child(k, i)]] = [i \in 1 .. Size(k) |-> w[Child(k, i)]]
  OBVIOUS
<1> QED BY <1>1, Zenon DEF WalkStep

LEMMA WalkExists ==
  ASSUME WellFormed(Here)
  PROVE  \E w : Walks(w)
<1> DEFINE N == Len(node)
           V == [Node -> Seq(Node)]
           base == [k \in Node |-> <<>>]
           Next1(w, j) == [k \in Node |-> IF k = N - j + 1 THEN WalkStep(w, k) ELSE w[k]]
           step == [p \in V \X (1 .. N) |-> Next1(p[1], p[2])]
<1>1. /\ N \in Nat /\ Node = 1 .. N
      /\ \A k \in Node : \A i \in 1 .. Size(k) : Child(k, i) \in Node /\ k < Child(k, i)
  BY YoungerKids
<1>2. \A w \in V : \A k \in Node : WalkStep(w, k) \in Seq(Node)
  <2> SUFFICES ASSUME NEW w \in V, NEW k \in Node PROVE WalkStep(w, k) \in Seq(Node)
    OBVIOUS
  <2>1. \A i \in 1 .. Size(k) : w[Child(k, i)] \in Seq(Node)
    BY <1>1
  <2> QED BY <2>1, WalkStepIs
<1>3. base \in V
  OBVIOUS
<1>4. \A w \in V : \A j \in 1 .. N : Next1(w, j) \in V
  BY <1>2
<1> HIDE DEF N, base
<1>5. step \in [V \X (1 .. N) -> V]
  <2> HIDE DEF Next1, V
  <2> QED BY <1>4
<1>6. PICK f \in [0 .. N -> V] : IsFold(f, N, base, step)
  <2> HIDE DEF V, step
  <2> QED BY <1>1, <1>3, <1>5, FoldExists
<1>7. \A j \in 1 .. N : f[j - 1] \in V /\ f[j] = Next1(f[j - 1], j)
  <2> SUFFICES ASSUME NEW j \in 1 .. N PROVE f[j - 1] \in V /\ f[j] = Next1(f[j - 1], j)
    OBVIOUS
  <2> HIDE DEF V, Next1
  <2>1. j - 1 \in 0 .. N
    BY <1>1
  <2>2. f[j - 1] \in V
    BY <2>1
  <2>3. f[j] = step[<<f[j - 1], j>>]
    BY <1>6 DEF IsFold
  <2> QED BY <2>2, <2>3
<1> DEFINE Right(j) == \A k \in Node : k > N - j => f[j][k] = WalkStep(f[j], k)
           S == {j \in 0 .. N : Right(j)}
<1>8. Right(0)
  BY <1>1
<1>9. ASSUME NEW j \in 1 .. N, Right(j - 1) PROVE Right(j)
  <2> DEFINE v == f[j - 1]
             w == f[j]
  <2>1. \A k \in Node : w[k] = IF k = N - j + 1 THEN WalkStep(v, k) ELSE v[k]
    BY <1>7, ZenonT(30)
  <2> SUFFICES ASSUME NEW k \in Node, k > N - j PROVE w[k] = WalkStep(w, k)
    OBVIOUS
  <2> HIDE DEF v, w
  <2>2. \A i \in 1 .. Size(k) : v[Child(k, i)] = w[Child(k, i)]
    <3> SUFFICES ASSUME NEW i \in 1 .. Size(k) PROVE v[Child(k, i)] = w[Child(k, i)]
      OBVIOUS
    <3>1. Child(k, i) \in Node /\ k < Child(k, i)
      BY <1>1
    <3>2. Child(k, i) # N - j + 1
      BY <1>1, <3>1
    <3> QED BY <2>1, <3>1, <3>2
  <2>3. WalkStep(v, k) = WalkStep(w, k)
    BY <2>2, SameStep
  <2>4. CASE k = N - j + 1
    BY <2>1, <2>3, <2>4
  <2>5. CASE k # N - j + 1
    <3>1. k > N - (j - 1)
      BY <1>1, <2>5
    <3>2. v[k] = WalkStep(v, k)
      BY <1>9, <3>1 DEF v
    <3> QED BY <2>1, <2>3, <2>5, <3>2
  <2> QED BY <2>4, <2>5
<1> HIDE DEF Right
<1>10. \A j \in 0 .. N : j \in S
  <2>1. 0 \in S
    BY <1>1, <1>8
  <2>2. \A j \in 1 .. N : j - 1 \in S => j \in S
    <3> SUFFICES ASSUME NEW j \in 1 .. N, j - 1 \in S PROVE j \in S
      OBVIOUS
    <3>1. j \in 0 .. N
      BY <1>1
    <3> QED BY <1>9, <3>1
  <2> HIDE DEF S
  <2> QED BY <1>1, <2>1, <2>2, UpTo
<1>11. f[N] \in V /\ \A k \in Node : f[N][k] = WalkStep(f[N], k)
  <2>1. N \in 0 .. N
    BY <1>1
  <2>2. Right(N)
    BY <1>10, <2>1
  <2>3. f[N] \in V
    BY <2>1
  <2> HIDE DEF V
  <2>4. \A k \in Node : k > N - N
    BY <1>1
  <2> QED BY <2>2, <2>3, <2>4 DEF Right
<1>12. Walks(f[N])
  <2> DEFINE w == f[N]
  <2>1. w = [k \in Node |-> w[k]]
    BY <1>11
  <2>2. [k \in Node |-> w[k]] = [k \in Node |-> WalkStep(w, k)]
    BY <1>11, Zenon
  <2> HIDE DEF w
  <2>3. w = [k \in Node |-> WalkStep(w, k)]
    BY <2>1, <2>2, Zenon
  <2> QED BY <2>3 DEF Walks, w
<1> QED BY <1>12

\* The one that the model calls walk.
LEMMA WalkIs ==
  ASSUME WellFormed(Here)
  PROVE  \E w : (\A k \in Node : w[k] = WalkStep(w, k)) /\ \A n : Walk(n) = w[n]
<1> DEFINE w == CHOOSE w : w = [k \in Node |-> <<k>> \o FlattenSeq([i \in 1 .. Size(k) |-> w[Child(k, i)]])]
<1>1. \E v : v = [k \in Node |-> <<k>> \o FlattenSeq([i \in 1 .. Size(k) |-> v[Child(k, i)]])]
  BY WalkExists, Zenon DEF Walks, WalkStep
<1>2. w = [k \in Node |-> <<k>> \o FlattenSeq([i \in 1 .. Size(k) |-> w[Child(k, i)]])]
  BY <1>1, Zenon
<1>3. \A n : Walk(n) = w[n]
  BY Zenon DEF Walk
<1> HIDE DEF w
<1>4. \A k \in Node : w[k] = WalkStep(w, k)
  BY <1>2, Zenon DEF WalkStep
<1> QED BY <1>3, <1>4

LEMMA WalkOf ==
  ASSUME WellFormed(Here), NEW n \in Node, Live(Here, n)
  PROVE  IsWalk(n, Walk(n))
<1>1. PICK w : (\A k \in Node : w[k] = WalkStep(w, k)) /\ \A k : Walk(k) = w[k]
  BY WalkIs
<1> DEFINE N == Len(node)
           B == {k \in Node : Live(Here, k) /\ ~IsWalk(k, w[k])}
<1>2. /\ N \in Nat /\ Node = 1 .. N
      /\ \A k \in Node : \A i \in 1 .. Size(k) : Child(k, i) \in Node /\ k < Child(k, i)
  BY YoungerKids
<1>3. SUFFICES ASSUME B # {} PROVE FALSE
  BY <1>1
<1>4. PICK k \in B : \A m \in B : m <= k
  <2>1. B \in SUBSET (0 .. N)
    BY <1>2
  <2> HIDE DEF B, N
  <2> QED BY <1>2, <1>3, <2>1, GreatestUpTo
<1>5. k \in Node /\ Live(Here, k) /\ ~IsWalk(k, w[k]) /\ Listed(Here) /\ k \in DOMAIN Here.nodes
  BY <1>4, HereIs DEF WellFormed, Node
<1> DEFINE s == Size(k)
           ss == [i \in 1 .. s |-> w[Child(k, i)]]
<1>6. /\ s \in Nat /\ DOMAIN Kids(Here, k) = 1 .. s
      /\ \A i \in 1 .. s : Child(k, i) = Kids(Here, k)[i]
  BY <1>5, NodeIs
<1>7. \A i \in 1 .. s : LET c == Child(k, i) IN c \in Node /\ Live(Here, c) /\ k < c /\ From(Here, k) < From(Here, c)
  BY <1>2, <1>5, <1>6, LiveNode DEF Within
<1>8. ASSUME NEW i \in 1 .. s PROVE IsWalk(Child(k, i), w[Child(k, i)])
  <2>1. Child(k, i) \in Node /\ Live(Here, Child(k, i)) /\ k < Child(k, i)
    BY <1>7
  <2>2. ~(Child(k, i) <= k)
    BY <1>2, <1>5, <2>1
  <2>3. Child(k, i) \notin B
    BY <1>4, <2>2
  <2> QED BY <2>1, <2>3
<1>9. \A x \in Node : Live(Here, x) => From(Here, x) \in Nat /\ To(Here, x) \in Nat /\ From(Here, x) <= To(Here, x)
  BY LiveNode, HereIs DEF Node
<1>10. \A i \in 1 .. s : w[Child(k, i)] \in Seq(Node)
  BY <1>8 DEF IsWalk
<1>11. ss \in Seq(Seq(Node)) /\ Len(ss) = s /\ w[k] = <<k>> \o FlattenSeq(ss)
  BY <1>1, <1>5, <1>10, WalkStepIs DEF WalkStep
<1>12. \A i \in 1 .. s : ss[i] = w[Child(k, i)]
  OBVIOUS
<1> HIDE DEF ss, s, N, B
<1>13. \A i \in 1 .. s : SortedBy(Order, ss[i]) /\ \A m : Holds(ss[i], m) <=> Below(Child(k, i), m)
  BY <1>8, <1>12 DEF IsWalk
<1>14. ASSUME NEW i \in 1 .. s, NEW j \in 1 .. s, i < j,
              NEW x \in Node, NEW y \in Node, Holds(ss[i], x), Holds(ss[j], y)
       PROVE  Order[x] < Order[y]
  <2>1. Below(Child(k, i), x) /\ Below(Child(k, j), y)
    BY <1>13, <1>14
  <2>2. To(Here, Child(k, i)) < From(Here, Child(k, j))
    BY <1>5, <1>6, <1>14, KidsInOrder
  <2>3. /\ Live(Here, x) /\ To(Here, x) <= To(Here, Child(k, i))
        /\ Live(Here, y) /\ From(Here, Child(k, j)) <= From(Here, y)
    BY <2>1 DEF Below
  <2>4. From(Here, x) < From(Here, y)
    BY <1>7, <1>9, <1>14, <2>2, <2>3
  <2> QED BY <2>4 DEF Order
<1> DEFINE t == FlattenSeq(ss)
<1>15. t \in Seq(Node) /\ SortedBy(Order, t) /\ \A x : Holds(t, x) <=> \E i \in 1 .. s : Holds(ss[i], x)
  <2>1. \A i \in 1 .. Len(ss) : SortedBy(Order, ss[i])
    BY <1>11, <1>13
  <2>2. \A i, j \in 1 .. Len(ss) : i < j =>
          \A x, y \in Node : Holds(ss[i], x) /\ Holds(ss[j], y) => Order[x] < Order[y]
    BY <1>11, <1>14
  <2>3. /\ t \in Seq(Node) /\ SortedBy(Order, t)
        /\ \A x : Holds(t, x) <=> \E i \in 1 .. Len(ss) : Holds(ss[i], x)
    <3> HIDE DEF t
    <3> QED BY <1>11, <2>1, <2>2, FlattenSorted DEF t
  <2> QED BY <1>11, <2>3
<1> HIDE DEF t
<1> DEFINE h == <<k>>
<1>16. h \in Seq(Node) /\ SortedBy(Order, h) /\ \A x : Holds(h, x) <=> x = k
  <2>1. h \in Seq(Node) /\ Len(h) = 1 /\ h[1] = k /\ 1 \in 1 .. 1
    BY <1>5
  <2> HIDE DEF h
  <2>2. \A i \in 1 .. 1 : i = 1
    OBVIOUS
  <2> QED BY <2>1, <2>2 DEF SortedBy, Holds
<1> HIDE DEF h
<1>17. ASSUME NEW x \in Node, NEW y \in Node, Holds(h, x), Holds(t, y) PROVE Order[x] < Order[y]
  <2>1. x = k
    BY <1>16, <1>17
  <2>2. PICK i \in 1 .. s : Holds(ss[i], y)
    BY <1>15, <1>17
  <2>3. Below(Child(k, i), y)
    BY <1>13, <2>2
  <2>4. From(Here, k) < From(Here, y)
    BY <1>5, <1>7, <1>9, <2>3 DEF Below
  <2> QED BY <2>1, <2>4 DEF Order
<1>18. /\ h \o t \in Seq(Node) /\ SortedBy(Order, h \o t)
       /\ \A x : Holds(h \o t, x) <=> Holds(h, x) \/ Holds(t, x)
  BY <1>15, <1>16, <1>17, SortedConcat, ConcatIs
<1>19. \A m : Holds(h \o t, m) <=> Below(k, m)
  <2> SUFFICES ASSUME NEW m PROVE Holds(h \o t, m) <=> Below(k, m)
    OBVIOUS
  <2>1. Holds(h \o t, m) <=> m = k \/ \E i \in 1 .. s : Below(Child(k, i), m)
    BY <1>13, <1>15, <1>16, <1>18
  <2>2. Below(k, m) <=> m = k \/ \E i \in 1 .. s : Below(Child(k, i), m)
    BY <1>5, <1>6, BelowIs
  <2> QED BY <2>1, <2>2
<1>20. w[k] = h \o t
  BY <1>11 DEF h, t
<1> QED BY <1>5, <1>18, <1>19, <1>20 DEF IsWalk

-----------------------------------------------------------------------------
(***************************************************************************)
(* The copy of a node in use: its tokens, and the nodes of its subtree in  *)
(* the order of their walk.                                                *)
(***************************************************************************)
Places(n, ks) ==
  /\ Len(ks) \in Nat /\ 1 \in 1 .. Len(ks) /\ ks[1] = n
  /\ \A i \in 1 .. Len(ks) : ks[i] \in Node /\ Below(n, ks[i])
  /\ \A m : Below(n, m) => \E i \in 1 .. Len(ks) : ks[i] = m
  /\ \A i, j \in 1 .. Len(ks) :
       /\ ks[i] = ks[j] => i = j
       /\ From(Here, ks[i]) < From(Here, ks[j]) => i < j

LEMMA WalkPlaces ==
  ASSUME WellFormed(Here), NEW n \in Node, Live(Here, n), NEW ks, IsWalk(n, ks)
  PROVE  Places(n, ks)
<1> DEFINE K == Len(ks)
<1>1. ks \in Seq(Node) /\ SortedBy(Order, ks) /\ \A m : Holds(ks, m) <=> Below(n, m)
  BY DEF IsWalk
<1>2. K \in Nat /\ \A i \in 1 .. K : ks[i] \in Node
  BY <1>1
<1>3. \A x \in Node : Live(Here, x) => From(Here, x) \in Nat /\ To(Here, x) \in Nat
  BY LiveNode, HereIs DEF Node
<1>4. \A i \in 1 .. K : Below(n, ks[i])
  BY <1>1 DEF Holds
<1>5. \A m : Below(n, m) => \E i \in 1 .. K : ks[i] = m
  BY <1>1 DEF Holds
<1>6. \A i \in 1 .. K : From(Here, ks[i]) \in Nat /\ From(Here, n) <= From(Here, ks[i])
  BY <1>2, <1>3, <1>4 DEF Below
<1>7. \A i, j \in 1 .. K : i < j => From(Here, ks[i]) < From(Here, ks[j])
  BY <1>1, <1>2 DEF SortedBy, Order
<1> HIDE DEF K
<1>8. ASSUME NEW i \in 1 .. K, NEW j \in 1 .. K
      PROVE  (ks[i] = ks[j] => i = j) /\ (From(Here, ks[i]) < From(Here, ks[j]) => i < j)
  <2>1. i < j \/ i = j \/ j < i
    BY <1>2
  <2>2. From(Here, ks[i]) \in Nat /\ From(Here, ks[j]) \in Nat
    BY <1>6
  <2>3. i < j => From(Here, ks[i]) < From(Here, ks[j])
    BY <1>7
  <2>4. j < i => From(Here, ks[j]) < From(Here, ks[i])
    BY <1>7
  <2>5. ks[i] = ks[j] => From(Here, ks[i]) = From(Here, ks[j])
    OBVIOUS
  <2>6. i = j => From(Here, ks[i]) = From(Here, ks[j])
    OBVIOUS
  <2> QED BY <2>1, <2>2, <2>3, <2>4, <2>5, <2>6
<1>9. PICK h \in 1 .. K : ks[h] = n
  <2>1. Below(n, n)
    BY BelowIs
  <2> QED BY <1>5, <2>1
<1>10. h = 1
  <2>1. 1 \in 1 .. K /\ (h = 1 \/ 1 < h)
    BY <1>2
  <2>2. 1 < h => From(Here, ks[1]) < From(Here, n)
    BY <1>7, <1>9, <2>1
  <2>3. From(Here, n) <= From(Here, ks[1]) /\ From(Here, ks[1]) \in Nat /\ From(Here, n) \in Nat
    BY <1>3, <1>6, <2>1
  <2> QED BY <2>1, <2>2, <2>3
<1> QED BY <1>2, <1>4, <1>5, <1>8, <1>9, <1>10 DEF Places, K

Copies(g, n, ks) ==
  /\ g.tokens \in Toks /\ Len(g.tokens) = To(Here, n) - From(Here, n) + 1
  /\ \A e \in DOMAIN g.tokens :
       From(Here, n) + e - 1 \in DOMAIN list /\ g.tokens[e] = token[list[From(Here, n) + e - 1]]
  /\ g.nodes \in Seq(NodeRecord) /\ Len(g.nodes) = Len(ks)
  /\ \A i \in 1 .. Len(ks) :
       /\ Kind(g, i) = Kind(Here, ks[i])
       /\ Begins(g, i) = From(Here, ks[i]) - From(Here, n) + 1
       /\ Ends(g, i) = To(Here, ks[i]) - From(Here, n) + 1
       /\ DOMAIN Kids(g, i) = DOMAIN Kids(Here, ks[i])
       /\ \A j \in DOMAIN Kids(Here, ks[i]) :
            Kids(g, i)[j] \in 1 .. Len(ks) /\ ks[Kids(g, i)[j]] = Kids(Here, ks[i])[j]

\* What is below a node in use is inside it, and its parent is below too.
LEMMA ParentBelow ==
  ASSUME WellFormed(Here), NEW n \in Node, Live(Here, n), NEW k, Below(n, k), k # n
  PROVE  \E m \in Node : Below(n, m) /\ \E i \in DOMAIN Kids(Here, m) : Kids(Here, m)[i] = k
<1>1. Node = DOMAIN Here.nodes /\ k \in Node /\ Live(Here, k)
  BY HereIs DEF Node, Below
<1>2. /\ \A x \in Node : Live(Here, x) =>
           From(Here, x) \in Nat /\ To(Here, x) \in Nat /\ From(Here, x) <= To(Here, x)
      /\ From(Here, n) <= From(Here, k) /\ To(Here, k) <= To(Here, n)
  BY <1>1, LiveNode DEF Below
<1>3. Inside(Here, k, n)
  <2>1. From(Here, k) \in From(Here, n) .. To(Here, n)
    BY <1>1, <1>2
  <2>2. Inside(Here, k, n) \/ Inside(Here, n, k)
    BY <1>1, <2>1, OwnEnds
  <2>3. Inside(Here, n, k) => From(Here, k) < From(Here, n)
    BY <1>1, InsideIs
  <2> QED BY <1>1, <1>2, <2>2, <2>3
<1>4. k # 1
  <2>1. SUFFICES ASSUME k = 1 PROVE FALSE
    OBVIOUS
  <2>2. n # 1
    BY <2>1
  <2>3. Inside(Here, n, k)
    BY <1>1, <2>1, <2>2, RootHolds
  <2>4. From(Here, k) < From(Here, n)
    BY <1>1, <2>3, InsideIs
  <2> QED BY <1>1, <1>2, <2>4
<1>5. PICK m \in Node : Live(Here, m) /\ \E i \in DOMAIN Kids(Here, m) : Kids(Here, m)[i] = k
  BY <1>1, <1>4, HasParent
<1>6. CASE m = n
  <2>1. Below(n, m)
    BY <1>6, BelowIs
  <2> QED BY <1>5, <2>1
<1>7. CASE m # n
  <2>1. Inside(Here, m, n)
    BY <1>1, <1>3, <1>5, <1>7, ParentInside
  <2>2. From(Here, n) < From(Here, m) /\ To(Here, m) < To(Here, n)
    BY <1>1, <1>5, <2>1, InsideIs
  <2>3. Below(n, m)
    BY <1>2, <1>5, <2>2 DEF Below
  <2> QED BY <1>5, <2>3
<1> QED BY <1>6, <1>7

\* A node of the copy, and the node it copies.
LEMMA CopyNode ==
  ASSUME WellFormed(Here), NEW n \in Node, Live(Here, n), NEW ks, Places(n, ks),
         NEW g, Copies(g, n, ks), NEW i \in DOMAIN g.nodes
  PROVE  /\ DOMAIN g.nodes = 1 .. Len(ks) /\ i \in Nat /\ DOMAIN g.tokens = 1 .. To(Here, n) - From(Here, n) + 1
         /\ Below(n, ks[i]) /\ ks[i] \in DOMAIN Here.nodes /\ Live(Here, ks[i])
         /\ From(Here, n) \in Nat /\ From(Here, ks[i]) \in Nat /\ To(Here, ks[i]) \in Nat
         /\ From(Here, n) <= From(Here, ks[i]) /\ To(Here, ks[i]) <= To(Here, n) /\ To(Here, n) \in Nat
         /\ From(Here, ks[i]) <= To(Here, ks[i])
         /\ Kind(g, i) = Kind(Here, ks[i])
         /\ Begins(g, i) = From(Here, ks[i]) - From(Here, n) + 1
         /\ Ends(g, i) = To(Here, ks[i]) - From(Here, n) + 1
         /\ DOMAIN Kids(g, i) = DOMAIN Kids(Here, ks[i]) /\ Len(Kids(g, i)) = Len(Kids(Here, ks[i]))
         /\ \A j \in DOMAIN Kids(g, i) :
              Kids(g, i)[j] \in DOMAIN g.nodes /\ ks[Kids(g, i)[j]] = Kids(Here, ks[i])[j]
<1>1. /\ DOMAIN g.nodes = 1 .. Len(g.nodes) /\ DOMAIN g.tokens = 1 .. Len(g.tokens)
      /\ Len(g.nodes) = Len(ks) /\ Len(g.tokens) = To(Here, n) - From(Here, n) + 1
      /\ Kids(g, i) \in Seq(Nat)
  BY DocumentIs DEF Copies
<1>2. i \in 1 .. Len(ks) /\ i \in Nat /\ Below(n, ks[i]) /\ ks[i] \in DOMAIN Here.nodes
  BY <1>1, HereIs DEF Places, Node
<1>3. /\ Live(Here, ks[i]) /\ From(Here, n) <= From(Here, ks[i]) /\ To(Here, ks[i]) <= To(Here, n)
      /\ n \in DOMAIN Here.nodes
  BY <1>2, HereIs DEF Below, Node
<1>4. /\ From(Here, n) \in Nat /\ To(Here, n) \in Nat
      /\ From(Here, ks[i]) \in Nat /\ To(Here, ks[i]) \in Nat /\ From(Here, ks[i]) <= To(Here, ks[i])
  BY <1>2, <1>3, LiveNode
<1>5. /\ Kind(g, i) = Kind(Here, ks[i])
      /\ Begins(g, i) = From(Here, ks[i]) - From(Here, n) + 1
      /\ Ends(g, i) = To(Here, ks[i]) - From(Here, n) + 1
      /\ DOMAIN Kids(g, i) = DOMAIN Kids(Here, ks[i])
      /\ \A j \in DOMAIN Kids(Here, ks[i]) :
           Kids(g, i)[j] \in 1 .. Len(ks) /\ ks[Kids(g, i)[j]] = Kids(Here, ks[i])[j]
  BY <1>2 DEF Copies
<1>6. Len(Kids(g, i)) = Len(Kids(Here, ks[i]))
  <2>1. Kids(Here, ks[i]) \in Seq(Nat)
    BY <1>2, DocumentIs DEF WellFormed, Listed
  <2> QED BY <1>1, <1>5, <2>1
<1> QED BY <1>1, <1>2, <1>3, <1>4, <1>5, <1>6

LEMMA CopiesKeep ==
  ASSUME WellFormed(Here), NEW n \in Node, Live(Here, n), Kind(Here, n) \notin WrapperType,
         NEW ks, Places(n, ks), NEW g, Copies(g, n, ks)
  PROVE  Fragment(g) /\ g.nodes # <<>> /\ Kind(g, 1) = Kind(Here, n)
<1> DEFINE F(i) == From(Here, ks[i])
           T(i) == To(Here, ks[i])
           a == From(Here, n)
           b == To(Here, n)
           N == DOMAIN g.nodes
<1>1. g.tokens \in Toks /\ g.nodes \in Seq(NodeRecord)
  BY DEF Copies
<1>2. 1 \in N /\ ks[1] = n /\ N = 1 .. Len(ks) /\ Len(ks) \in Nat
  <2>1. N = 1 .. Len(g.nodes) /\ Len(g.nodes) = Len(ks)
    BY DocumentIs DEF Copies
  <2> QED BY <2>1 DEF Places
<1>3. a \in Nat /\ b \in Nat /\ DOMAIN g.tokens = 1 .. b - a + 1 /\ n \in DOMAIN Here.nodes
  BY <1>2, CopyNode, HereIs DEF Node
<1>4. \A i \in N :
        /\ F(i) \in Nat /\ T(i) \in Nat /\ a <= F(i) /\ T(i) <= b /\ F(i) <= T(i)
        /\ Begins(g, i) = F(i) - a + 1 /\ Ends(g, i) = T(i) - a + 1
        /\ Kind(g, i) = Kind(Here, ks[i]) /\ ks[i] \in DOMAIN Here.nodes /\ Live(Here, ks[i])
        /\ Below(n, ks[i]) /\ i \in Nat
  BY CopyNode
<1>5. \A i \in N :
        /\ DOMAIN Kids(g, i) = DOMAIN Kids(Here, ks[i]) /\ Len(Kids(g, i)) = Len(Kids(Here, ks[i]))
        /\ \A j \in DOMAIN Kids(g, i) :
             Kids(g, i)[j] \in N /\ ks[Kids(g, i)[j]] = Kids(Here, ks[i])[j]
  BY CopyNode
<1>6. \A e \in DOMAIN g.tokens : a + e - 1 \in DOMAIN list /\ g.tokens[e] = token[list[a + e - 1]]
  BY DEF Copies
<1>7. \A i, j \in N : (ks[i] = ks[j] => i = j) /\ (F(i) < F(j) => i < j)
  BY <1>2 DEF Places
<1>8. \A m : Below(n, m) => \E i \in N : ks[i] = m
  BY <1>2 DEF Places
<1>9. ASSUME NEW i \in N
      PROVE  /\ StandingAt(Here, ks[i]) /\ FormedAt(Here, ks[i])
             /\ list[F(i)] = Begins(Here, ks[i]) /\ list[T(i)] = Ends(Here, ks[i])
             /\ F(i) \in DOMAIN list /\ T(i) \in DOMAIN list
  <2>1. StandingAt(Here, ks[i]) /\ FormedAt(Here, ks[i]) /\ Listed(Here)
    BY <1>4 DEF WellFormed, Standing, Formed
  <2>2. Held(Here, Begins(Here, ks[i])) /\ Held(Here, Ends(Here, ks[i]))
    BY <1>4, LiveNode
  <2> QED BY <2>1, <2>2, PosIs, HereIs DEF From, To
<1> HIDE DEF F, T, a, b, N
<1>10. Linked(g)
  <2> SUFFICES ASSUME NEW i \in N PROVE LinkedAt(g, i)
    BY DEF Linked, N
  <2>1. F(i) - a + 1 \in 1 .. b - a + 1 /\ T(i) - a + 1 \in 1 .. b - a + 1
    BY <1>3, <1>4
  <2>2. Begins(g, i) \in DOMAIN g.tokens /\ Ends(g, i) \in DOMAIN g.tokens
    BY <1>3, <1>4, <2>1
  <2>3. ASSUME NEW j \in DOMAIN Kids(g, i) PROVE Kids(g, i)[j] \in N /\ i < Kids(g, i)[j]
    <3>1. Kids(g, i)[j] \in N /\ ks[Kids(g, i)[j]] = Kids(Here, ks[i])[j] /\ j \in DOMAIN Kids(Here, ks[i])
      BY <1>5
    <3>2. From(Here, ks[i]) < From(Here, Kids(Here, ks[i])[j])
      BY <1>4, <3>1, LiveNode DEF Within
    <3>3. F(i) < F(Kids(g, i)[j])
      BY <3>1, <3>2 DEF F
    <3> QED BY <1>7, <3>1, <3>3
  <2> QED BY <2>2, <2>3 DEF LinkedAt, N
<1>11. Formed(g)
  <2> SUFFICES ASSUME NEW i \in N PROVE FormedAt(g, i)
    BY DEF Formed, N
  <2>1. /\ FormedAt(Here, ks[i]) /\ Kind(g, i) = Kind(Here, ks[i]) /\ Len(Kids(g, i)) = Len(Kids(Here, ks[i]))
        /\ DOMAIN Kids(g, i) = DOMAIN Kids(Here, ks[i])
    BY <1>4, <1>5, <1>9
  <2>2. Full(g, i)
    BY <2>1 DEF Full, FormedAt
  <2>3. ASSUME Kind(g, i) \notin ContainerType \union WrapperType
        PROVE  Kids(g, i) = <<>> /\ Ends(g, i) = Begins(g, i)
    <3>1. Kids(Here, ks[i]) = <<>> /\ Ends(Here, ks[i]) = Begins(Here, ks[i])
      BY <2>1, <2>3 DEF FormedAt
    <3>2. Len(Kids(g, i)) = 0 /\ Kids(g, i) \in Seq(Nat)
      BY <1>1, <2>1, <3>1, DocumentIs DEF N
    <3>3. F(i) = T(i)
      BY <3>1 DEF F, T, From, To
    <3> QED BY <1>4, <3>2, <3>3
  <2>4. ASSUME Kind(g, i) \in ContainerType PROVE Opening(g.tokens[Begins(g, i)])
    <3>1. F(i) - a + 1 \in 1 .. b - a + 1 /\ a + (F(i) - a + 1) - 1 = F(i)
      BY <1>3, <1>4
    <3>2. g.tokens[F(i) - a + 1] = token[list[F(i)]]
      BY <1>3, <1>6, <3>1
    <3>3. g.tokens[Begins(g, i)] = Here.tokens[Begins(Here, ks[i])]
      BY <1>4, <1>9, <3>2, HereIs
    <3> QED BY <2>1, <2>4, <3>3 DEF FormedAt
  <2>5. ASSUME NEW j \in DOMAIN Kids(g, i)
        PROVE  /\ Kind(g, i) = "object" => Kind(g, Kids(g, i)[j]) = "field"
               /\ Kind(g, i) = "array" => Kind(g, Kids(g, i)[j]) = "element"
               /\ Kind(g, i) \in WrapperType => Kind(g, Kids(g, i)[j]) \notin WrapperType
    <3>1. Kids(g, i)[j] \in N /\ ks[Kids(g, i)[j]] = Kids(Here, ks[i])[j] /\ j \in DOMAIN Kids(Here, ks[i])
      BY <1>5
    <3>2. Kind(g, Kids(g, i)[j]) = Kind(Here, Kids(Here, ks[i])[j])
      BY <1>4, <3>1
    <3> QED BY <2>1, <3>1, <3>2 DEF FormedAt
  <2> QED BY <2>2, <2>3, <2>4, <2>5 DEF FormedAt
<1>12. OneParent(g)
  <2> SUFFICES ASSUME NEW x \in N, NEW y \in N, NEW i \in DOMAIN Kids(g, x), NEW j \in DOMAIN Kids(g, y),
                      Kids(g, x)[i] = Kids(g, y)[j]
               PROVE  x = y /\ i = j
    BY Zenon DEF OneParent, N
  <2>1. /\ i \in DOMAIN Kids(Here, ks[x]) /\ j \in DOMAIN Kids(Here, ks[y])
        /\ Kids(Here, ks[x])[i] = Kids(Here, ks[y])[j]
        /\ ks[x] \in DOMAIN Here.nodes /\ ks[y] \in DOMAIN Here.nodes
    BY <1>4, <1>5, ZenonT(30)
  <2>2. ks[x] = ks[y] /\ i = j
    BY <2>1 DEF WellFormed, OneParent
  <2> QED BY <1>7, <2>2
<1>13. Nests(g)
  <2>1. ASSUME NEW i \in N PROVE Upright(g, i)
    <3>1. StandingAt(Here, ks[i]) /\ Live(Here, ks[i])
      BY <1>4, <1>9
    <3>2. Begins(g, i) <= Ends(g, i) /\ (Kind(g, i) \in ContainerType => Begins(g, i) < Ends(g, i))
      <4>1. Kind(g, i) \in ContainerType => F(i) < T(i)
        BY <1>4, <3>1 DEF StandingAt, F, T
      <4> QED BY <1>3, <1>4, <4>1
    <3>3. ASSUME NEW j \in DOMAIN Kids(g, i)
          PROVE  /\ Begins(g, i) < Begins(g, Kids(g, i)[j]) /\ Ends(g, Kids(g, i)[j]) < Ends(g, i)
                 /\ j > 1 => Ends(g, Kids(g, i)[j - 1]) < Begins(g, Kids(g, i)[j])
      <4> DEFINE c == Kids(g, i)[j]
      <4>1. c \in N /\ ks[c] = Kids(Here, ks[i])[j] /\ j \in DOMAIN Kids(Here, ks[i])
        BY <1>5
      <4>2. From(Here, ks[i]) < From(Here, ks[c]) /\ To(Here, ks[c]) < To(Here, ks[i])
        BY <3>1, <4>1 DEF StandingAt
      <4> HIDE DEF c
      <4>3. F(i) < F(c) /\ T(c) < T(i)
        BY <4>2 DEF F, T
      <4>4. Begins(g, i) < Begins(g, c) /\ Ends(g, c) < Ends(g, i)
        <5>1. /\ Begins(g, i) = F(i) - a + 1 /\ Ends(g, i) = T(i) - a + 1
              /\ Begins(g, c) = F(c) - a + 1 /\ Ends(g, c) = T(c) - a + 1
              /\ F(i) \in Nat /\ T(i) \in Nat /\ F(c) \in Nat /\ T(c) \in Nat
          BY <1>4, <4>1, SMTT(30)
        <5> QED BY ONLY <1>3, <4>3, <5>1, SMTT(30)
      <4>5. ASSUME j > 1 PROVE Ends(g, Kids(g, i)[j - 1]) < Begins(g, c)
        <5> DEFINE e == Kids(g, i)[j - 1]
        <5>1. j - 1 \in DOMAIN Kids(g, i)
          <6>1. DOMAIN Kids(g, i) = 1 .. Len(Kids(g, i))
            BY <1>1, DocumentIs DEF N
          <6> QED BY <4>5, <6>1
        <5>2. e \in N /\ ks[e] = Kids(Here, ks[i])[j - 1]
          BY <1>5, <5>1
        <5>3. To(Here, ks[e]) < From(Here, ks[c])
          BY <3>1, <4>1, <4>5, <5>2 DEF StandingAt
        <5> HIDE DEF e
        <5>4. T(e) < F(c)
          BY <5>3 DEF T, F
        <5>5. Ends(g, e) = T(e) - a + 1 /\ Begins(g, c) = F(c) - a + 1 /\ T(e) \in Nat /\ F(c) \in Nat
          BY <1>4, <4>1, <5>2, SMTT(30)
        <5>6. Ends(g, e) < Begins(g, c)
          BY ONLY <1>3, <5>4, <5>5, SMTT(30)
        <5> QED BY <5>6 DEF e
      <4> QED BY <4>4, <4>5 DEF c
    <3> QED BY <3>2, <3>3 DEF Upright
  <2> QED BY <2>1 DEF Nests, Upright, N
<1>14. Rooted(g)
  <2> SUFFICES ASSUME NEW i \in N, i # 1
               PROVE  \E m \in N : \E j \in DOMAIN Kids(g, m) : Kids(g, m)[j] = i
    BY Zenon DEF Rooted, N
  <2>1. Below(n, ks[i]) /\ ks[i] # n
    BY <1>2, <1>4, <1>7
  <2>2. PICK k \in Node : Below(n, k) /\ \E j \in DOMAIN Kids(Here, k) : Kids(Here, k)[j] = ks[i]
    BY <2>1, ParentBelow
  <2>3. PICK m \in N : ks[m] = k
    BY <1>8, <2>2
  <2>4. PICK j \in DOMAIN Kids(g, m) : Kids(Here, ks[m])[j] = ks[i]
    BY <1>5, <2>2, <2>3
  <2>5. Kids(g, m)[j] \in N /\ ks[Kids(g, m)[j]] = ks[i]
    BY <1>5, <2>4
  <2>6. Kids(g, m)[j] = i
    BY <1>7, <2>5
  <2> QED BY <2>6
<1>15. Ended(g)
  <2> SUFFICES ASSUME NEW e \in DOMAIN g.tokens
               PROVE  g.tokens[e] = Anchor <=>
                        \E i \in N : Kind(g, i) \in WrapperType /\ e \in {Begins(g, i), Ends(g, i)}
    BY Zenon DEF Ended, N
  <2> DEFINE p == a + e - 1
             t == list[p]
  <2>1. /\ p \in DOMAIN list /\ g.tokens[e] = token[t] /\ p \in a .. b /\ p - a + 1 = e /\ p \in Nat
        /\ e \in Int
    BY <1>3, <1>6
  <2>2. Listed(Here) /\ Held(Here, t) /\ t \in DOMAIN Here.tokens /\ Pos(Here, t) = p
    BY <2>1, HereIs, PosOf DEF WellFormed, Listed
  <2>3. token[t] = Anchor <=>
          \E k \in Node : Kind(Here, k) \in WrapperType /\ Live(Here, k) /\ t \in {Begins(Here, k), Ends(Here, k)}
    BY <2>2, HereIs DEF WellFormed, Marked, Node
  <2> HIDE DEF p, t
  <2>4. ASSUME NEW k \in Node, Kind(Here, k) \in WrapperType, Live(Here, k), t \in {Begins(Here, k), Ends(Here, k)}
        PROVE  \E i \in N : Kind(g, i) \in WrapperType /\ e \in {Begins(g, i), Ends(g, i)}
    <3>1. /\ p = From(Here, k) \/ p = To(Here, k)
          /\ k # n /\ k \in DOMAIN Here.nodes
      BY <2>2, <2>4, HereIs DEF From, To, Node
    <3>2. Inside(Here, k, n) \/ Inside(Here, n, k)
      BY <1>3, <2>1, <2>4, <3>1, OwnEnds DEF a, b
    <3>3. /\ From(Here, k) \in Nat /\ To(Here, k) \in Nat /\ From(Here, k) <= To(Here, k)
          /\ Inside(Here, n, k) => From(Here, k) < a /\ b < To(Here, k)
          /\ Inside(Here, k, n) => a < From(Here, k) /\ To(Here, k) < b
      BY <1>3, <2>4, <3>1, LiveNode, InsideIs DEF a, b
    <3>4. Below(n, k)
      <4>1. ~Inside(Here, n, k)
        BY <1>3, <2>1, <3>1, <3>3
      <4>2. a <= From(Here, k) /\ To(Here, k) <= b
        BY <1>3, <3>2, <3>3, <4>1
      <4> QED BY <2>4, <4>2 DEF Below, a, b
    <3>5. PICK i \in N : ks[i] = k
      BY <1>8, <3>4
    <3>6. Begins(g, i) = From(Here, k) - a + 1 /\ Ends(g, i) = To(Here, k) - a + 1 /\ Kind(g, i) \in WrapperType
      BY <1>4, <2>4, <3>5 DEF F, T
    <3>7. e = Begins(g, i) \/ e = Ends(g, i)
      BY <2>1, <3>1, <3>6
    <3> QED BY <3>6, <3>7
  <2>5. ASSUME NEW i \in N, Kind(g, i) \in WrapperType, e \in {Begins(g, i), Ends(g, i)}
        PROVE  \E k \in Node : Kind(Here, k) \in WrapperType /\ Live(Here, k) /\ t \in {Begins(Here, k), Ends(Here, k)}
    <3>1. p = F(i) \/ p = T(i)
      BY <1>3, <1>4, <2>1, <2>5
    <3>2. t = Begins(Here, ks[i]) \/ t = Ends(Here, ks[i])
      BY <1>9, <3>1 DEF t
    <3>3. ks[i] \in Node /\ Live(Here, ks[i]) /\ Kind(Here, ks[i]) \in WrapperType
      BY <1>4, <2>5 DEF Below
    <3> QED BY <3>2, <3>3
  <2> QED BY <2>1, <2>3, <2>4, <2>5
<1>16. g.nodes # <<>> /\ Kind(g, 1) = Kind(Here, n)
  <2>1. Kind(g, 1) = Kind(Here, n)
    BY <1>2, <1>4
  <2>2. g.nodes # <<>>
    <3>1. DOMAIN g.nodes # {}
      BY <1>2 DEF N
    <3> QED BY <3>1
  <2> QED BY <2>1, <2>2
<1> QED BY <1>1, <1>10, <1>11, <1>12, <1>13, <1>14, <1>15, <1>16 DEF Fragment

\* Where x is in s: what TokenIndex and NodeIndex of Cloned come to.
PlaceIn(s, x) == FirstOf({i \in 1 .. Len(s) : s[i] = x})

LEMMA PlaceInIs ==
  ASSUME NEW T, NEW s \in Seq(T), NEW x
  PROVE  /\ PlaceIn(s, x) \in Nat
         /\ \A p \in 1 .. Len(s) : s[p] = x => PlaceIn(s, x) \in 1 .. Len(s) /\ s[PlaceIn(s, x)] = x
<1> DEFINE l == Len(s)
           I == {i \in 1 .. l : s[i] = x}
<1>1. l \in Nat
  OBVIOUS
<1>2. I \in SUBSET (1 .. l) /\ \A i \in I : i \in 1 .. l /\ s[i] = x
  OBVIOUS
<1>3. PlaceIn(s, x) = FirstOf(I)
  BY DEF PlaceIn
<1>4. \A p \in 1 .. l : s[p] = x => p \in I
  OBVIOUS
<1> HIDE DEF I, l
<1>5. FirstOf(I) \in 0 .. l /\ (I # {} => FirstOf(I) \in I)
  BY <1>1, <1>2, FirstOfIs
<1>6. PlaceIn(s, x) \in Nat
  BY <1>1, <1>3, <1>5
<1>7. \A p \in 1 .. l : s[p] = x => PlaceIn(s, x) \in 1 .. l /\ s[PlaceIn(s, x)] = x
  BY <1>2, <1>3, <1>4, <1>5
<1> QED BY <1>6, <1>7 DEF l

NodesCopied(ts, ks) ==
  [i \in DOMAIN ks |->
     [type |-> node[ks[i]].type, start |-> PlaceIn(ts, node[ks[i]].start), end |-> PlaceIn(ts, node[ks[i]].end),
      children |-> [j \in 1 .. Size(ks[i]) |-> PlaceIn(ks, Child(ks[i], j))]]]

LEMMA ClonedIs ==
  ASSUME NEW n
  PROVE  Cloned(n) = IF Valid(Bytes(n))
                     THEN [ok |-> TRUE, tokens |-> Values(Span(n)), nodes |-> NodesCopied(Span(n), Walk(n))]
                     ELSE [ok |-> FALSE, tokens |-> <<>>, nodes |-> <<>>]
BY Zenon DEF Cloned, NodesCopied, PlaceIn, FirstOf, SelectInSeq

CopyNodes(r, ts, ks) ==
  /\ r \in Seq(NodeRecord) /\ Len(r) = Len(ks)
  /\ \A i \in 1 .. Len(ks) :
       /\ r[i].type = Kind(Here, ks[i])
       /\ r[i].start = PlaceIn(ts, Begins(Here, ks[i])) /\ r[i].end = PlaceIn(ts, Ends(Here, ks[i]))
       /\ DOMAIN r[i].children = DOMAIN Kids(Here, ks[i])
       /\ \A j \in DOMAIN Kids(Here, ks[i]) : r[i].children[j] = PlaceIn(ks, Kids(Here, ks[i])[j])

LEMMA NodesCopiedAre ==
  ASSUME Listed(Here), NEW ts \in Refs, NEW ks \in Seq(Node)
  PROVE  CopyNodes(NodesCopied(ts, ks), ts, ks)
<1> DEFINE l == Len(ks)
           r == NodesCopied(ts, ks)
<1>1. l \in Nat /\ DOMAIN ks = 1 .. l /\ \A i \in 1 .. l : ks[i] \in Node
  OBVIOUS
<1>2. \A x : PlaceIn(ts, x) \in Nat /\ PlaceIn(ks, x) \in Nat
  BY PlaceInIs DEF Refs
<1> DEFINE kk(i) == [j \in 1 .. Size(ks[i]) |-> PlaceIn(ks, Child(ks[i], j))]
           v(i) == [type |-> node[ks[i]].type, start |-> PlaceIn(ts, node[ks[i]].start),
                    end |-> PlaceIn(ts, node[ks[i]].end), children |-> kk(i)]
<1>3. r = [i \in 1 .. l |-> v(i)]
  BY <1>1, Zenon DEF NodesCopied
<1>4. ASSUME NEW i \in 1 .. l
      PROVE  /\ kk(i) \in Seq(Nat) /\ DOMAIN kk(i) = DOMAIN Kids(Here, ks[i])
             /\ \A j \in DOMAIN Kids(Here, ks[i]) : kk(i)[j] = PlaceIn(ks, Kids(Here, ks[i])[j])
  <2>1. /\ Size(ks[i]) \in Nat /\ DOMAIN Kids(Here, ks[i]) = 1 .. Size(ks[i])
        /\ \A j : Child(ks[i], j) = Kids(Here, ks[i])[j]
    BY <1>1, NodeIs
  <2> DEFINE u == kk(i)
  <2>2. u \in [1 .. Size(ks[i]) -> Nat]
    BY <1>2
  <2>3. \A j \in 1 .. Size(ks[i]) : u[j] = PlaceIn(ks, Kids(Here, ks[i])[j])
    BY <2>1
  <2> HIDE DEF u
  <2>4. u \in Seq(Nat) /\ DOMAIN u = 1 .. Size(ks[i])
    BY <2>1, <2>2, FunctionIsSeq
  <2> QED BY <2>1, <2>3, <2>4 DEF u
<1>5. ASSUME NEW i \in 1 .. l
      PROVE  /\ v(i) \in NodeRecord /\ v(i).type = Kind(Here, ks[i])
             /\ v(i).start = PlaceIn(ts, Begins(Here, ks[i])) /\ v(i).end = PlaceIn(ts, Ends(Here, ks[i]))
             /\ v(i).children = kk(i)
  <2>1. /\ node[ks[i]].type = Kind(Here, ks[i]) /\ node[ks[i]].start = Begins(Here, ks[i])
        /\ node[ks[i]].end = Ends(Here, ks[i]) /\ ks[i] \in DOMAIN Here.nodes
    BY <1>1, NodeIs
  <2>2. Kind(Here, ks[i]) \in NodeType
    BY <2>1, DocumentIs DEF Listed
  <2>3. kk(i) \in Seq(Nat)
    BY <1>4
  <2> HIDE DEF kk, NodeType
  <2> QED BY <1>2, <2>1, <2>2, <2>3 DEF NodeRecord
<1> HIDE DEF v, kk, l, r, NodeRecord
<1>6. r \in [1 .. l -> NodeRecord] /\ \A i \in 1 .. l : r[i] = v(i)
  BY <1>3, <1>5
<1>7. r \in Seq(NodeRecord) /\ Len(r) = l
  BY <1>1, <1>6, FunctionIsSeq
<1>8. \A i \in 1 .. l :
        /\ r[i].type = Kind(Here, ks[i])
        /\ r[i].start = PlaceIn(ts, Begins(Here, ks[i])) /\ r[i].end = PlaceIn(ts, Ends(Here, ks[i]))
        /\ r[i].children = kk(i)
  BY <1>5, <1>6
<1>9. CopyNodes(r, ts, ks)
  BY <1>4, <1>7, <1>8 DEF CopyNodes, l
<1> QED BY <1>9 DEF r

\* The copy of a node in use copies its subtree.
LEMMA LiveCloned ==
  ASSUME WellFormed(Here), NEW n \in Node, Live(Here, n), Valid(Bytes(n))
  PROVE  Copies(Cloned(n), n, Walk(n)) /\ Places(n, Walk(n)) /\ Cloned(n) \in Carrier
<1> DEFINE ts == Span(n)
           ks == Walk(n)
           r == NodesCopied(ts, ks)
           g == Cloned(n)
           a == From(Here, n)
           b == To(Here, n)
<1>1. Listed(Here) /\ SpanOf(n, ts) /\ IsWalk(n, ks)
  BY SpanIs, WalkOf DEF WellFormed
<1>2. ks \in Seq(Node) /\ ts \in Refs
  BY <1>1 DEF IsWalk, SpanOf
<1>3. Places(n, ks)
  BY <1>1, WalkPlaces
<1>4. g = [ok |-> TRUE, tokens |-> Values(ts), nodes |-> r]
  BY ClonedIs
<1> HIDE DEF ts, ks
<1>5. CopyNodes(r, ts, ks)
  BY <1>1, <1>2, NodesCopiedAre
<1> HIDE DEF r, g
<1>6. g.ok = TRUE /\ g.tokens = Values(ts) /\ g.nodes = r
  BY <1>4
<1>7. /\ Values(ts) \in Toks /\ Len(Values(ts)) = Len(ts) /\ DOMAIN Values(ts) = 1 .. Len(ts)
      /\ \A e \in 1 .. Len(ts) : Values(ts)[e] = token[ts[e]]
  BY <1>1, <1>2, ValuesAre
<1>8. /\ Len(ts) = b - a + 1
      /\ \A e \in 1 .. Len(ts) : a + e - 1 \in 1 .. Len(list) /\ ts[e] = list[a + e - 1]
  BY <1>1 DEF SpanOf
<1>9. DOMAIN list = 1 .. Len(list) /\ a \in Nat /\ b \in Nat
  BY <1>1, ListIs, LiveNode, HereIs DEF Node
<1>10. ASSUME NEW e, Held(Here, e), a <= Pos(Here, e), Pos(Here, e) <= b
       PROVE  PlaceIn(ts, e) = Pos(Here, e) - a + 1
  <2> DEFINE p == Pos(Here, e)
  <2>1. p \in DOMAIN list /\ list[p] = e /\ p \in Nat
    BY <1>1, <1>9, <1>10, PosIs, HereIs
  <2>2. p - a + 1 \in 1 .. Len(ts) /\ a + (p - a + 1) - 1 = p
    BY <1>8, <1>9, <1>10, <2>1
  <2>3. ts[p - a + 1] = e
    BY <1>8, <2>1, <2>2
  <2> DEFINE q == PlaceIn(ts, e)
  <2>4. q \in 1 .. Len(ts) /\ ts[q] = e
    BY <1>2, <2>2, <2>3, PlaceInIs DEF Refs
  <2> HIDE DEF q
  <2>5. a + q - 1 \in DOMAIN list /\ list[a + q - 1] = e
    BY <1>8, <1>9, <2>4
  <2>6. Pos(Here, e) = a + q - 1
    BY <1>1, <2>5, PosOf, HereIs
  <2>7. q = p - a + 1
    BY <1>8, <1>9, <2>4, <2>6
  <2> QED BY <2>7 DEF q
<1> HIDE DEF a, b
<1>11. ASSUME NEW i \in 1 .. Len(ks)
       PROVE  /\ Kind(g, i) = Kind(Here, ks[i])
              /\ Begins(g, i) = From(Here, ks[i]) - a + 1
              /\ Ends(g, i) = To(Here, ks[i]) - a + 1
              /\ DOMAIN Kids(g, i) = DOMAIN Kids(Here, ks[i])
              /\ \A j \in DOMAIN Kids(Here, ks[i]) :
                   Kids(g, i)[j] \in 1 .. Len(ks) /\ ks[Kids(g, i)[j]] = Kids(Here, ks[i])[j]
  <2> DEFINE k == ks[i]
  <2>1. Below(n, k) /\ k \in Node
    BY <1>3 DEF Places
  <2>2. /\ Kind(g, i) = Kind(Here, k)
        /\ Begins(g, i) = PlaceIn(ts, Begins(Here, k)) /\ Ends(g, i) = PlaceIn(ts, Ends(Here, k))
        /\ DOMAIN Kids(g, i) = DOMAIN Kids(Here, k)
        /\ \A j \in DOMAIN Kids(Here, k) : Kids(g, i)[j] = PlaceIn(ks, Kids(Here, k)[j])
    BY <1>5, <1>6 DEF CopyNodes, Kind, Begins, Ends, Kids
  <2> HIDE DEF k
  <2>3. /\ Live(Here, k) /\ a <= From(Here, k) /\ To(Here, k) <= b /\ k \in DOMAIN Here.nodes
        /\ From(Here, k) \in Nat /\ To(Here, k) \in Nat /\ From(Here, k) <= To(Here, k)
        /\ Held(Here, Begins(Here, k)) /\ Held(Here, Ends(Here, k))
    BY <2>1, LiveNode, HereIs DEF Below, a, b, Node
  <2>4. /\ From(Here, k) = Pos(Here, Begins(Here, k)) /\ To(Here, k) = Pos(Here, Ends(Here, k))
        /\ From(Here, k) <= b /\ a <= To(Here, k)
    BY <1>9, <2>3 DEF From, To
  <2>5. Begins(g, i) = From(Here, k) - a + 1 /\ Ends(g, i) = To(Here, k) - a + 1
    BY <1>10, <2>2, <2>3, <2>4
  <2>6. ASSUME NEW j \in DOMAIN Kids(Here, k)
        PROVE  Kids(g, i)[j] \in 1 .. Len(ks) /\ ks[Kids(g, i)[j]] = Kids(Here, k)[j]
    <3> DEFINE c == Kids(Here, k)[j]
    <3>1. /\ c \in Node /\ Live(Here, c) /\ From(Here, k) < From(Here, c) /\ To(Here, c) < To(Here, k)
          /\ From(Here, c) \in Nat /\ To(Here, c) \in Nat
      <4>1. Within(Here, k, c)
        BY <2>3, LiveNode
      <4> HIDE DEF c
      <4>2. c \in DOMAIN Here.nodes /\ Live(Here, c)
        BY <4>1 DEF Within
      <4> QED BY <4>1, <4>2, LiveNode, HereIs DEF Within, Node
    <3>2. Kids(g, i)[j] = PlaceIn(ks, c)
      BY <2>2
    <3> HIDE DEF c
    <3>3. Below(n, c)
      BY <1>9, <2>3, <3>1 DEF Below, a, b
    <3>4. PICK x \in 1 .. Len(ks) : ks[x] = c
      BY <1>3, <3>3 DEF Places
    <3>5. PlaceIn(ks, c) \in 1 .. Len(ks) /\ ks[PlaceIn(ks, c)] = c
      BY <1>2, <3>4, PlaceInIs
    <3> QED BY <3>2, <3>5 DEF c
  <2> QED BY <2>2, <2>5, <2>6 DEF k
<1>12. Copies(g, n, ks)
  <2>1. g.tokens \in Toks /\ Len(g.tokens) = b - a + 1 /\ g.nodes \in Seq(NodeRecord) /\ Len(g.nodes) = Len(ks)
    BY <1>5, <1>6, <1>7, <1>8 DEF CopyNodes
  <2>2. \A e \in DOMAIN g.tokens : a + e - 1 \in DOMAIN list /\ g.tokens[e] = token[list[a + e - 1]]
    BY <1>6, <1>7, <1>8, <1>9
  <2> QED BY <1>11, <2>1, <2>2 DEF Copies, a, b
<1>13. g \in Carrier
  <2>1. r \in Seq(NodeRecord) /\ Values(ts) \in Toks
    BY <1>5, <1>7 DEF CopyNodes
  <2> HIDE DEF Toks, NodeRecord
  <2> QED BY <1>4, <2>1 DEF Carrier
<1> QED BY <1>3, <1>12, <1>13 DEF g, ks

\* The outline of a copy is a part of the document's.
LEMMA CopiesOutline ==
  ASSUME WellFormed(Here), NEW n \in Node, Live(Here, n), NEW ks, Places(n, ks), NEW g, Copies(g, n, ks)
  PROVE  Stands(OutlineOf(Here), OutlineOf(Fresh(g)), From(Here, n), To(Here, n), 1 - From(Here, n))
<1> DEFINE o == OutlineOf(Here)
           r == OutlineOf(Fresh(g))
           a == From(Here, n)
           b == To(Here, n)
<1>1. Listed(Here) /\ Here.nodes = node /\ Here.list = list /\ Here.tokens = token /\ Node = DOMAIN Here.nodes
  BY HereIs DEF WellFormed, Node
<1>2. /\ a \in Nat /\ b \in Nat /\ a <= b /\ 1 <= a /\ b <= Len(list) /\ Len(list) \in Nat
  BY <1>1, LiveNode
<1>3. /\ IsOutline(o) /\ o.n = Len(list)
      /\ \A x \in 1 .. o.n : o.type[x] = token[list[x]].type
      /\ \A x : x \in o.opens <=> Starts(Here, x)
      /\ \A x : x \in o.closes <=> Stops(Here, x)
      /\ \A x : x \in o.shuts <=> StopsContainer(Here, x)
  BY <1>1, TreeOutline
<1>4. /\ g.tokens \in Toks /\ Len(g.tokens) = b - a + 1
      /\ \A e \in DOMAIN g.tokens : a + e - 1 \in DOMAIN list /\ g.tokens[e] = token[list[a + e - 1]]
      /\ g.nodes \in Seq(NodeRecord) /\ Len(g.nodes) = Len(ks)
  BY DEF Copies
<1>5. /\ IsOutline(r) /\ r.n = b - a + 1 /\ DOMAIN g.tokens = 1 .. b - a + 1
      /\ \A y \in 1 .. b - a + 1 :
           /\ r.type[y] = g.tokens[y].type
           /\ y \in r.opens <=> OpensAt(g, y)
           /\ y \in r.closes <=> ClosesAt(g, y)
           /\ y \in r.shuts <=> ClosesContainer(g, y)
  BY <1>4, FreshOutline
<1> HIDE DEF o, r
\* Nodes of the copy, and nodes in use that touch it.
<1>6. ASSUME NEW i \in DOMAIN g.nodes
      PROVE  /\ ks[i] \in DOMAIN Here.nodes /\ Live(Here, ks[i]) /\ Kind(g, i) = Kind(Here, ks[i])
             /\ From(Here, ks[i]) = Begins(g, i) + (a - 1) /\ To(Here, ks[i]) = Ends(g, i) + (a - 1)
  <2>1. /\ ks[i] \in DOMAIN Here.nodes /\ Live(Here, ks[i]) /\ Kind(g, i) = Kind(Here, ks[i])
        /\ From(Here, ks[i]) \in Nat /\ To(Here, ks[i]) \in Nat
        /\ Begins(g, i) = From(Here, ks[i]) - a + 1 /\ Ends(g, i) = To(Here, ks[i]) - a + 1
    BY CopyNode
  <2> QED BY <1>2, <2>1
<1>7. ASSUME NEW k \in DOMAIN Here.nodes, Live(Here, k), From(Here, k) \in a .. b \/ To(Here, k) \in a .. b
      PROVE  \E i \in DOMAIN g.nodes : ks[i] = k
  <2>1. k = n \/ Inside(Here, k, n) \/ Inside(Here, n, k)
    BY <1>1, <1>7, OwnEnds
  <2>2. From(Here, k) \in Nat /\ To(Here, k) \in Nat /\ From(Here, k) <= To(Here, k)
    BY <1>7, LiveNode
  <2>3. a <= From(Here, k) /\ To(Here, k) <= b
    <3>1. CASE k = n
      BY <1>2, <3>1
    <3>2. CASE Inside(Here, k, n)
      <4>1. a < From(Here, k) /\ To(Here, k) < b
        BY <1>1, <1>7, <3>2, InsideIs
      <4> QED BY <1>2, <2>2, <4>1
    <3>3. CASE Inside(Here, n, k)
      <4>1. From(Here, k) < a /\ b < To(Here, k)
        BY <1>1, <1>7, <3>3, InsideIs
      <4> QED BY <1>2, <1>7, <2>2, <4>1
    <3> QED BY <2>1, <3>1, <3>2, <3>3
  <2>4. Below(n, k)
    BY <1>1, <1>7, <2>3 DEF Below
  <2>5. PICK i \in 1 .. Len(ks) : ks[i] = k
    BY <2>4 DEF Places
  <2>6. DOMAIN g.nodes = 1 .. Len(ks)
    BY <1>4, DocumentIs
  <2> QED BY <2>5, <2>6
<1> HIDE DEF a, b
<1>8. ASSUME NEW x \in a .. b PROVE SameAt(o, x, r, x + (1 - a))
  <2> DEFINE y == x + (1 - a)
  <2>1. y \in 1 .. b - a + 1 /\ y + (a - 1) = x /\ a + y - 1 = x /\ x \in 1 .. o.n /\ x \in Nat
    BY <1>2, <1>3
  <2> HIDE DEF y
  <2>2. r.type[y] = o.type[x]
    BY <1>3, <1>4, <1>5, <2>1
  <2>3. \A i \in DOMAIN g.nodes : Begins(g, i) = y => From(Here, ks[i]) = x
    BY <1>6, <2>1
  <2>4. \A i \in DOMAIN g.nodes : Ends(g, i) = y => To(Here, ks[i]) = x
    BY <1>6, <2>1
  <2>5. \A i \in DOMAIN g.nodes : From(Here, ks[i]) = x => Begins(g, i) = y
    <3> SUFFICES ASSUME NEW i \in DOMAIN g.nodes, From(Here, ks[i]) = x PROVE Begins(g, i) = y
      OBVIOUS
    <3>1. Begins(g, i) \in Nat
      BY <1>4, DocumentIs
    <3>2. x = Begins(g, i) + (a - 1)
      BY <1>6
    <3> QED BY <1>2, <2>1, <3>1, <3>2
  <2>6. \A i \in DOMAIN g.nodes : To(Here, ks[i]) = x => Ends(g, i) = y
    <3> SUFFICES ASSUME NEW i \in DOMAIN g.nodes, To(Here, ks[i]) = x PROVE Ends(g, i) = y
      OBVIOUS
    <3>1. Ends(g, i) \in Nat
      BY <1>4, DocumentIs
    <3>2. x = Ends(g, i) + (a - 1)
      BY <1>6
    <3> QED BY <1>2, <2>1, <3>1, <3>2
  <2>7. y \in r.opens <=> x \in o.opens
    <3>1. OpensAt(g, y) => Starts(Here, x)
      BY <1>6, <2>3 DEF OpensAt, Starts
    <3>2. Starts(Here, x) => OpensAt(g, y)
      BY <1>7, <2>5 DEF OpensAt, Starts
    <3> QED BY <1>3, <1>5, <2>1, <3>1, <3>2
  <2>8. y \in r.closes <=> x \in o.closes
    <3>1. ClosesAt(g, y) => Stops(Here, x)
      BY <1>6, <2>4 DEF ClosesAt, Stops
    <3>2. Stops(Here, x) => ClosesAt(g, y)
      BY <1>7, <2>6 DEF ClosesAt, Stops
    <3> QED BY <1>3, <1>5, <2>1, <3>1, <3>2
  <2>9. y \in r.shuts <=> x \in o.shuts
    <3>1. ClosesContainer(g, y) => StopsContainer(Here, x)
      BY <1>6, <2>4 DEF ClosesContainer, StopsContainer
    <3>2. StopsContainer(Here, x) => ClosesContainer(g, y)
      BY <1>6, <1>7, <2>6 DEF ClosesContainer, StopsContainer
    <3> QED BY <1>3, <1>5, <2>1, <3>1, <3>2
  <2> QED BY <2>2, <2>7, <2>8, <2>9 DEF SameAt, y
<1>9. /\ 1 - a \in Int /\ a >= 1 /\ a <= b + 1 /\ b <= o.n /\ 1 <= a + (1 - a) /\ b + (1 - a) <= r.n
  BY <1>2, <1>3, <1>5
<1> QED BY <1>2, <1>3, <1>5, <1>8, <1>9 DEF Stands, o, r, a, b

LEMMA CopiesTidy ==
  ASSUME WellFormed(Here), Tidy(Here), NEW n \in Node, Live(Here, n), Kind(Here, n) \notin WrapperType,
         NEW ks, Places(n, ks), NEW g, Copies(g, n, ks)
  PROVE  Tidy(Fresh(g))
<1> DEFINE o == OutlineOf(Here)
           r == OutlineOf(Fresh(g))
           a == From(Here, n)
           b == To(Here, n)
<1>1. n \in DOMAIN Here.nodes /\ Edged(o) /\ Parted(o)
  BY HereIs DEF Node, Tidy
<1>2. Stands(o, r, a, b, 1 - a)
  BY CopiesOutline
<1>3. a \in o.opens /\ b \in o.closes /\ a \in Nat /\ b \in Nat
  BY <1>1, EndsSeen, LiveNode
<1>4. r.n = b - a + 1
  <2>1. g.tokens \in Toks /\ Len(g.tokens) = b - a + 1
    BY DEF Copies
  <2> QED BY <2>1, FreshOutline
<1> HIDE DEF o, r, a, b
<1>5. Edged(r) /\ Parted(r)
  <2>1. 1 = a + (1 - a) /\ r.n = b + (1 - a)
    BY <1>3, <1>4
  <2> QED BY <1>1, <1>2, <1>3, <2>1, StandsParted
<1>6. Fragment(g)
  BY CopiesKeep
<1> QED BY <1>5, <1>6, EdgedVoiced DEF Tidy, r

-----------------------------------------------------------------------------
(***************************************************************************)
(* The copy of a removed node, of which one token is left: no bracket is a *)
(* valid text, nor is the empty text of an anchor.                         *)
(***************************************************************************)
LEMMA EmptyInvalid == ~Valid(<<>>)
<1>1. <<>> \in Txt /\ Len(<<>>) = 0
  BY DEF Txt
<1>2. PICK f \in [0 .. Len(<<>>) -> LexToks] : Lexes(f, <<>>) /\ Lex(<<>>) = f[Len(<<>>)]
  BY <1>1, LexIsFold
<1>3. Lex(<<>>) = <<>>
  BY <1>1, <1>2 DEF Lexes
<1>4. \E g \in [0 .. Len(Lex(<<>>)) -> GoodParser] : Parses(g, Lex(<<>>)) /\ Decode(<<>>) = g[Len(Lex(<<>>))]
  BY <1>1, DecodeIsFold
<1>5. Decode(<<>>) = Start
  BY <1>1, <1>3, <1>4 DEF Parses
<1> QED BY <1>5 DEF Valid, Start

OpenBracket == {"{", "["}

LEMMA BracketInvalid ==
  ASSUME NEW x \in OpenBracket
  PROVE  ~Valid(<<x>>)
<1> DEFINE s == <<x>>
           t == Token(x)
           ts == <<t>>
<1>1. s \in Txt /\ Len(s) = 1 /\ s[1] = x
  <2>1. x \in AnyLexeme
    BY Zenon DEF OpenBracket, AnyLexeme, Punctuation
  <2> QED BY <2>1 DEF Txt
<1>2. Len(ts) = 1 /\ ts[1] = t
  OBVIOUS
<1>3. TokenType(x) = "delim"
  BY PunctuationAssumption, Zenon DEF OpenBracket, TokenType, Punctuation, Keyword
<1>4. t.type = "delim" /\ t.literal[1] = x
  BY <1>3 DEF Token
<1> HIDE DEF s, t, ts
<1>5. PICK f \in [0 .. Len(s) -> LexToks] : Lexes(f, s) /\ Lex(s) = f[Len(s)]
  BY <1>1, LexIsFold
<1>6. Lex(s) = ts
  <2>1. f[0] = <<>> /\ f[1] = Scan(f[0], x)
    <3>1. 1 \in 1 .. Len(s) /\ 1 - 1 = 0
      BY <1>1
    <3> QED BY <1>1, <1>5, <3>1 DEF Lexes
  <2>2. Scan(<<>>, x) = Append(<<>>, t)
    BY DEF Scan, Swallows, t
  <2>3. Append(<<>>, t) = ts
    BY DEF ts
  <2> QED BY <1>1, <1>5, <2>1, <2>2, <2>3
<1>7. PICK g \in [0 .. Len(ts) -> GoodParser] : Parses(g, ts) /\ Decode(s) = g[Len(ts)]
  BY <1>1, <1>6, DecodeIsFold
<1>8. Decode(s) = ParseStep(Start, t)
  <2>1. 1 \in 1 .. Len(ts) /\ 1 - 1 = 0
    BY <1>2
  <2> QED BY <1>2, <1>7, <2>1 DEF Parses
<1>9. Start.at = "value"
  BY DEF Start
<1>10. ParseStep(Start, t) = ParseToken(Start, t)
  BY <1>4 DEF ParseStep, Trivia
<1>11. ParseToken(Start, t) = ParseValue(Start, t)
  BY <1>9 DEF ParseToken
<1>12. ParseValue(Start, t).at \in {"first member", "first element"}
  <2>1. /\ ~(t.type = "string") /\ ~(t.type = "number") /\ ~(t.literal[1] \in {"true", "false"})
        /\ ~(t.literal[1] = "null")
    BY <1>4, Zenon DEF OpenBracket
  <2>2. CASE x = "{"
    <3>1. t.literal[1] = "{" /\ ~(t.literal[1] = "[")
      BY <1>4, <2>2, Zenon
    <3>2. ParseValue(Start, t) = [Emit(Open(Start, "object"), t) EXCEPT !.at = "first member"]
      BY <2>1, <3>1, Zenon DEF ParseValue
    <3>3. "at" \in DOMAIN Emit(Open(Start, "object"), t)
      BY DEF Emit, Open, Start
    <3> QED BY <3>2, <3>3
  <2>3. CASE x = "["
    <3>1. t.literal[1] = "[" /\ ~(t.literal[1] = "{")
      BY <1>4, <2>3, Zenon
    <3>2. ParseValue(Start, t) = [Emit(Open(Start, "array"), t) EXCEPT !.at = "first element"]
      BY <2>1, <3>1, Zenon DEF ParseValue
    <3>3. "at" \in DOMAIN Emit(Open(Start, "array"), t)
      BY DEF Emit, Open, Start
    <3> QED BY <3>2, <3>3
  <2> QED BY <2>2, <2>3, Zenon DEF OpenBracket
<1>13. Decode(s).at # "end"
  BY <1>8, <1>10, <1>11, <1>12
<1> QED BY <1>13 DEF Valid, s

\* A scalar by itself.
LEMMA ScalarIs ==
  ASSUME NEW g, g.tokens \in Toks, g.nodes \in Seq(NodeRecord), Len(g.tokens) = 1, Len(g.nodes) = 1,
         g.tokens[1] # Anchor, Kind(g, 1) \notin ContainerType \union WrapperType,
         Begins(g, 1) = 1, Ends(g, 1) = 1, Kids(g, 1) = <<>>
  PROVE  Fragment(g)
<1>1. DOMAIN g.tokens = {1} /\ DOMAIN g.nodes = {1}
  <2>1. DOMAIN g.tokens = 1 .. 1 /\ DOMAIN g.nodes = 1 .. 1
    BY DocumentIs
  <2>2. 1 .. 1 = {1}
    OBVIOUS
  <2> QED BY <2>1, <2>2
<1>2. DOMAIN Kids(g, 1) = {}
  OBVIOUS
<1>3. Linked(g)
  BY <1>1, <1>2 DEF Linked, LinkedAt
<1>4. Formed(g)
  <2>1. Full(g, 1)
    BY DEF Full, WrapperType
  <2>2. FormedAt(g, 1)
    BY <1>2, <2>1 DEF FormedAt
  <2> QED BY <1>1, <2>2 DEF Formed
<1>5. OneParent(g)
  BY <1>1, <1>2 DEF OneParent
<1>6. Nests(g)
  BY <1>1, <1>2 DEF Nests
<1>7. Rooted(g)
  BY <1>1 DEF Rooted
<1>8. Ended(g)
  <2>1. \A k \in DOMAIN g.nodes : Kind(g, k) \notin WrapperType
    BY <1>1
  <2>2. \A e \in DOMAIN g.tokens : g.tokens[e] # Anchor
    BY <1>1
  <2> QED BY <2>1, <2>2 DEF Ended
<1> QED BY <1>3, <1>4, <1>5, <1>6, <1>7, <1>8 DEF Fragment

LEMMA LoneTidy ==
  ASSUME NEW g, g.tokens \in Toks, g.nodes \in Seq(NodeRecord), Len(g.tokens) = 1, Len(g.nodes) = 1,
         Fragment(g), Loud(g.tokens[1]), Begins(g, 1) = 1, Ends(g, 1) = 1
  PROVE  Tidy(Fresh(g))
<1> DEFINE r == OutlineOf(Fresh(g))
<1>1. /\ r.n = 1
      /\ r.type[1] = g.tokens[1].type
      /\ 1 \in r.opens <=> OpensAt(g, 1)
  <2>1. 1 \in 1 .. Len(g.tokens)
    OBVIOUS
  <2> QED BY <2>1, FreshOutline
<1> HIDE DEF r
<1>2. 1 \in r.opens
  <2>1. DOMAIN g.nodes = 1 .. Len(g.nodes)
    BY DocumentIs
  <2>2. 1 \in DOMAIN g.nodes
    BY <2>1
  <2> QED BY <1>1, <2>2 DEF OpensAt
<1>3. \A i \in 1 .. r.n : i = 1
  BY <1>1
<1>4. r.type[1] \notin Blank \union Separator
  BY <1>1 DEF Loud
<1>5. Edged(r)
  BY <1>2, <1>3, <1>4 DEF Edged
<1>6. Parted(r)
  BY <1>3, <1>4 DEF Parted
<1> QED BY <1>5, <1>6, EdgedVoiced DEF Tidy, r

LEMMA OneToken ==
  ASSUME Listed(Here), NEW e \in DOMAIN token
  PROVE  /\ <<e>> \in Refs /\ Values(<<e>>) \in Toks /\ Len(Values(<<e>>)) = 1 /\ Values(<<e>>)[1] = token[e]
         /\ token[e] \in Tok /\ Text(Values(<<e>>)) = token[e].literal
<1>1. <<e>> \in Refs /\ Len(<<e>>) = 1 /\ <<e>>[1] = e
  BY DEF Refs
<1>2. Values(<<e>>) \in Toks /\ Len(Values(<<e>>)) = 1 /\ Values(<<e>>)[1] = token[e]
  <2>1. 1 \in 1 .. 1
    OBVIOUS
  <2> QED BY <1>1, <2>1, ValuesAre
<1>3. token[e] \in Tok
  <2> HIDE DEF Tok
  <2>1. token \in Seq(Tok)
    BY ListIs DEF Toks
  <2> QED BY <2>1
<1> DEFINE v == Values(<<e>>)
           t == token[e]
<1>4. v = Append(<<>>, t) /\ <<>> \in Toks
  <2> HIDE DEF v, t, Tok
  <2>1. v \in Seq(Tok) /\ Len(v) = 1 /\ v[1] = t
    BY <1>2 DEF v, t, Toks
  <2> QED BY <2>1 DEF Toks
<1>5. Text(Append(<<>>, t)) = Text(<<>>) \o t.literal
  BY <1>3, <1>4, TextAppend
<1>6. t.literal \in Seq(AnyLexeme)
  BY <1>3 DEF Tok, Txt
<1>7. Text(v) = t.literal
  <2> HIDE DEF v, t
  <2>1. Text(v) = <<>> \o t.literal
    BY <1>4, <1>5, TextEmpty
  <2> QED BY <1>6, <2>1, ConcatEmpty
<1> QED BY <1>1, <1>2, <1>3, <1>7

LEMMA LoneWalk ==
  ASSUME WellFormed(Here), NEW n \in Node, Size(n) = 0
  PROVE  Walk(n) = <<n>>
<1>1. PICK w : (\A k \in Node : w[k] = WalkStep(w, k)) /\ \A k : Walk(k) = w[k]
  BY WalkIs
<1>2. Walk(n) = WalkStep(w, n)
  BY <1>1
<1>3. [i \in 1 .. Size(n) |-> w[Child(n, i)]] = <<>>
  <2>1. 1 .. Size(n) = {}
    OBVIOUS
  <2>2. [i \in {} |-> w[Child(n, i)]] = <<>>
    OBVIOUS
  <2> QED BY <2>1, <2>2, Zenon
<1>4. WalkStep(w, n) = <<n>> \o <<>>
  BY <1>3, FlattenEmpty, Zenon DEF WalkStep
<1>5. <<n>> \o <<>> = <<n>>
  OBVIOUS
<1> QED BY <1>2, <1>4, <1>5

LEMMA DeadCloned ==
  ASSUME WellFormed(Here), Voiced(Here), NEW n \in Node, ~Live(Here, n), Kind(Here, n) \notin WrapperType,
         Valid(Bytes(n))
  PROVE  ValueOf(Cloned(n)) /\ Tidy(Fresh(Cloned(n)))
<1> DEFINE e == Begins(Here, n)
           t == token[e]
           ts == <<e>>
           ks == <<n>>
           r == NodesCopied(ts, ks)
           g == Cloned(n)
<1>1. Listed(Here) /\ n \in DOMAIN Here.nodes /\ LinkedAt(Here, n) /\ FormedAt(Here, n)
  BY HereIs DEF WellFormed, Linked, Formed, Node
<1>2. e \in DOMAIN token /\ node[n].start = e /\ ~In(e)
  BY <1>1, NodeIs, HereIs DEF LinkedAt, Live
<1>3. Span(n) = ts
  BY <1>2, Zenon DEF Span
<1> HIDE DEF e
<1>4. /\ ts \in Refs /\ Values(ts) \in Toks /\ Len(Values(ts)) = 1 /\ Values(ts)[1] = t
      /\ t \in Tok /\ Text(Values(ts)) = t.literal
  BY <1>1, <1>2, OneToken
<1>5. Valid(t.literal)
  <2>1. Bytes(n) = t.literal
    BY <1>3, <1>4 DEF Bytes
  <2> HIDE DEF t
  <2> QED BY <2>1
<1>21. Loud(t)
  BY <1>1, HereIs DEF Voiced, t, e
<1> HIDE DEF t
<1>6. t # Anchor
  BY <1>5, EmptyInvalid, AnchorIs
<1>7. Kind(Here, n) \notin ContainerType
  <2>1. SUFFICES ASSUME Kind(Here, n) \in ContainerType PROVE FALSE
    OBVIOUS
  <2>2. Opening(t)
    BY <1>1, <2>1, HereIs DEF FormedAt, t, e
  <2>3. PICK x \in OpenBracket : t = Token(x)
    BY <2>2, Zenon DEF Opening, OpenBracket
  <2>4. t.literal = <<x>>
    BY <2>3 DEF Token
  <2> QED BY <1>5, <2>4, BracketInvalid
<1>8. Kids(Here, n) = <<>> /\ Ends(Here, n) = e
  BY <1>1, <1>7 DEF FormedAt, e
<1>9. Walk(n) = ks
  <2>1. Size(n) = Len(Kids(Here, n))
    BY <1>1, NodeIs
  <2>2. Size(n) = 0
    BY <1>8, <2>1
  <2> QED BY <2>2, LoneWalk
<1>10. g = [ok |-> TRUE, tokens |-> Values(ts), nodes |-> r]
  BY <1>3, <1>9, ClonedIs
<1>11. ks \in Seq(Node) /\ Len(ks) = 1 /\ ks[1] = n /\ 1 \in 1 .. 1
  OBVIOUS
<1>12. PlaceIn(ts, e) = 1
  <2>1. ts \in Seq(DOMAIN token) /\ Len(ts) = 1 /\ ts[1] = e /\ 1 \in 1 .. 1
    BY <1>4 DEF Refs
  <2>2. PlaceIn(ts, e) \in 1 .. 1
    <3> HIDE DEF ts
    <3> QED BY <2>1, PlaceInIs
  <2> QED BY <2>2
<1> HIDE DEF ts, ks
<1>13. CopyNodes(r, ts, ks)
  BY <1>1, <1>4, <1>11, NodesCopiedAre
<1> HIDE DEF r, g
<1>14. /\ r \in Seq(NodeRecord) /\ Len(r) = 1
       /\ r[1].type = Kind(Here, n) /\ r[1].start = 1 /\ r[1].end = 1 /\ DOMAIN r[1].children = {}
  <2>1. DOMAIN Kids(Here, n) = {}
    BY <1>8
  <2> QED BY <1>8, <1>11, <1>12, <1>13, <2>1 DEF CopyNodes, e
<1>15. g.ok = TRUE /\ g.tokens = Values(ts) /\ g.nodes = r
  BY <1>10
<1>16. Kind(g, 1) = Kind(Here, n) /\ Begins(g, 1) = 1 /\ Ends(g, 1) = 1
  BY <1>14, <1>15 DEF Kind, Begins, Ends
<1>17. Kids(g, 1) = <<>>
  <2>1. g.tokens \in Toks /\ g.nodes \in Seq(NodeRecord) /\ 1 \in DOMAIN g.nodes
    <3> HIDE DEF NodeRecord
    <3> QED BY <1>4, <1>14, <1>15
  <2>2. Kids(g, 1) \in Seq(Nat)
    BY <2>1, DocumentIs
  <2>3. DOMAIN Kids(g, 1) = {}
    BY <1>14, <1>15 DEF Kids
  <2> QED BY <2>2, <2>3
<1>18. Fragment(g)
  <2>1. g.tokens \in Toks /\ g.nodes \in Seq(NodeRecord) /\ Len(g.tokens) = 1 /\ Len(g.nodes) = 1 /\ g.tokens[1] # Anchor
    BY <1>4, <1>6, <1>14, <1>15
  <2> QED BY <1>7, <1>16, <1>17, <2>1, ScalarIs
<1>19. g \in Carrier
  <2> HIDE DEF Toks, NodeRecord
  <2> QED BY <1>4, <1>10, <1>14 DEF Carrier
<1>20. g.nodes # <<>>
  <2>1. Len(g.nodes) = 1
    BY <1>14, <1>15
  <2> QED BY ONLY <2>1
<1>22. Tidy(Fresh(g))
  <2>1. /\ g.tokens \in Toks /\ g.nodes \in Seq(NodeRecord) /\ Len(g.tokens) = 1 /\ Len(g.nodes) = 1
        /\ g.tokens[1] = t
    BY <1>4, <1>14, <1>15
  <2> QED BY <1>16, <1>18, <1>21, <2>1, LoneTidy
<1> QED BY <1>16, <1>18, <1>19, <1>20, <1>22 DEF ValueOf, g

\* Whatever node is copied, the copy is a value, if it is one at all.
LEMMA ClonedKeeps ==
  ASSUME Sound, NEW n \in Node, Kind(Here, n) \notin WrapperType
  PROVE  Cloned(n).ok => ValueOf(Cloned(n)) /\ Neat(Cloned(n))
<1>1. SUFFICES ASSUME Cloned(n).ok PROVE ValueOf(Cloned(n)) /\ Neat(Cloned(n))
  OBVIOUS
<1>5. WellFormed(Here) /\ Tidy(Here)
  BY DEF Sound
<1>2. Valid(Bytes(n))
  <2>1. SUFFICES ASSUME ~Valid(Bytes(n)) PROVE FALSE
    OBVIOUS
  <2>2. Cloned(n) = [ok |-> FALSE, tokens |-> <<>>, nodes |-> <<>>]
    BY <2>1, ClonedIs
  <2> QED BY <1>1, <2>2
<1>3. CASE Live(Here, n)
  <2>1. Copies(Cloned(n), n, Walk(n)) /\ Places(n, Walk(n)) /\ Cloned(n) \in Carrier
    BY <1>2, <1>3, <1>5, LiveCloned
  <2>2. Fragment(Cloned(n)) /\ Cloned(n).nodes # <<>> /\ Kind(Cloned(n), 1) = Kind(Here, n)
    BY <1>3, <1>5, <2>1, CopiesKeep
  <2>3. Tidy(Fresh(Cloned(n)))
    BY <1>3, <1>5, <2>1, CopiesTidy
  <2>4. Neat(Cloned(n))
    BY <2>2, <2>3, ValueNeat
  <2> QED BY <2>1, <2>2, <2>4 DEF ValueOf
<1>4. CASE ~Live(Here, n)
  <2>1. ValueOf(Cloned(n)) /\ Tidy(Fresh(Cloned(n)))
    BY <1>2, <1>4, <1>5, DeadCloned DEF Tidy
  <2>2. Neat(Cloned(n))
    BY <2>1, ValueNeat DEF ValueOf
  <2> QED BY <2>1, <2>2
<1> QED BY <1>3, <1>4

-----------------------------------------------------------------------------
(***************************************************************************)
(* The bodies of the methods.                                              *)
(***************************************************************************)
Steady == Sound /\ root = 1 /\ edits \in 0 .. MaxEdits

\* What a call does to the invariant, and to the count of edits.
Counted == root' = root /\ edits' \in {edits, edits + 1}

\* An argument of a call.
Offer(f) == f.ok => ValueOf(f) /\ Neat(f)

LEMMA SplicedIs ==
  ASSUME NEW first, NEW last, NEW k
  PROVE  Spliced(first, last, k) =
           Splice(Here.list, Pos(Here, first) - 1, Pos(Here, last) + 1, Len(Here.tokens), k)
BY HereIs DEF Spliced, Splice

LEMMA ReplaceKeeps ==
  ASSUME Sound, NEW n \in Node, Kind(Here, n) \notin WrapperType, NEW f, Offer(f),
         ReplaceResult(n, f) = "ok", ReplaceBody(n, f)
  PROVE  Sound' /\ Counted
<1>1. f.ok /\ InOrder(node[n].start, node[n].end)
  BY DEF ReplaceResult
<1>2. Fragment(f) /\ f.nodes # <<>> /\ Kind(f, 1) \notin WrapperType /\ Neat(f)
  BY <1>1 DEF Offer, ValueOf
<1>3. WellFormed(Here) /\ Tidy(Here) /\ Listed(Here) /\ n \in DOMAIN Here.nodes /\ node[n].start = Begins(Here, n) /\ node[n].end = Ends(Here, n)
  BY NodeIs DEF Sound, WellFormed
<1>4. Live(Here, n)
  BY <1>1, <1>3, HereIs DEF InOrder, Live
<1>5. WellFormed(Replaced(Here, n, f)) /\ Tidy(Replaced(Here, n, f))
  <2> DEFINE q == Replaced(Here, n, f)
             a == From(Here, n) - 1
             b == To(Here, n) + 1
  <2>1. WellFormed(q) /\ Redrawn(Here, q, f, a, b)
    BY <1>2, <1>3, <1>4, ReplacedKeeps
  <2> HIDE DEF q, a, b
  <2>2. Tidy(q)
    BY <1>2, <1>3, <2>1, ReplacedTidy DEF Neat
  <2> QED BY <2>1, <2>2 DEF q
<1> DEFINE ns == Shift(f.nodes, Len(token), Len(node) - 1)
<1>6. /\ token' = token \o f.tokens /\ node' = [node EXCEPT ![n] = ns[1]] \o Tail(ns)
      /\ list' = Spliced(node[n].start, node[n].end, Len(f.tokens)) /\ edits' = edits + 1 /\ root' = root
  BY Zenon DEF ReplaceBody, Edit
<1>7. list' = Splice(Here.list, From(Here, n) - 1, To(Here, n) + 1, Len(Here.tokens), Len(f.tokens))
  BY <1>3, <1>6, SplicedIs DEF From, To
<1>8. Replaced(Here, n, f) = [tokens |-> token', nodes |-> node', list |-> list']
  BY <1>6, <1>7, HereIs, Zenon DEF Replaced
<1>9. Here' = Replaced(Here, n, f)
  BY <1>8 DEF Here
<1> QED BY <1>5, <1>6, <1>9 DEF Sound, Counted

\* Where a new child i of n goes.
LEMMA MarkIs ==
  ASSUME WellFormed(Here), NEW n \in Node, NEW i \in 1 .. Size(n) + 1, In(InsertMark(n, i))
  PROVE  Live(Here, n) /\ Behind(Here, n, i, Pos(Here, InsertMark(n, i)))
<1> DEFINE e == InsertMark(n, i)
           a == Pos(Here, e)
<1>1. /\ Listed(Here) /\ n \in DOMAIN Here.nodes /\ node[n].start = Begins(Here, n) /\ node[n].children = Kids(Here, n)
      /\ Size(n) = Len(Kids(Here, n)) /\ Size(n) \in Nat /\ DOMAIN Kids(Here, n) = 1 .. Size(n)
      /\ \A j : Child(n, j) = Kids(Here, n)[j]
  BY NodeIs DEF WellFormed
<1>2. ASSUME i = 1 PROVE Live(Here, n) /\ Behind(Here, n, i, a)
  <2>1. e = Begins(Here, n)
    BY <1>1, <1>2 DEF InsertMark
  <2> HIDE DEF e
  <2>2. Live(Here, n)
    BY <2>1, HereIs DEF Live, e
  <2>3. Behind(Here, n, i, a)
    BY <1>2, <2>1 DEF Behind, From
  <2> QED BY <2>2, <2>3
<1>3. ASSUME i # 1 PROVE Live(Here, n) /\ Behind(Here, n, i, a)
  <2> DEFINE c == Kids(Here, n)[i - 1]
  <2>1. i - 1 \in DOMAIN Kids(Here, n)
    BY <1>1, <1>3
  <2>2. c \in Node
    BY <1>1, <2>1, HereIs DEF WellFormed, Linked, LinkedAt, Node
  <2>3. e = Ends(Here, c)
    <3>1. e = node[Child(n, i - 1)].end /\ Child(n, i - 1) = c
      BY <1>1, <1>3 DEF InsertMark
    <3> HIDE DEF c, e
    <3> QED BY <1>1, <2>2, <3>1, NodeIs
  <2>4. Held(Here, e)
    BY HereIs
  <2> HIDE DEF e
  <2>5. Live(Here, c)
    <3> HIDE DEF c
    <3> QED BY <2>2, <2>3, <2>4, HereIs DEF WellFormed, Fallen, FallenAt, Node
  <2>6. Live(Here, n)
    BY <1>1, <2>1, <2>5 DEF WellFormed, Fallen, FallenAt
  <2>7. Behind(Here, n, i, a)
    BY <1>3, <2>3 DEF Behind, To
  <2> QED BY <2>6, <2>7
<1> QED BY <1>2, <1>3

LEMMA InsertKeeps ==
  ASSUME Sound, NEW n \in Node, Kind(Here, n) \in ContainerType, NEW i \in 1 .. Size(n) + 1,
         NEW f, PartOf(f, IF Kind(Here, n) = "object" THEN "field" ELSE "element"), GoesIn(n, i, f),
         In(InsertMark(n, i)), InsertBody(n, i, InsertMark(n, i), f)
  PROVE  Sound' /\ Counted
<1> DEFINE e == InsertMark(n, i)
           a == Pos(Here, e)
<1>1. WellFormed(Here) /\ Tidy(Here) /\ Listed(Here)
  BY DEF Sound, WellFormed
<1>2. /\ n \in DOMAIN Here.nodes /\ node[n].start = Begins(Here, n) /\ node[n].children = Kids(Here, n)
      /\ Size(n) = Len(Kids(Here, n)) /\ Size(n) \in Nat /\ DOMAIN Kids(Here, n) = 1 .. Size(n)
      /\ \A j : Child(n, j) = Kids(Here, n)[j]
  BY <1>1, NodeIs
<1>3. /\ Fragment(f) /\ f.nodes # <<>> /\ f.tokens \in Toks
      /\ Kind(f, 1) = IF Kind(Here, n) = "object" THEN "field" ELSE "element"
  BY CarrierIs DEF PartOf
<1>4. Live(Here, n) /\ Behind(Here, n, i, a)
  BY <1>1, MarkIs
<1> HIDE DEF e, a
<1>5. WellFormed(Inserted(Here, n, i, f, a)) /\ Tidy(Inserted(Here, n, i, f, a))
  <2>1. /\ Kind(Here, n) = "object" => Kind(f, 1) = "field"
        /\ Kind(Here, n) = "array" => Kind(f, 1) = "element"
    BY <1>3
  <2> DEFINE q == Inserted(Here, n, i, f, a)
             o == OutlineOf(Fresh(f))
  <2>2. WellFormed(q) /\ Redrawn(Here, q, f, a, a + 1)
    BY <1>1, <1>2, <1>3, <1>4, <2>1, InsertedKeeps
  <2>3. Edged(o) /\ Suits(Here, n, i, o)
    BY DEF GoesIn
  <2>4. Voiced(f)
    BY <1>3, <2>3, EdgedVoiced
  <2>5. i \in 1 .. Len(Kids(Here, n)) + 1
    BY <1>2
  <2> HIDE DEF q
  <2>6. Tidy(q)
    BY <1>1, <1>2, <1>4, <2>2, <2>3, <2>4, <2>5, InsertedTidy
  <2> QED BY <2>2, <2>6 DEF q
<1> DEFINE ns == Shift(f.nodes, Len(token), Len(node))
<1>6. /\ token' = token \o f.tokens /\ node' = [node EXCEPT ![n].children = InsertAt(@, i, Len(node) + 1)] \o ns
      /\ list' = SubSeq(list, 1, At(e)) \o [k \in DOMAIN f.tokens |-> Len(token) + k] \o SubSeq(list, At(e) + 1, Len(list))
      /\ edits' = edits + 1 /\ root' = root
  BY Zenon DEF InsertBody, Edit, e
<1>7. list' = Splice(Here.list, a, a + 1, Len(Here.tokens), Len(f.tokens))
  <2>1. DOMAIN f.tokens = 1 .. Len(f.tokens)
    <3> HIDE DEF Tok
    <3> QED BY <1>3 DEF Toks
  <2> QED BY <1>6, <2>1, HereIs, Zenon DEF Splice, a
<1>8. [node EXCEPT ![n].children = InsertAt(@, i, Len(node) + 1)]
         = [Here.nodes EXCEPT ![n].children = InsertAt(Kids(Here, n), i, Len(Here.nodes) + 1)]
  <2>1. Here.nodes = node /\ Kids(Here, n) = node[n].children
    BY <1>2, HereIs
  <2> QED BY <2>1
<1>9. Inserted(Here, n, i, f, a) = [tokens |-> token', nodes |-> node', list |-> list']
  BY <1>6, <1>7, <1>8, HereIs, Zenon DEF Inserted, Grown
<1>10. Here' = Inserted(Here, n, i, f, a)
  BY <1>9 DEF Here
<1> QED BY <1>5, <1>6, <1>10 DEF Sound, Counted

\* Places just before and after a node or its neighbours.
LEMMA Neighbour ==
  ASSUME WellFormed(Here), NEW p \in DOMAIN list
  PROVE  /\ p < Len(list) => NextOf(list[p]) = list[p + 1] /\ In(list[p + 1]) /\ At(list[p + 1]) = p + 1
         /\ p > 1 => PrevOf(list[p]) = list[p - 1] /\ In(list[p - 1]) /\ At(list[p - 1]) = p - 1
<1>1. Listed(Here) /\ Here.list = list /\ DOMAIN list = 1 .. Len(list) /\ Len(list) \in Nat
  BY HereIs, ListIs DEF WellFormed
<1>2. \A q \in DOMAIN list : In(list[q]) /\ At(list[q]) = q
  BY <1>1, PosOf, HereIs
<1>3. p < Len(list) => p + 1 \in DOMAIN list
  BY <1>1
<1>4. p > 1 => p - 1 \in DOMAIN list
  BY <1>1
<1> QED BY <1>2, <1>3, <1>4 DEF NextOf, PrevOf

\* What is between the tokens that RemoveRange names, when it goes.
Takes(n, i, r) ==
  LET a == At(r[1]) - 1
      b == At(r[2]) + 1
  IN  /\ Live(Here, n) /\ a \in 0 .. Len(list) /\ b \in a + 1 .. Len(list) + 1
      /\ a < From(Here, Child(n, i)) /\ To(Here, Child(n, i)) < b
      /\ Spares(Here, n, i, a, b)

\* What goes is the child, the gap to its neighbour, or a comma.
Taken(n, i, r) ==
  \A p \in DOMAIN list : At(r[1]) <= p /\ p <= At(r[2]) =>
    \/ list[p] \in ToSet(Span(Child(n, i))) \union ToSet(GapOf(n, i))
    \/ token[list[p]].type = "comma"

\* Where it begins and where it ends.
Cuts(n, i, r) ==
  LET a == At(r[1]) - 1
      b == At(r[2]) + 1
      c == Child(n, i)
  IN  /\ i < Size(n) => b = From(Here, Child(n, i + 1))
      /\ Size(n) # 1 /\ i = Size(n) => a = To(Here, Child(n, i - 1))
      /\ Size(n) = 1 =>
           /\ a = From(Here, c) - 1
           /\ \/ /\ b = To(Here, c) + 1
                 /\ \A x \in To(Here, c) + 1 .. To(Here, n) - 1 : token[list[x]].type # "comma"
              \/ To(Here, c) + 1 < b /\ b <= To(Here, n) /\ token[list[b - 1]].type = "comma"

LEMMA InSpan ==
  ASSUME WellFormed(Here), NEW c \in Node, Live(Here, c), NEW p \in From(Here, c) .. To(Here, c)
  PROVE  list[p] \in ToSet(Span(c))
<1> DEFINE s == Span(c)
           x == From(Here, c)
           j == p - x + 1
<1>1. SpanOf(c, s)
  BY SpanIs
<1>2. c \in DOMAIN Here.nodes /\ Listed(Here)
  BY HereIs DEF WellFormed, Node
<1>3. x \in Nat /\ To(Here, c) \in Nat
  BY <1>2, LiveNode
<1> HIDE DEF s, x
<1>4. DOMAIN s = 1 .. Len(s) /\ Len(s) = To(Here, c) - x + 1
      /\ \A k \in 1 .. Len(s) : s[k] = list[x + k - 1]
  <2>1. s \in Seq(DOMAIN token)
    BY <1>1 DEF SpanOf, Refs
  <2>2. DOMAIN s = 1 .. Len(s)
    BY <2>1
  <2> QED BY <1>1, <2>2 DEF SpanOf, x
<1>5. p \in x .. To(Here, c)
  BY DEF x
<1>6. j \in 1 .. Len(s) /\ x + j - 1 = p
  BY <1>3, <1>4, <1>5
<1>7. s[j] = list[p] /\ j \in DOMAIN s
  BY <1>4, <1>6
<1> QED BY <1>7 DEF ToSet, s

LEMMA InBetween ==
  ASSUME Listed(Here), NEW e, NEW f, Held(Here, e), Held(Here, f),
         NEW p \in Pos(Here, e) + 1 .. Pos(Here, f) - 1
  PROVE  list[p] \in ToSet(Between(e, f))
<1> DEFINE s == Between(e, f)
           x == Pos(Here, e)
           j == p - x
<1>1. Follows(s, e, f)
  BY StretchIs
<1>2. x \in Nat /\ Pos(Here, f) \in Nat
  BY HereIs, PosIs, ListIs
<1> HIDE DEF s, x
<1>3. p \in x + 1 .. Pos(Here, f) - 1
  BY DEF x
<1>4. x < Pos(Here, f)
  BY <1>2, <1>3
<1>5. /\ DOMAIN s = 1 .. Len(s) /\ Len(s) = Pos(Here, f) - x - 1
      /\ \A k \in 1 .. Len(s) : s[k] = list[x + k]
  <2>1. s \in Seq(DOMAIN token)
    BY <1>1 DEF Follows, Refs
  <2>2. DOMAIN s = 1 .. Len(s)
    BY <2>1
  <2> QED BY <1>1, <1>4, <2>2 DEF Follows, x
<1>6. j \in 1 .. Len(s) /\ x + j = p
  BY <1>2, <1>3, <1>5
<1>7. s[j] = list[p] /\ j \in DOMAIN s
  BY <1>5, <1>6
<1> QED BY <1>7 DEF ToSet, s

CommaAfter(rest) == FirstOf({k \in 1 .. Len(rest) : token[rest[k]].type = "comma"})

LEMMA RemoveRangeIs ==
  ASSUME NEW n, NEW i, Size(n) \in Nat, i \in 1 .. Size(n)
  PROVE  LET first == node[Child(n, i)].start
             last == node[Child(n, i)].end
             rest == Between(last, node[n].end)
         IN  /\ Size(n) = 1 =>
                  RemoveRange(n, i) = <<first, IF CommaAfter(rest) = 0 THEN last ELSE rest[CommaAfter(rest)]>>
             /\ i < Size(n) => RemoveRange(n, i) = <<first, PrevOf(node[Child(n, i + 1)].start)>>
             /\ Size(n) # 1 /\ i = Size(n) =>
                  RemoveRange(n, i) = <<NextOf(node[Child(n, i - 1)].end), last>>
<1> DEFINE only == Size(n) = 1
           inner == Size(n) > 1 /\ i < Size(n)
           final == Size(n) > 1 /\ i = Size(n)
<1>1. /\ Size(n) = 1 => only /\ ~inner /\ ~final
      /\ i < Size(n) => ~only /\ inner /\ ~final
      /\ Size(n) # 1 /\ i = Size(n) => ~only /\ ~inner /\ final
  OBVIOUS
<1>2. Size(n) = 1 => ~(Size(n) > 1)
  OBVIOUS
<1> QED BY <1>1, <1>2, Zenon DEF RemoveRange, SelectInSeq, CommaAfter, FirstOf

LEMMA RemoveOnly ==
  ASSUME WellFormed(Here), NEW n \in Node, Size(n) = 1,
         NEW r, r = RemoveRange(n, 1), InOrder(r[1], r[2])
  PROVE  Takes(n, 1, r) /\ Taken(n, 1, r) /\ Cuts(n, 1, r)
<1> DEFINE c == Child(n, 1)
           first == node[c].start
           last == node[c].end
           rest == Between(last, node[n].end)
           comma == CommaAfter(rest)
<1>1. r = <<first, IF comma = 0 THEN last ELSE rest[comma]>>
  <2>1. Size(n) \in Nat /\ 1 \in 1 .. Size(n)
    OBVIOUS
  <2> QED BY <2>1, RemoveRangeIs, Zenon
<1>2. Listed(Here) /\ n \in DOMAIN Here.nodes /\ c \in Node /\ 1 \in DOMAIN Kids(Here, n) /\ c = Kids(Here, n)[1]
      /\ DOMAIN Kids(Here, n) = 1 .. 1 /\ node[n].end = Ends(Here, n)
  <2>1. Listed(Here) /\ n \in DOMAIN Here.nodes /\ DOMAIN Kids(Here, n) = 1 .. 1 /\ c = Kids(Here, n)[1]
        /\ node[n].end = Ends(Here, n)
    BY NodeIs DEF WellFormed
  <2>2. 1 \in 1 .. 1
    OBVIOUS
  <2>3. c \in Node
    BY <2>1, <2>2, HereIs DEF WellFormed, Linked, LinkedAt, Node
  <2> QED BY <2>1, <2>2, <2>3
<1> HIDE DEF c
<1>3. first = Begins(Here, c) /\ last = Ends(Here, c) /\ c \in DOMAIN Here.nodes
  BY <1>2, NodeIs
<1>4. r[1] = first /\ r[2] = IF comma = 0 THEN last ELSE rest[comma]
  BY <1>1
<1> HIDE DEF first, last, comma, rest
<1>5. Live(Here, c)
  BY <1>3, <1>4, HereIs DEF InOrder, Live
<1>6. Live(Here, n)
  BY <1>2, <1>5 DEF WellFormed, Fallen, FallenAt
<1> DEFINE x == From(Here, n)
           y == From(Here, c)
           z == To(Here, c)
           w == To(Here, n)
<1>7. /\ x \in Nat /\ y \in Nat /\ z \in Nat /\ w \in Nat /\ Len(list) \in Nat /\ w <= Len(list)
      /\ x < y /\ y <= z /\ z < w /\ x >= 1
      /\ Held(Here, first) /\ Held(Here, last) /\ Held(Here, Ends(Here, n))
      /\ Here.list = list
  <2>1. Within(Here, n, c) /\ Here.list = list
    BY <1>2, <1>6, LiveNode, HereIs
  <2>2. x < y /\ z < w
    BY <2>1 DEF Within
  <2>3. /\ x \in Nat /\ w \in Nat /\ x \in 1 .. Len(list) /\ w \in 1 .. Len(list) /\ Len(list) \in Nat
        /\ Held(Here, Ends(Here, n))
    BY <1>2, <1>6, <2>1, LiveNode
  <2>4. y \in Nat /\ z \in Nat /\ y <= z /\ Held(Here, first) /\ Held(Here, last)
    BY <1>3, <1>5, LiveNode
  <2> QED BY <2>1, <2>2, <2>3, <2>4
<1>8. At(r[1]) = y
  BY <1>3, <1>4, HereIs DEF From
<1> DEFINE l == Len(rest)
           I == {k \in 1 .. l : token[rest[k]].type = "comma"}
<1>12. /\ l = w - z - 1 /\ l \in Nat /\ rest \in Seq(DOMAIN token)
       /\ \A j \in 1 .. l : z + j \in 1 .. Len(list) /\ rest[j] = list[z + j]
  <2>1. Follows(rest, last, Ends(Here, n))
    BY <1>2, <1>7, StretchIs DEF rest
  <2>2. z = Pos(Here, last) /\ w = Pos(Here, Ends(Here, n))
    BY <1>3 DEF To
  <2> HIDE DEF z, w
  <2>3. rest \in Seq(DOMAIN token) /\ Len(rest) \in Nat
    BY <2>1 DEF Follows, Refs
  <2>4. Len(rest) = w - z - 1
    BY ONLY <1>7, <2>1, <2>2 DEF Follows
  <2>5. \A j \in 1 .. Len(rest) : z + j \in 1 .. Len(list) /\ rest[j] = list[z + j]
    BY ONLY <2>1, <2>2 DEF Follows
  <2> QED BY ONLY <2>3, <2>4, <2>5 DEF l
<1> HIDE DEF l
<1>13. /\ comma \in 0 .. l /\ (I = {} => comma = 0)
       /\ I # {} => comma \in I /\ \A k \in I : comma <= k
  <2>1. comma = FirstOf(I) /\ I \in SUBSET (1 .. l)
    BY DEF comma, CommaAfter, l
  <2> HIDE DEF I
  <2> QED BY <1>12, <2>1, FirstOfIs
<1>14. At(r[2]) = z + comma
  <2>1. CASE comma = 0
    <3>1. At(r[2]) = z
      BY <1>3, <1>4, <2>1, HereIs DEF To
    <3> QED BY <1>7, <2>1, <3>1
  <2>2. CASE comma # 0
    <3>1. comma \in 1 .. l
      BY <1>12, <1>13, <2>2
    <3>2. z + comma \in 1 .. Len(list) /\ r[2] = list[z + comma]
      BY <1>4, <1>12, <2>2, <3>1
    <3> QED BY <1>2, <1>7, <3>2, PosOf, HereIs, ListIs
  <2> QED BY <2>1, <2>2
<1>9. At(r[2]) \in z .. w - 1
  BY <1>7, <1>12, <1>13, <1>14
<1> HIDE DEF x, y, z, w, I
<1>10. Spares(Here, n, 1, y - 1, At(r[2]) + 1)
  <2>1. \A j \in DOMAIN Kids(Here, n) : j = 1
    BY <1>2
  <2>2. x <= y - 1 /\ At(r[2]) + 1 <= w
    BY <1>7, <1>9
  <2> QED BY <2>1, <2>2 DEF Spares, x, w
<1>11. /\ y - 1 \in 0 .. Len(list) /\ At(r[2]) + 1 \in (y - 1) + 1 .. Len(list) + 1
       /\ y - 1 < y /\ z < At(r[2]) + 1
  BY <1>7, <1>9
<1>15. GapOf(n, 1) = Cut(rest, I)
  <2>1. Size(n) = 1 /\ ~(1 < Size(n)) /\ ~(1 > 1)
    OBVIOUS
  <2>2. GapOf(n, 1) = Before(rest, LAMBDA e : token[e].type = "comma")
    BY <2>1, Zenon DEF GapOf, rest, last, c
  <2>3. Before(rest, LAMBDA e : token[e].type = "comma") = Cut(rest, I)
    BY Zenon DEF Before, Cut, SelectInSeq, FirstOf, I, l
  <2> QED BY <2>2, <2>3
<1>16. ASSUME NEW o \in DOMAIN list, y <= o, o <= z + comma
       PROVE  \/ list[o] \in ToSet(Span(c)) \union ToSet(GapOf(n, 1))
              \/ token[list[o]].type = "comma"
  <2>1. o \in Nat
    BY <1>2, ListIs
  <2>2. CASE o <= z
    <3>1. o \in From(Here, c) .. To(Here, c)
      BY <1>7, <1>16, <2>1, <2>2 DEF y, z
    <3> QED BY <1>2, <1>5, <3>1, InSpan DEF WellFormed
  <2>3. CASE z < o
    <3> DEFINE j == o - z
    <3>1. j \in 1 .. l /\ z + j = o /\ j <= comma /\ j \in Nat /\ comma \in Nat /\ comma # 0
      BY <1>7, <1>12, <1>13, <1>16, <2>1, <2>3
    <3>2. list[o] = rest[j]
      BY <1>12, <3>1
    <3> HIDE DEF j
    <3>3. I # {} /\ comma \in I
      BY <1>13, <3>1
    <3>4. CASE j = comma
      BY <3>2, <3>3, <3>4 DEF I
    <3>5. CASE j < comma
      <4>1. I \in SUBSET (1 .. Len(rest))
        BY DEF I, l
      <4>2. IsCut(DOMAIN token, Cut(rest, I), rest, I)
        BY <1>12, <4>1, CutIs
      <4>3. comma = FirstOf(I)
        BY DEF comma, CommaAfter, I, l
      <4> DEFINE g == Cut(rest, I)
      <4> HIDE DEF g
      <4>4. g \in Seq(DOMAIN token) /\ Len(g) = comma - 1 /\ \A k \in 1 .. Len(g) : g[k] = rest[k]
        BY <3>3, <4>2, <4>3 DEF IsCut, g
      <4>5. j \in 1 .. Len(g) /\ DOMAIN g = 1 .. Len(g)
        BY <3>1, <3>5, <4>4
      <4>6. g[j] = list[o]
        BY <3>2, <4>4, <4>5
      <4>7. list[o] \in ToSet(g)
        BY <4>5, <4>6 DEF ToSet
      <4> QED BY <1>15, <4>7 DEF g
    <3> QED BY <3>1, <3>4, <3>5
  <2> QED BY <1>7, <2>1, <2>2, <2>3
<1>17. Taken(n, 1, r)
  BY <1>8, <1>14, <1>16 DEF Taken, c
<1>18. Cuts(n, 1, r)
  <2> DEFINE b == At(r[2]) + 1
  <2>1. CASE comma = 0
    <3>1. I = {}
      BY <1>12, <1>13, <2>1 DEF I
    <3>2. b = z + 1
      BY <1>7, <1>14, <2>1
    <3>3. ASSUME NEW x0 \in z + 1 .. w - 1 PROVE token[list[x0]].type # "comma"
      <4>1. x0 - z \in 1 .. l /\ z + (x0 - z) = x0
        BY <1>7, <1>12
      <4>2. rest[x0 - z] = list[x0]
        BY <1>12, <4>1
      <4> QED BY <3>1, <4>1, <4>2 DEF I
    <3>4. ~(1 < Size(n))
      OBVIOUS
    <3> QED BY <1>8, <3>2, <3>3, <3>4 DEF Cuts, y, z, w, c
  <2>2. CASE comma # 0
    <3>1. comma \in I /\ comma \in 1 .. l
      BY <1>12, <1>13, <2>2
    <3>2. b = z + comma + 1 /\ z + 1 < b /\ b <= w /\ b - 1 = z + comma
      BY <1>7, <1>12, <1>14, <3>1
    <3>3. token[list[z + comma]].type = "comma"
      BY <1>12, <3>1 DEF I
    <3>4. token[list[b - 1]].type = "comma"
      BY <3>2, <3>3
    <3>5. ~(1 < Size(n))
      OBVIOUS
    <3> QED BY <1>8, <3>2, <3>4, <3>5 DEF Cuts, y, z, w, c
  <2> QED BY <2>1, <2>2
<1> QED BY <1>6, <1>8, <1>10, <1>11, <1>17, <1>18 DEF Takes, y, z, c

\* A child that goes, if its first or last token is found: it is in use, and so are the others.
Whole(n, i) ==
  LET c == Child(n, i)
  IN  /\ c \in Node /\ c \in DOMAIN Here.nodes /\ i \in DOMAIN Kids(Here, n) /\ c = Kids(Here, n)[i]
      /\ node[c].start = Begins(Here, c) /\ node[c].end = Ends(Here, c)
      /\ In(node[c].start) \/ In(node[c].end) => Live(Here, c) /\ Live(Here, n)

LEMMA WholeIs ==
  ASSUME WellFormed(Here), NEW n \in Node, NEW i \in 1 .. Size(n)
  PROVE  Whole(n, i)
<1> DEFINE c == Child(n, i)
<1>1. Listed(Here) /\ n \in DOMAIN Here.nodes /\ i \in DOMAIN Kids(Here, n) /\ c = Kids(Here, n)[i]
  BY NodeIs DEF WellFormed
<1>2. c \in Node /\ c \in DOMAIN Here.nodes
  BY <1>1, HereIs DEF WellFormed, Linked, LinkedAt, Node
<1> HIDE DEF c
<1>3. node[c].start = Begins(Here, c) /\ node[c].end = Ends(Here, c)
  BY <1>1, <1>2, NodeIs
<1>4. ASSUME In(node[c].start) \/ In(node[c].end) PROVE Live(Here, c) /\ Live(Here, n)
  <2>1. Live(Here, c)
    BY <1>2, <1>3, <1>4, HereIs DEF WellFormed, Fallen, FallenAt, Live
  <2>2. Live(Here, n)
    BY <1>1, <2>1 DEF WellFormed, Fallen, FallenAt
  <2> QED BY <2>1, <2>2
<1> QED BY <1>1, <1>2, <1>3, <1>4 DEF Whole, c

Around(n, i) ==
  LET c == Child(n, i)
  IN  /\ From(Here, n) \in Nat /\ From(Here, c) \in Nat /\ To(Here, c) \in Nat /\ To(Here, n) \in Nat
      /\ Len(list) \in Nat /\ To(Here, n) <= Len(list) /\ From(Here, n) >= 1
      /\ From(Here, n) < From(Here, c) /\ From(Here, c) <= To(Here, c) /\ To(Here, c) < To(Here, n)
      /\ In(node[c].start) /\ In(node[c].end)
      /\ At(node[c].start) = From(Here, c) /\ At(node[c].end) = To(Here, c)
      /\ From(Here, c) \in DOMAIN list /\ list[From(Here, c)] = node[c].start
      /\ To(Here, c) \in DOMAIN list /\ list[To(Here, c)] = node[c].end

LEMMA AroundIs ==
  ASSUME WellFormed(Here), NEW n \in Node, Live(Here, n), NEW i \in 1 .. Size(n)
  PROVE  Around(n, i)
<1> DEFINE c == Child(n, i)
<1>1. /\ c \in DOMAIN Here.nodes /\ i \in DOMAIN Kids(Here, n) /\ c = Kids(Here, n)[i]
      /\ node[c].start = Begins(Here, c) /\ node[c].end = Ends(Here, c) /\ n \in DOMAIN Here.nodes
  BY WholeIs, HereIs DEF Whole, Node
<1>2. Within(Here, n, c)
  BY <1>1, LiveNode
<1> HIDE DEF c
<1>3. Live(Here, c) /\ From(Here, n) < From(Here, c) /\ To(Here, c) < To(Here, n) /\ Listed(Here) /\ Here.list = list
  BY <1>2, HereIs DEF Within, WellFormed
<1>4. /\ From(Here, n) \in Nat /\ To(Here, n) \in Nat /\ From(Here, n) \in 1 .. Len(list) /\ To(Here, n) \in 1 .. Len(list)
      /\ Len(list) \in Nat
  BY <1>1, <1>3, LiveNode
<1>5. /\ From(Here, c) \in Nat /\ To(Here, c) \in Nat /\ From(Here, c) <= To(Here, c)
      /\ Held(Here, node[c].start) /\ Held(Here, node[c].end)
  BY <1>1, <1>3, LiveNode
<1>6. /\ At(node[c].start) = From(Here, c) /\ At(node[c].end) = To(Here, c)
      /\ In(node[c].start) /\ In(node[c].end)
  BY <1>1, <1>5, HereIs DEF From, To
<1>7. /\ From(Here, c) \in DOMAIN list /\ list[From(Here, c)] = node[c].start
      /\ To(Here, c) \in DOMAIN list /\ list[To(Here, c)] = node[c].end
  BY <1>3, <1>5, <1>6, PosIs, HereIs
<1>8. To(Here, n) <= Len(list) /\ From(Here, n) >= 1
  BY <1>4
<1> QED BY <1>3, <1>4, <1>5, <1>6, <1>7, <1>8 DEF Around, c

LEMMA RemoveInner ==
  ASSUME WellFormed(Here), NEW n \in Node, NEW i \in 1 .. Size(n), i < Size(n),
         NEW r, r = RemoveRange(n, i), InOrder(r[1], r[2])
  PROVE  Takes(n, i, r) /\ Taken(n, i, r) /\ Cuts(n, i, r)
<1> DEFINE c == Child(n, i)
           e == Child(n, i + 1)
<1>1. Size(n) \in Nat /\ i + 1 \in 1 .. Size(n) /\ DOMAIN Kids(Here, n) = 1 .. Size(n) /\ n \in DOMAIN Here.nodes
  <2>1. Size(n) \in Nat /\ DOMAIN Kids(Here, n) = 1 .. Size(n) /\ n \in DOMAIN Here.nodes
    BY NodeIs DEF WellFormed
  <2> QED BY <2>1
<1>2. r[1] = node[c].start /\ r[2] = PrevOf(node[e].start)
  BY <1>1, RemoveRangeIs
<1>3. Live(Here, n)
  BY <1>2, WholeIs DEF Whole, InOrder
<1>4. Around(n, i) /\ Around(n, i + 1)
  BY <1>1, <1>3, AroundIs
<1>5. c = Kids(Here, n)[i] /\ e = Kids(Here, n)[i + 1]
  BY <1>1, WholeIs DEF Whole
<1>6. To(Here, c) < From(Here, e)
  BY <1>1, <1>3, <1>5, KidsInOrder
<1> DEFINE y == From(Here, c)
           z == To(Here, c)
           p == From(Here, e)
<1>7. /\ y \in Nat /\ z \in Nat /\ y <= z /\ p \in Nat /\ z < p /\ p \in DOMAIN list /\ list[p] = node[e].start
      /\ At(node[c].start) = y /\ p <= To(Here, e) /\ To(Here, e) \in Nat
      /\ From(Here, n) < y /\ To(Here, e) < To(Here, n) /\ To(Here, n) <= Len(list)
      /\ From(Here, n) \in Nat /\ To(Here, n) \in Nat /\ Len(list) \in Nat /\ From(Here, n) >= 1
  BY <1>4, <1>6 DEF Around
<1> HIDE DEF c, e, y, z, p
<1>8. At(r[1]) = y /\ At(r[2]) = p - 1
  <2>1. p > 1
    BY <1>7
  <2>2. PrevOf(list[p]) = list[p - 1] /\ At(list[p - 1]) = p - 1
    BY <1>7, <2>1, Neighbour
  <2> QED BY <1>2, <1>7, <2>2
<1>9. ASSUME NEW j \in DOMAIN Kids(Here, n)
      PROVE  /\ j < i => To(Here, Kids(Here, n)[j]) <= y - 1
             /\ i < j => p <= From(Here, Kids(Here, n)[j])
  <2>1. Child(n, j) = Kids(Here, n)[j] /\ Around(n, j) /\ j \in 1 .. Size(n)
    BY <1>1, <1>3, WholeIs, AroundIs DEF Whole
  <2> DEFINE k == Kids(Here, n)[j]
  <2>2. From(Here, k) \in Nat /\ To(Here, k) \in Nat /\ From(Here, k) <= To(Here, k)
    BY <2>1 DEF Around
  <2>3. j < i => To(Here, k) < y
    BY <1>1, <1>3, <1>5, KidsInOrder DEF y
  <2>4. j > i + 1 => To(Here, e) < From(Here, k)
    BY <1>1, <1>3, <1>5, KidsInOrder
  <2>5. j = i + 1 => From(Here, k) = p
    BY <1>5 DEF p
  <2> HIDE DEF k
  <2>6. i < j => p <= From(Here, k)
    BY <1>1, <1>7, <2>1, <2>2, <2>4, <2>5
  <2>7. j < i => To(Here, k) <= y - 1
    BY <1>7, <2>2, <2>3
  <2> QED BY <2>6, <2>7 DEF k
<1> DEFINE b == (p - 1) + 1
<1>10. b = p
  BY <1>7
<1>11. Spares(Here, n, i, y - 1, b)
  <2>1. From(Here, n) <= y - 1 /\ p <= To(Here, n)
    BY <1>7
  <2> HIDE DEF b
  <2> QED BY <1>9, <1>10, <2>1 DEF Spares
<1>12. /\ y - 1 \in 0 .. Len(list) /\ b \in (y - 1) + 1 .. Len(list) + 1 /\ y - 1 < y /\ z < b
  BY <1>7, <1>10
<1> HIDE DEF b
<1>13. At(r[2]) + 1 = b
  BY <1>8 DEF b
<1>14. Listed(Here) /\ c \in Node /\ Live(Here, c) /\ Held(Here, node[c].end) /\ Held(Here, node[e].start)
       /\ Pos(Here, node[c].end) = z /\ Pos(Here, node[e].start) = p
  <2>1. In(node[c].end) /\ In(node[e].start) /\ At(node[c].end) = z /\ At(node[e].start) = p
    BY <1>4 DEF Around, c, e, z, p
  <2> QED BY <1>1, <2>1, HereIs, WholeIs DEF Whole, WellFormed, c
<1>15. GapOf(n, i) = Between(node[c].end, node[e].start)
  <2>1. i < Size(n) /\ ~(i = Size(n))
    BY <1>1
  <2> QED BY <2>1, Zenon DEF GapOf, c, e
<1>16. ASSUME NEW o \in DOMAIN list, y <= o, o <= p - 1
       PROVE  list[o] \in ToSet(Span(c)) \union ToSet(GapOf(n, i))
  <2>1. o \in Nat
    BY <1>14, ListIs
  <2>2. CASE o <= z
    <3>1. o \in From(Here, c) .. To(Here, c)
      BY <1>7, <1>16, <2>1, <2>2 DEF y, z
    <3> QED BY <1>14, <3>1, InSpan
  <2>3. CASE z < o
    <3>1. o \in Pos(Here, node[c].end) + 1 .. Pos(Here, node[e].start) - 1
      BY <1>7, <1>14, <1>16, <2>1, <2>3
    <3> QED BY <1>14, <1>15, <3>1, InBetween
  <2> QED BY <1>7, <2>1, <2>2, <2>3
<1>17. Taken(n, i, r)
  BY <1>8, <1>16 DEF Taken, c
<1>18. Cuts(n, i, r)
  <2>1. i \in Nat /\ ~(i = Size(n)) /\ Size(n) # 1
    BY <1>1
  <2> QED BY <1>10, <1>13, <2>1 DEF Cuts, p, e
<1> QED BY <1>3, <1>8, <1>11, <1>12, <1>13, <1>17, <1>18 DEF Takes, y, z, c

LEMMA RemoveLast ==
  ASSUME WellFormed(Here), NEW n \in Node, NEW i \in 1 .. Size(n), i = Size(n), Size(n) # 1,
         NEW r, r = RemoveRange(n, i), InOrder(r[1], r[2])
  PROVE  Takes(n, i, r) /\ Taken(n, i, r) /\ Cuts(n, i, r)
<1> DEFINE c == Child(n, i)
           e == Child(n, i - 1)
<1>1. Size(n) \in Nat /\ i - 1 \in 1 .. Size(n) /\ DOMAIN Kids(Here, n) = 1 .. Size(n) /\ n \in DOMAIN Here.nodes
  <2>1. Size(n) \in Nat /\ DOMAIN Kids(Here, n) = 1 .. Size(n) /\ n \in DOMAIN Here.nodes
    BY NodeIs DEF WellFormed
  <2> QED BY <2>1
<1>2. r[1] = NextOf(node[e].end) /\ r[2] = node[c].end
  BY <1>1, RemoveRangeIs
<1>3. Live(Here, n)
  BY <1>2, WholeIs DEF Whole, InOrder
<1>4. Around(n, i) /\ Around(n, i - 1)
  BY <1>1, <1>3, AroundIs
<1>5. c = Kids(Here, n)[i] /\ e = Kids(Here, n)[i - 1]
  BY <1>1, WholeIs DEF Whole
<1>6. To(Here, e) < From(Here, c)
  BY <1>1, <1>3, <1>5, KidsInOrder
<1> DEFINE y == From(Here, c)
           z == To(Here, c)
           p == To(Here, e)
<1>7. /\ y \in Nat /\ z \in Nat /\ y <= z /\ p \in Nat /\ p < y /\ p \in DOMAIN list /\ list[p] = node[e].end
      /\ At(node[c].end) = z /\ From(Here, e) <= p /\ From(Here, e) \in Nat
      /\ From(Here, n) < From(Here, e) /\ z < To(Here, n) /\ To(Here, n) <= Len(list)
      /\ From(Here, n) \in Nat /\ To(Here, n) \in Nat /\ Len(list) \in Nat /\ From(Here, n) >= 1
  BY <1>4, <1>6 DEF Around
<1> HIDE DEF c, e, y, z, p
<1>8. At(r[1]) = p + 1 /\ At(r[2]) = z
  <2>1. p < Len(list)
    BY <1>7
  <2>2. NextOf(list[p]) = list[p + 1] /\ At(list[p + 1]) = p + 1
    BY <1>7, <2>1, Neighbour
  <2> QED BY <1>2, <1>7, <2>2
<1>9. ASSUME NEW j \in DOMAIN Kids(Here, n)
      PROVE  /\ j < i => To(Here, Kids(Here, n)[j]) <= p
             /\ ~(i < j)
  <2>1. Child(n, j) = Kids(Here, n)[j] /\ Around(n, j) /\ j \in 1 .. Size(n)
    BY <1>1, <1>3, WholeIs, AroundIs DEF Whole
  <2> DEFINE k == Kids(Here, n)[j]
  <2>2. From(Here, k) \in Nat /\ To(Here, k) \in Nat /\ From(Here, k) <= To(Here, k)
    BY <2>1 DEF Around
  <2>3. j < i - 1 => To(Here, k) < From(Here, e)
    BY <1>1, <1>3, <1>5, KidsInOrder
  <2>4. j = i - 1 => To(Here, k) = p
    BY <1>5 DEF p
  <2> HIDE DEF k
  <2>5. j < i => To(Here, k) <= p
    BY <1>1, <1>7, <2>1, <2>2, <2>3, <2>4
  <2>6. ~(i < j)
    BY <1>1, <2>1
  <2> QED BY <2>5, <2>6 DEF k
<1> DEFINE a == (p + 1) - 1
<1>10. a = p
  BY <1>7
<1>11. Spares(Here, n, i, a, z + 1)
  <2>1. From(Here, n) <= p /\ z + 1 <= To(Here, n)
    BY <1>7
  <2> HIDE DEF a
  <2> QED BY <1>9, <1>10, <2>1 DEF Spares
<1>12. /\ a \in 0 .. Len(list) /\ z + 1 \in a + 1 .. Len(list) + 1 /\ a < y /\ z < z + 1
  BY <1>7, <1>10
<1> HIDE DEF a
<1>13. At(r[1]) - 1 = a
  BY <1>8 DEF a
<1>14. Listed(Here) /\ c \in Node /\ Live(Here, c) /\ Held(Here, node[e].end) /\ Held(Here, node[c].start)
       /\ Pos(Here, node[e].end) = p /\ Pos(Here, node[c].start) = y
  <2>1. In(node[e].end) /\ In(node[c].start) /\ At(node[e].end) = p /\ At(node[c].start) = y
    BY <1>4 DEF Around, c, e, y, p
  <2> QED BY <1>1, <2>1, HereIs, WholeIs DEF Whole, WellFormed, c
<1>15. GapOf(n, i) = Between(node[e].end, node[c].start)
  <2>1. ~(i < Size(n)) /\ i > 1
    BY <1>1
  <2> QED BY <2>1, Zenon DEF GapOf, c, e
<1>16. ASSUME NEW o \in DOMAIN list, p + 1 <= o, o <= z
       PROVE  list[o] \in ToSet(Span(c)) \union ToSet(GapOf(n, i))
  <2>1. o \in Nat
    BY <1>14, ListIs
  <2>2. CASE y <= o
    <3>1. o \in From(Here, c) .. To(Here, c)
      BY <1>7, <1>16, <2>1, <2>2 DEF y, z
    <3> QED BY <1>14, <3>1, InSpan
  <2>3. CASE o < y
    <3>1. o \in Pos(Here, node[e].end) + 1 .. Pos(Here, node[c].start) - 1
      BY <1>7, <1>14, <1>16, <2>1, <2>3
    <3> QED BY <1>14, <1>15, <3>1, InBetween
  <2> QED BY <1>7, <2>1, <2>2, <2>3
<1>17. Taken(n, i, r)
  BY <1>8, <1>16 DEF Taken, c
<1>18. Cuts(n, i, r)
  <2>1. ~(i < Size(n))
    BY <1>1
  <2> QED BY <1>10, <1>13, <2>1 DEF Cuts, p, e
<1> QED BY <1>3, <1>8, <1>11, <1>12, <1>13, <1>17, <1>18 DEF Takes, y, z, c

LEMMA RemoveTakes ==
  ASSUME WellFormed(Here), NEW n \in Node, NEW i \in 1 .. Size(n), RemoveResult(n, i) = "ok"
  PROVE  /\ Takes(n, i, RemoveRange(n, i)) /\ Taken(n, i, RemoveRange(n, i))
         /\ Cuts(n, i, RemoveRange(n, i))
<1> DEFINE r == RemoveRange(n, i)
<1>1. InOrder(r[1], r[2])
  BY DEF RemoveResult
<1>2. Size(n) \in Nat
  BY NodeIs DEF WellFormed
<1>3. CASE Size(n) = 1
  <2>1. i = 1
    BY <1>3
  <2> HIDE DEF r
  <2>2. r = RemoveRange(n, 1)
    BY <2>1 DEF r
  <2>3. Takes(n, 1, r) /\ Taken(n, 1, r) /\ Cuts(n, 1, r)
    BY <1>1, <1>3, <2>2, RemoveOnly
  <2> QED BY <2>1, <2>3 DEF r
<1>4. CASE i < Size(n)
  BY <1>1, <1>4, RemoveInner
<1>5. CASE Size(n) # 1 /\ i = Size(n)
  BY <1>1, <1>5, RemoveLast
<1> QED BY <1>2, <1>3, <1>4, <1>5

\* With nothing behind it, a sequence is the same.
LEMMA NothingBehind ==
  ASSUME NEW x \in Seq(NodeRecord), NEW n \in DOMAIN x, NEW kk \in Seq(Nat), NEW dt \in Nat, NEW dn \in Nat
  PROVE  [x EXCEPT ![n].children = kk] \o Shift(<<>>, dt, dn) = [x EXCEPT ![n].children = kk]
<1> DEFINE v == [x[n] EXCEPT !.children = kk]
           u == [x EXCEPT ![n] = v]
           s == Shift(<<>>, dt, dn)
<1>1. x[n] \in NodeRecord
  <2> HIDE DEF NodeRecord
  <2> QED OBVIOUS
<1>2. v \in NodeRecord
  <2> HIDE DEF NodeType
  <2> QED BY <1>1 DEF NodeRecord
<1>3. [x EXCEPT ![n].children = kk] = u
  OBVIOUS
<1>4. s = <<>>
  <2>1. <<>> \in Seq(NodeRecord) /\ Len(<<>>) = 0
    OBVIOUS
  <2>2. Shifts(s, <<>>, dt, dn)
    BY <2>1, ShiftIs
  <2> HIDE DEF s, NodeRecord
  <2>3. s \in Seq(NodeRecord) /\ Len(s) = 0
    BY <2>1, <2>2 DEF Shifts
  <2> QED BY <2>3
<1> HIDE DEF v, NodeRecord, s
<1>5. u \in Seq(NodeRecord)
  BY <1>2
<1> HIDE DEF u
<1>6. u \o <<>> = u
  BY <1>5
<1> QED BY <1>3, <1>4, <1>6 DEF s

\* What goes leaves no separator without its place.
Mends(a, b) ==
  LET o == OutlineOf(Here)
  IN  \/ b \in o.opens
      \/ a \in o.closes
      \/ /\ \E y \in 1 .. a : o.type[y] \notin Blank \union Separator /\ Blanks(o, y, a + 1)
         /\ \A x \in b .. o.n : o.type[x] \in Separator => ~Blanks(o, b - 1, x)

LEMMA CutsMend ==
  ASSUME WellFormed(Here), Tidy(Here), NEW n \in Node, Live(Here, n), Kind(Here, n) \in ContainerType,
         NEW i \in 1 .. Size(n), NEW r, Takes(n, i, r), Cuts(n, i, r)
  PROVE  Mends(At(r[1]) - 1, At(r[2]) + 1)
<1> DEFINE a == At(r[1]) - 1
           b == At(r[2]) + 1
           o == OutlineOf(Here)
<1>1. /\ Here.tokens = token /\ Here.list = list /\ n \in DOMAIN Here.nodes
      /\ Size(n) = Len(Kids(Here, n)) /\ Size(n) \in Nat /\ DOMAIN Kids(Here, n) = 1 .. Size(n)
      /\ \A j : Child(n, j) = Kids(Here, n)[j]
  BY NodeIs, HereIs DEF WellFormed
<1>2. ASSUME NEW j \in 1 .. Size(n)
      PROVE  /\ Child(n, j) \in DOMAIN Here.nodes /\ Live(Here, Child(n, j))
             /\ From(Here, Child(n, j)) \in o.opens /\ To(Here, Child(n, j)) \in o.closes
             /\ From(Here, Child(n, j)) \in Nat /\ To(Here, Child(n, j)) \in Nat
  <2> DEFINE c == Child(n, j)
  <2>1. Within(Here, n, c)
    BY <1>1, LiveNode
  <2> HIDE DEF c
  <2>2. c \in DOMAIN Here.nodes /\ Live(Here, c)
    BY <2>1 DEF Within
  <2> QED BY <2>2, EndsSeen, LiveNode DEF Tidy, c
<1>3. CASE i < Size(n)
  <2>1. i + 1 \in 1 .. Size(n)
    BY <1>1, <1>3
  <2>2. b = From(Here, Child(n, i + 1))
    BY <1>3 DEF Cuts
  <2> HIDE DEF a, b, o
  <2>3. b \in o.opens
    BY <1>2, <2>1, <2>2
  <2> QED BY <2>3 DEF Mends, a, b, o
<1>4. CASE Size(n) # 1 /\ i = Size(n)
  <2>1. i - 1 \in 1 .. Size(n)
    BY <1>1, <1>4
  <2>2. a = To(Here, Child(n, i - 1))
    BY <1>4 DEF Cuts
  <2> HIDE DEF a, b, o
  <2>3. a \in o.closes
    BY <1>2, <2>1, <2>2
  <2> QED BY <2>3 DEF Mends, a, b, o
<1>5. CASE Size(n) = 1
  <2> DEFINE c == Kids(Here, n)[1]
  <2>1. i = 1 /\ 1 \in 1 .. Size(n) /\ Child(n, i) = c /\ Len(Kids(Here, n)) = 1
    BY <1>1, <1>5
  <2>2. /\ a = From(Here, c) - 1
        /\ \/ /\ b = To(Here, c) + 1
              /\ \A x \in To(Here, c) + 1 .. To(Here, n) - 1 : token[list[x]].type # "comma"
           \/ To(Here, c) + 1 < b /\ b <= To(Here, n) /\ token[list[b - 1]].type = "comma"
    BY <1>5, <2>1 DEF Cuts
  <2>3. From(Here, c) \in Nat /\ To(Here, c) \in Nat /\ To(Here, n) \in Nat
    BY <1>1, <1>2, <2>1, LiveNode
  <2> HIDE DEF a, b
  <2>4. b \in Nat
    <3>1. a \in 0 .. Len(list) /\ b \in a + 1 .. Len(list) + 1
      BY DEF Takes, a, b
    <3> QED BY <3>1
  <2>5. \/ /\ b = To(Here, c) + 1
           /\ \A x \in To(Here, c) + 1 .. To(Here, n) - 1 : Here.tokens[Here.list[x]].type # "comma"
        \/ To(Here, c) + 1 < b /\ b <= To(Here, n) /\ Here.tokens[Here.list[b - 1]].type = "comma"
    BY <1>1, <2>2
  <2> HIDE DEF o
  <2>6. /\ \E y \in 1 .. a : o.type[y] \notin Blank \union Separator /\ Blanks(o, y, a + 1)
        /\ \A x \in b .. o.n : o.type[x] \in Separator => ~Blanks(o, b - 1, x)
    BY <1>1, <2>1, <2>2, <2>4, <2>5, OnlyGoes DEF o
  <2> QED BY <2>6 DEF Mends, a, b, o
<1> QED BY <1>1, <1>3, <1>4, <1>5

LEMMA RemoveKeeps ==
  ASSUME Sound, NEW n \in Node, Kind(Here, n) \in ContainerType, NEW i \in 1 .. Size(n),
         RemoveResult(n, i) = "ok", RemoveBody(n, i)
  PROVE  Sound' /\ Counted
<1> DEFINE r == RemoveRange(n, i)
           a == At(r[1]) - 1
           b == At(r[2]) + 1
           c == Kids(Here, n)[i]
<1>1. WellFormed(Here) /\ Tidy(Here) /\ Listed(Here)
  BY DEF Sound, WellFormed
<1>2. /\ n \in DOMAIN Here.nodes /\ node[n].children = Kids(Here, n) /\ Size(n) = Len(Kids(Here, n)) /\ Size(n) \in Nat
      /\ i \in DOMAIN Kids(Here, n) /\ Child(n, i) = c /\ Here.nodes = node
  BY <1>1, NodeIs, HereIs
<1>3. Takes(n, i, r) /\ Cuts(n, i, r)
  BY <1>1, RemoveTakes
<1>4. /\ Live(Here, n) /\ a \in 0 .. Len(Here.list) /\ b \in a + 1 .. Len(Here.list) + 1
      /\ a < From(Here, c) /\ To(Here, c) < b /\ Spares(Here, n, i, a, b)
  BY <1>2, <1>3, HereIs, Zenon DEF Takes
<1>13. Mends(a, b)
  BY <1>1, <1>2, <1>3, <1>4, CutsMend DEF c
<1> HIDE DEF r
<1>5. WellFormed(Removed(Here, n, i, a, b)) /\ Tidy(Removed(Here, n, i, a, b))
  <2> HIDE DEF a, b
  <2> DEFINE q == Removed(Here, n, i, a, b)
  <2>1. WellFormed(q) /\ Redrawn(Here, q, Nothing, a, b)
    BY <1>1, <1>2, <1>4, RemovedKeeps DEF c
  <2> HIDE DEF q
  <2>2. Tidy(q)
    BY <1>1, <1>13, <2>1, RemovedTidy DEF Mends
  <2> QED BY <2>1, <2>2 DEF q
<1> DEFINE kk == RemoveAt(Kids(Here, n), i)
<1>6. /\ token' = token \o <<>> /\ node' = [node EXCEPT ![n].children = RemoveAt(@, i)]
      /\ list' = Spliced(r[1], r[2], 0) /\ edits' = edits + 1 /\ root' = root
  BY Zenon DEF RemoveBody, Edit, r
<1>7. list' = Splice(Here.list, a, b, Len(Here.tokens), 0)
  BY <1>6, SplicedIs, HereIs, Zenon
<1>8. Nothing.tokens = <<>> /\ Nothing.nodes = <<>> /\ Len(<<>>) = 0
  BY NothingIs
<1>9. node' = [node EXCEPT ![n].children = kk]
  BY <1>2, <1>6
<1>10. node' = [Here.nodes EXCEPT ![n].children = kk] \o Shift(Nothing.nodes, Len(Here.tokens), Len(Here.nodes))
  <2>1. Kids(Here, n) \in Seq(Nat) /\ Len(Here.tokens) \in Nat /\ Len(Here.nodes) \in Nat /\ Here.nodes \in Seq(NodeRecord)
    BY <1>1, <1>2, DocumentIs DEF Listed
  <2>2. kk \in Seq(Nat)
    BY <1>2, <2>1, RemoveAtIs
  <2> HIDE DEF kk
  <2> DEFINE x == Here.nodes
             dt == Len(Here.tokens)
             dn == Len(Here.nodes)
  <2>3. [x EXCEPT ![n].children = kk] \o Shift(<<>>, dt, dn) = [x EXCEPT ![n].children = kk]
    <3>1. x \in Seq(NodeRecord) /\ n \in DOMAIN x /\ kk \in Seq(Nat) /\ dt \in Nat /\ dn \in Nat
      BY <1>2, <2>1, <2>2
    <3> HIDE DEF x, dt, dn
    <3> QED BY ONLY <3>1, NothingBehind, SMTT(60)
  <2>4. node' = [Here.nodes EXCEPT ![n].children = kk]
    BY <1>2, <1>9 DEF kk
  <2> QED BY <1>8, <2>3, <2>4, Zenon
<1> HIDE DEF a, b, kk
<1>11. Removed(Here, n, i, a, b) = [tokens |-> token', nodes |-> node', list |-> list']
  <2>1. token' = Here.tokens \o Nothing.tokens
    BY <1>6, <1>8, HereIs
  <2>2. list' = Splice(Here.list, a, b, Len(Here.tokens), Len(Nothing.tokens))
    BY <1>7, <1>8
  <2> QED BY <1>10, <2>1, <2>2, Zenon DEF Removed, Grown, kk
<1>12. Here' = Removed(Here, n, i, a, b)
  BY <1>11 DEF Here
<1> QED BY <1>5, <1>6, <1>12 DEF Sound, Counted

\* Only the texts of tokens change that are neither anchors nor brackets.
LEMMA TreeStays ==
  ASSUME NEW d, WellFormed(d), NEW q, q.tokens \in Toks, q.nodes = d.nodes, q.list = d.list,
         DOMAIN q.tokens = DOMAIN d.tokens,
         \A e \in DOMAIN d.tokens :
           /\ q.tokens[e] = Anchor <=> d.tokens[e] = Anchor
           /\ Opening(d.tokens[e]) => Opening(q.tokens[e])
  PROVE  WellFormed(q)
<1>1. /\ \A e : Held(q, e) <=> Held(d, e)
      /\ \A e : Pos(q, e) = Pos(d, e)
  BY DEF Held, Pos
<1>2. \A k : Kind(q, k) = Kind(d, k) /\ Begins(q, k) = Begins(d, k) /\ Ends(q, k) = Ends(d, k) /\ Kids(q, k) = Kids(d, k)
  BY DEF Kind, Begins, Ends, Kids
<1>3. \A k : (Live(q, k) <=> Live(d, k)) /\ From(q, k) = From(d, k) /\ To(q, k) = To(d, k)
  BY <1>1, <1>2 DEF Live, From, To
<1>4. Listed(q)
  BY DEF WellFormed, Listed
<1>5. Linked(q)
  <2>1. \A k \in DOMAIN d.nodes : LinkedAt(d, k)
    BY DEF WellFormed, Linked
  <2> QED BY <1>2, <2>1 DEF Linked, LinkedAt
<1>6. Formed(q)
  <2>1. \A k \in DOMAIN d.nodes : FormedAt(d, k) /\ LinkedAt(d, k)
    BY DEF WellFormed, Formed, Linked
  <2>2. ASSUME NEW k \in DOMAIN d.nodes PROVE FormedAt(q, k)
    <3>1. FormedAt(d, k) /\ Begins(d, k) \in DOMAIN d.tokens
      BY <2>1 DEF LinkedAt
    <3>2. Full(q, k)
      BY <1>2, <3>1 DEF FormedAt, Full
    <3>3. Kind(q, k) \notin ContainerType \union WrapperType => Kids(q, k) = <<>> /\ Ends(q, k) = Begins(q, k)
      BY <1>2, <3>1 DEF FormedAt
    <3>4. Kind(q, k) \in ContainerType => Opening(q.tokens[Begins(q, k)])
      BY <1>2, <3>1 DEF FormedAt
    <3>5. \A i \in DOMAIN Kids(q, k) :
            /\ Kind(q, k) = "object" => Kind(q, Kids(q, k)[i]) = "field"
            /\ Kind(q, k) = "array" => Kind(q, Kids(q, k)[i]) = "element"
            /\ Kind(q, k) \in WrapperType => Kind(q, Kids(q, k)[i]) \notin WrapperType
      BY <1>2, <3>1 DEF FormedAt
    <3> QED BY <3>2, <3>3, <3>4, <3>5 DEF FormedAt
  <2> QED BY <2>2 DEF Formed
<1>7. OneParent(q)
  BY <1>2 DEF WellFormed, OneParent
<1>8. Standing(q)
  <2>1. \A k \in DOMAIN d.nodes : StandingAt(d, k)
    BY DEF WellFormed, Standing
  <2>2. ASSUME NEW k \in DOMAIN d.nodes PROVE StandingAt(q, k)
    <3>1. StandingAt(d, k)
      BY <2>1
    <3> QED BY <1>1, <1>2, <1>3, <3>1 DEF StandingAt
  <2> QED BY <2>2 DEF Standing
<1>9. Fallen(q)
  <2>1. \A k \in DOMAIN d.nodes : FallenAt(d, k)
    BY DEF WellFormed, Fallen
  <2> QED BY <1>1, <1>2, <1>3, <2>1 DEF Fallen, FallenAt
<1>10. Kept(q)
  <2>1. Kept(d)
    BY DEF WellFormed
  <2>2. 1 \in DOMAIN q.nodes /\ Live(q, 1) /\ Kind(q, 1) \notin WrapperType
    BY <1>2, <1>3, <2>1 DEF Kept
  <2> QED BY <1>2, <1>3, <2>1, <2>2 DEF Kept
<1>11. Marked(q)
  <2>1. Marked(d)
    BY DEF WellFormed
  <2> QED BY <1>1, <1>2, <1>3, <2>1 DEF Marked
<1> QED BY <1>4, <1>5, <1>6, <1>7, <1>8, <1>9, <1>10, <1>11 DEF WellFormed

\* As long as their types stay.
LEMMA TextTidy ==
  ASSUME NEW d, WellFormed(d), Tidy(d), NEW q, q.nodes = d.nodes, q.list = d.list,
         DOMAIN q.tokens = DOMAIN d.tokens, \A e \in DOMAIN d.tokens : q.tokens[e].type = d.tokens[e].type
  PROVE  Tidy(q)
<1>1. Listed(d) /\ \A k \in DOMAIN d.nodes : LinkedAt(d, k)
  BY DEF WellFormed, Linked
<1>2. \A i \in DOMAIN d.list : d.list[i] \in DOMAIN d.tokens
  BY <1>1 DEF Listed
<1>3. \A e : (OpensAt(q, e) <=> OpensAt(d, e)) /\ (ClosesAt(q, e) <=> ClosesAt(d, e))
             /\ (ClosesContainer(q, e) <=> ClosesContainer(d, e))
  BY DEF OpensAt, ClosesAt, ClosesContainer, Begins, Ends, Kind
<1>4. OutlineOf(q) = OutlineOf(d)
  <2>1. [i \in DOMAIN q.list |-> q.tokens[q.list[i]].type] = [i \in DOMAIN d.list |-> d.tokens[d.list[i]].type]
    BY <1>2
  <2> QED BY <1>3, <2>1 DEF OutlineOf
<1>5. Voiced(q)
  <2>1. \A k \in DOMAIN d.nodes :
          /\ Begins(q, k) = Begins(d, k) /\ Ends(q, k) = Ends(d, k)
          /\ Begins(d, k) \in DOMAIN d.tokens /\ Ends(d, k) \in DOMAIN d.tokens
    BY <1>1 DEF LinkedAt, Begins, Ends
  <2> QED BY <2>1 DEF Tidy, Voiced, Loud
<1> QED BY <1>4, <1>5 DEF Tidy

\* A comment is no bracket.
LEMMA BracketIsDelim == \A t : Opening(t) => t.type = "delim"
<1>1. ASSUME NEW x \in OpenBracket PROVE TokenType(x) = "delim"
  BY PunctuationAssumption, Zenon DEF TokenType, Punctuation, OpenBracket, Keyword
<1>2. \A t : Opening(t) => \E x \in OpenBracket : t = Token(x)
  BY Zenon DEF Opening, OpenBracket
<1>3. \A x : Token(x).type = TokenType(x)
  BY DEF Token
<1> QED BY <1>1, <1>2, <1>3

LEMMA TextKeeps ==
  ASSUME Sound, NEW c \in DOMAIN token, token[c].type = "comment",
         NEW literal \in Txt,
         token' = [token EXCEPT ![c].literal = literal], node' = node, list' = list
  PROVE  Sound'
<1> DEFINE t == [token[c] EXCEPT !.literal = literal]
<1>1. WellFormed(Here) /\ Listed(Here)
  BY DEF Sound, WellFormed
<1>2. token \in Seq(Tok) /\ DOMAIN token = 1 .. Len(token) /\ Len(token) \in Nat
  BY <1>1, ListIs DEF Toks
<1>3. token[c] \in Tok
  <2> HIDE DEF Tok
  <2> QED BY <1>2
<1>4. t \in Tok /\ t.type = "comment"
  <2>1. token[c] \in [type : LexType \union {"anchor"}, literal : Txt]
    BY <1>3 DEF Tok
  <2>2. t \in [type : LexType \union {"anchor"}, literal : Txt] /\ t.type = "comment"
    <3> HIDE DEF Txt, LexType
    <3> QED BY <2>1
  <2> QED BY <2>2 DEF Tok
<1>5. token' = [token EXCEPT ![c] = t]
  OBVIOUS
<1> HIDE DEF t
<1>6. token' \in Seq(Tok) /\ DOMAIN token' = DOMAIN token /\ token'[c] = t
      /\ \A e \in DOMAIN token : e # c => token'[e] = token[e]
  <2> HIDE DEF Tok
  <2> QED BY <1>2, <1>4, <1>5
<1>7. t # Anchor /\ token[c] # Anchor
  BY <1>4 DEF Anchor
<1>8. ~Opening(token[c])
  BY BracketIsDelim
<1> DEFINE q == [tokens |-> token', nodes |-> node', list |-> list']
<1>9. q.tokens = token' /\ q.nodes = Here.nodes /\ q.list = Here.list /\ Here.tokens = token
  BY HereIs
<1>10. Here' = q
  BY DEF Here
<1> HIDE DEF q, Tok
<1>11. q.tokens \in Toks /\ DOMAIN q.tokens = DOMAIN Here.tokens
  BY <1>6, <1>9 DEF Toks
<1>12. \A e \in DOMAIN Here.tokens :
         /\ q.tokens[e] = Anchor <=> Here.tokens[e] = Anchor
         /\ Opening(Here.tokens[e]) => Opening(q.tokens[e])
  <2> HIDE DEF Anchor
  <2> QED BY <1>6, <1>7, <1>8, <1>9
<1>13. WellFormed(q)
  BY <1>1, <1>9, <1>11, <1>12, TreeStays
<1>14. Tidy(q)
  <2>1. \A e \in DOMAIN Here.tokens : q.tokens[e].type = Here.tokens[e].type
    BY <1>4, <1>6, <1>9
  <2> QED BY <1>1, <1>9, <1>11, <2>1, TextTidy DEF Sound
<1> QED BY <1>10, <1>13, <1>14 DEF Sound

-----------------------------------------------------------------------------
(***************************************************************************)
(* What an edit of node n leaves alone.                                    *)
(***************************************************************************)
Untouched(m) ==
  LET s == Span(m)
  IN  /\ node'[m] = node[m]
      /\ InOnePiece(s, list')
      /\ \A e \in ToSet(s) : token'[e] = token[e]

LeavesOthers(n) ==
  \A m \in Attached : n \notin Subtree(m) /\ Span(m)[1] \in ToSet(list') => Untouched(m)

\* The comments stay, but for those that go, and stay in their order.
Spared(gone) ==
  \A c, d \in CommentsIn(list) \ gone : In(c)' /\ (At(c) < At(d) => At(c)' < At(d)')

\* The nodes of the tree are the nodes in use.
LEMMA AttachedIs ==
  ASSUME Steady
  PROVE  \A n : n \in Attached <=> n \in Node /\ Live(Here, n)
<1>1. WellFormed(Here) /\ root = 1 /\ Node = DOMAIN Here.nodes /\ 1 \in Node /\ Live(Here, 1)
  BY HereIs DEF Steady, Sound, WellFormed, Kept, Node
<1>2. IsWalk(1, Walk(1))
  BY <1>1, WalkOf
<1> DEFINE w == Walk(1)
<1>3. Attached = ToSet(w)
  BY <1>1, Zenon DEF Attached, Subtree
<1> HIDE DEF w
<1>4. w \in Seq(Node) /\ DOMAIN w = 1 .. Len(w) /\ \A m : Holds(w, m) <=> Below(1, m)
  BY <1>2 DEF IsWalk, w
<1>5. \A n : n \in ToSet(w) <=> Holds(w, n)
  BY <1>4 DEF ToSet, Holds
<1>6. ASSUME NEW n \in Node, Live(Here, n) PROVE Below(1, n)
  <2>1. From(Here, n) \in Nat /\ To(Here, n) \in Nat /\ From(Here, 1) \in Nat /\ To(Here, 1) \in Nat
    BY <1>1, <1>6, LiveNode
  <2>2. n # 1 => From(Here, 1) < From(Here, n) /\ To(Here, n) < To(Here, 1)
    BY <1>1, <1>6, RootHolds, InsideIs
  <2> QED BY <1>6, <2>1, <2>2 DEF Below
<1> QED BY <1>3, <1>4, <1>5, <1>6 DEF Below

LEMMA SubtreeIs ==
  ASSUME WellFormed(Here), NEW m \in Node, Live(Here, m)
  PROVE  \A n : n \in Subtree(m) <=> Below(m, n)
<1> DEFINE w == Walk(m)
<1>1. IsWalk(m, w)
  BY WalkOf
<1>2. Subtree(m) = ToSet(w)
  BY Zenon DEF Subtree
<1> HIDE DEF w
<1>3. w \in Seq(Node) /\ DOMAIN w = 1 .. Len(w) /\ \A n : Holds(w, n) <=> Below(m, n)
  BY <1>1 DEF IsWalk
<1>4. \A n : n \in ToSet(w) <=> Holds(w, n)
  BY <1>3 DEF ToSet, Holds
<1> QED BY <1>2, <1>3, <1>4

\* Part of a sequence that stands in another.
LEMMA PieceIs ==
  ASSUME NEW T, NEW s \in Seq(T), NEW l \in Seq(T), NEW p \in 1 .. Len(l), p + Len(s) - 1 <= Len(l),
         \A j \in 1 .. Len(s) : l[p + j - 1] = s[j]
  PROVE  InOnePiece(s, l)
<1> DEFINE r == SubSeq(l, p, p + Len(s) - 1)
<1>1. Len(s) \in Nat /\ Len(l) \in Nat /\ p \in Nat
  OBVIOUS
<1>2. r \in Seq(T) /\ Len(r) = Len(s) /\ \A j \in 1 .. Len(s) : r[j] = l[p + j - 1]
  BY <1>1
<1>3. r = s
  <2> HIDE DEF r
  <2> QED BY <1>2
<1>4. p \in 1 .. Len(l) - Len(s) + 1
  BY <1>1
<1> QED BY <1>3, <1>4 DEF InOnePiece

\* The node m keeps clear of what is between a and b.
Clear(m, a, b) == To(Here, m) <= a \/ b <= From(Here, m)

LEMMA PieceStays ==
  ASSUME WellFormed(Here), NEW m \in Node, Live(Here, m),
         NEW a \in 0 .. Len(list), NEW b \in a + 1 .. Len(list) + 1, NEW t \in Nat, NEW k \in Nat,
         NEW r, r = Splice(list, a, b, t, k), Clear(m, a, b)
  PROVE  InOnePiece(Span(m), r)
<1> DEFINE s == Span(m)
           L == Len(list)
           x == From(Here, m)
           y == To(Here, m)
<1>1. Listed(Here) /\ m \in DOMAIN Here.nodes /\ Here.list = list
  BY HereIs DEF WellFormed, Node
<1>2. list \in Seq(Nat) /\ L \in Nat
  BY <1>1 DEF Listed
<1>3. x \in 1 .. L /\ y \in 1 .. L /\ x <= y
  BY <1>1, LiveNode
<1>4. SpanOf(m, s)
  BY SpanIs
<1> HIDE DEF s
<1>5. Len(s) = y - x + 1 /\ \A j \in 1 .. Len(s) : x + j - 1 \in 1 .. L /\ s[j] = list[x + j - 1]
  BY <1>4 DEF SpanOf
<1>6. s \in Seq(Nat)
  <2>1. s \in Seq(DOMAIN token) /\ DOMAIN token \subseteq Nat
    BY <1>1, <1>4, ListIs DEF SpanOf, Refs
  <2> QED BY <2>1
<1>7. /\ r \in Seq(Nat) /\ Len(r) = a + k + (L - b + 1)
      /\ \A i \in 1 .. a : r[i] = list[i]
      /\ \A i \in b .. L : r[i + k - (b - a - 1)] = list[i]
  <2>1. Pasted(r, list, a, b, t, k)
    BY <1>2, SpliceIs
  <2> QED BY <2>1 DEF Pasted
<1>8. y <= a \/ b <= x
  BY DEF Clear
<1>11. /\ a \in 0 .. L /\ b \in a + 1 .. L + 1 /\ L \in Nat /\ x \in Nat /\ y \in Nat /\ x >= 1 /\ y <= L
       /\ Len(r) \in Nat /\ Len(s) \in Nat
  BY <1>2, <1>3, <1>6, <1>7
<1> HIDE DEF x, y, L
<1> DEFINE R == Len(r)
           S == Len(s)
<1>12. /\ R = a + k + (L - b + 1) /\ S = y - x + 1 /\ R \in Nat /\ S \in Nat /\ x <= y
  BY <1>3, <1>5, <1>7, <1>11
<1> HIDE DEF R, S
<1>9. CASE y <= a
  <2>1. \A j \in 1 .. Len(s) : x + j - 1 \in 1 .. a
    BY <1>2, <1>3, <1>5, <1>9, SMTT(30)
  <2>2. \A j \in 1 .. Len(s) : r[x + j - 1] = s[j]
    BY <1>5, <1>7, <2>1
  <2>3. x \in 1 .. Len(r) /\ x + Len(s) - 1 <= Len(r)
    <3>1. x \in 1 .. R /\ x + S - 1 <= R
      BY ONLY <1>9, <1>11, <1>12, k \in Nat
    <3> QED BY <3>1 DEF R, S
  <2>4. s \in Seq(Nat) /\ r \in Seq(Nat)
    BY <1>6, <1>7
  <2>5. InOnePiece(s, r)
    BY ONLY <2>2, <2>3, <2>4, PieceIs
  <2> QED BY <2>5 DEF s
<1>10. CASE b <= x
  <2> DEFINE p == x + k - (b - a - 1)
  <2>1. /\ p \in 1 .. Len(r) /\ p + Len(s) - 1 <= Len(r) /\ p \in Nat
        /\ \A j \in 1 .. Len(s) : x + j - 1 \in b .. L /\ p + j - 1 = (x + j - 1) + k - (b - a - 1)
    <3>1. /\ p \in 1 .. R /\ p + S - 1 <= R /\ p \in Nat
          /\ \A j \in 1 .. S : x + j - 1 \in b .. L /\ p + j - 1 = (x + j - 1) + k - (b - a - 1)
      BY ONLY <1>10, <1>11, <1>12, k \in Nat
    <3> QED BY <3>1 DEF R, S
  <2> HIDE DEF p
  <2>2. \A j \in 1 .. Len(s) : r[p + j - 1] = s[j]
    BY <1>5, <1>7, <2>1
  <2>3. s \in Seq(Nat) /\ r \in Seq(Nat)
    BY <1>6, <1>7
  <2>4. InOnePiece(s, r)
    BY ONLY <2>1, <2>2, <2>3, PieceIs
  <2> QED BY <2>4 DEF s
<1> QED BY <1>8, <1>9, <1>10

\* What is outside a and b moves, and keeps its order.
After == [tokens |-> token', nodes |-> node', list |-> list']

LEMMA EditMoves ==
  ASSUME Steady, NEW a \in 0 .. Len(list), NEW b \in a + 1 .. Len(list) + 1, NEW ts \in Toks,
         Sound', token' = token \o ts, list' = Splice(list, a, b, Len(token), Len(ts))
  PROVE  /\ Moves(Here, After, a, b, Len(ts))
         /\ \A e \in DOMAIN token : token'[e] = token[e]
<1>1. WellFormed(Here) /\ Listed(Here) /\ Here.tokens = token /\ Here.nodes = node /\ Here.list = list
  BY HereIs DEF Steady, Sound, WellFormed
<1>2. token \in Toks /\ Len(token) \in Nat /\ DOMAIN token = 1 .. Len(token) /\ Len(ts) \in Nat
  <2> HIDE DEF Tok
  <2> QED BY <1>1, ListIs DEF Toks
<1>3. After.tokens = token' /\ After.nodes = node' /\ After.list = list'
  BY DEF After
<1>4. WellFormed(After)
  BY DEF Sound, Here, After
<1>5. Joins(Tok, token \o ts, token, ts)
  <2> HIDE DEF Tok
  <2> QED BY <1>2, ConcatOf DEF Toks
<1>6. Len(token') = Len(token) + Len(ts) /\ \A e \in DOMAIN token : token'[e] = token[e]
  BY <1>2, <1>5 DEF Joins
<1>7. After.tokens \in Toks /\ After.nodes \in Seq(NodeRecord)
  BY <1>4 DEF WellFormed, Listed
<1>8. Moves(Here, After, a, b, Len(ts))
  BY <1>1, <1>2, <1>3, <1>6, <1>7, ListMoves
<1> QED BY <1>6, <1>8

LEMMA EditSpares ==
  ASSUME Steady, NEW a \in 0 .. Len(list), NEW b \in a + 1 .. Len(list) + 1, NEW ts \in Toks,
         Sound', token' = token \o ts, list' = Splice(list, a, b, Len(token), Len(ts)),
         NEW gone, \A p \in DOMAIN list : a < p /\ p < b /\ token[list[p]].type = "comment" => list[p] \in gone
  PROVE  Spared(gone)
<1>1. Listed(Here) /\ Here.list = list /\ Here.tokens = token /\ Len(list) \in Nat /\ Len(ts) \in Nat
  <2>1. Listed(Here)
    BY DEF Steady, Sound, WellFormed
  <2>2. Len(ts) \in Nat
    <3> HIDE DEF Tok
    <3> QED BY DEF Toks
  <2> QED BY <2>1, <2>2, HereIs, ListIs
<1>2. Moves(Here, After, a, b, Len(ts))
  BY EditMoves
<1>3. \A e : (In(e)' <=> Held(After, e)) /\ At(e)' = Pos(After, e)
  BY DEF In, At, Held, Pos, After
<1>4. ASSUME NEW c \in CommentsIn(list) \ gone
      PROVE  /\ c \in DOMAIN token /\ At(c) \in Nat /\ (At(c) <= a \/ b <= At(c))
             /\ In(c)' /\ At(c)' = Moved(At(c), a, b, Len(ts))
  <2>1. c \in ToSet(list) /\ token[c].type = "comment" /\ c \notin gone
    BY DEF CommentsIn
  <2>2. PICK p \in DOMAIN list : list[p] = c
    BY <2>1 DEF ToSet
  <2>3. Held(Here, c) /\ Pos(Here, c) = p /\ p \in 1 .. Len(list) /\ c \in DOMAIN token /\ At(c) = p
    BY <1>1, <2>2, PosOf, PosIs, HereIs
  <2>4. p <= a \/ b <= p
    <3>1. ~(a < p /\ p < b)
      BY <2>1, <2>2
    <3>2. a \in Int /\ b \in Int /\ p \in Int
      BY <1>1, <2>3
    <3> QED BY ONLY <3>1, <3>2
  <2>5. Held(After, c) /\ Pos(After, c) = Moved(p, a, b, Len(ts))
    BY <1>1, <1>2, <2>3, <2>4 DEF Moves
  <2> QED BY <1>3, <2>3, <2>4, <2>5
<1>5. ASSUME NEW x \in Nat, NEW y \in Nat, x <= a \/ b <= x, y <= a \/ b <= y, x < y
      PROVE  Moved(x, a, b, Len(ts)) < Moved(y, a, b, Len(ts))
  BY <1>1, <1>5 DEF Moved
<1> QED BY <1>4, <1>5 DEF Spared

LEMMA EditLeaves ==
  ASSUME Steady, NEW n \in Node,
         NEW a \in 0 .. Len(list), NEW b \in a + 1 .. Len(list) + 1, NEW ts \in Toks,
         Sound', token' = token \o ts, list' = Splice(list, a, b, Len(token), Len(ts)),
         \A m \in Node : m # n => node'[m] = node[m],
         \A m \in Node : Live(Here, m) /\ ~Below(m, n) /\ Beside(From(Here, m), a, b) => Clear(m, a, b)
  PROVE  LeavesOthers(n)
<1>1. WellFormed(Here) /\ Listed(Here) /\ Here.tokens = token /\ Here.nodes = node /\ Here.list = list
  BY HereIs DEF Steady, Sound, WellFormed
<1>2. /\ Len(token) \in Nat /\ DOMAIN token = 1 .. Len(token) /\ Len(ts) \in Nat
      /\ Len(list) \in Nat /\ DOMAIN list = 1 .. Len(list)
  <2> HIDE DEF Tok
  <2> QED BY <1>1, ListIs DEF Toks
<1>7. \A e \in DOMAIN token : token'[e] = token[e]
  BY EditMoves
<1>8. Moves(Here, After, a, b, Len(ts))
  BY EditMoves
<1> SUFFICES ASSUME NEW m \in Attached, n \notin Subtree(m), Span(m)[1] \in ToSet(list')
             PROVE  Untouched(m)
  BY DEF LeavesOthers
<1>9. m \in Node /\ Live(Here, m) /\ m \in DOMAIN Here.nodes
  BY <1>1, AttachedIs DEF Node
<1>21. /\ From(Here, m) \in Nat /\ To(Here, m) \in Nat /\ From(Here, m) <= To(Here, m)
       /\ Held(Here, Begins(Here, m)) /\ From(Here, m) \in 1 .. Len(list)
  BY <1>1, <1>9, LiveNode
<1>10. ~Below(m, n)
  BY <1>1, <1>9, SubtreeIs
<1>11. Below(m, m)
  BY <1>9, <1>21 DEF Below
<1>12. SpanOf(m, Span(m))
  BY <1>1, <1>9, SpanIs
<1>13. node'[m] = node[m]
  BY <1>9, <1>10, <1>11
<1> DEFINE e == Begins(Here, m)
<1>14. Held(Here, e) /\ Pos(Here, e) = From(Here, m) /\ From(Here, m) \in 1 .. Len(list) /\ list[From(Here, m)] = e
       /\ e \in DOMAIN token
  BY <1>1, <1>21, PosIs DEF From
<1> HIDE DEF e
<1>15. Span(m)[1] = e
  <2>1. Len(Span(m)) >= 1 /\ Len(Span(m)) \in Nat
    BY <1>12, <1>21 DEF SpanOf
  <2>2. From(Here, m) + 1 - 1 = From(Here, m) /\ 1 \in 1 .. Len(Span(m))
    BY <1>14, <2>1
  <2> QED BY <1>12, <1>14, <2>2 DEF SpanOf
<1>16. Held(After, e)
  BY <1>15 DEF ToSet, Held, After
<1>17. Beside(From(Here, m), a, b)
  BY <1>1, <1>8, <1>14, <1>16 DEF Moves, Beside
<1>18. Clear(m, a, b)
  BY <1>9, <1>10, <1>17
<1>19. InOnePiece(Span(m), list')
  BY <1>1, <1>2, <1>9, <1>18, PieceStays
<1>20. \A x \in ToSet(Span(m)) : token'[x] = token[x]
  <2>1. Span(m) \in Seq(DOMAIN token)
    BY <1>12 DEF SpanOf, Refs
  <2>2. \A x \in ToSet(Span(m)) : x \in DOMAIN token
    BY <2>1 DEF ToSet
  <2> QED BY <1>7, <2>2
<1> QED BY <1>13, <1>19, <1>20, Zenon DEF Untouched

LEMMA ReplaceLeaves ==
  ASSUME Steady, NEW n \in Node, Kind(Here, n) \notin WrapperType, NEW f, Offer(f),
         ReplaceResult(n, f) = "ok", ReplaceBody(n, f)
  PROVE  LeavesOthers(n) /\ Spared(ToSet(Span(n)))
<1> DEFINE a == From(Here, n) - 1
           b == To(Here, n) + 1
           ns == Shift(f.nodes, Len(token), Len(node) - 1)
<1>1. Sound /\ Sound'
  BY ReplaceKeeps DEF Steady
<1>2. /\ WellFormed(Here) /\ Listed(Here) /\ n \in DOMAIN Here.nodes /\ Here.nodes = node /\ Here.list = list
      /\ Here.tokens = token /\ node[n].start = Begins(Here, n) /\ node[n].end = Ends(Here, n)
  BY <1>1, HereIs, NodeIs DEF Sound, WellFormed
<1>3. f.ok /\ InOrder(node[n].start, node[n].end)
  BY DEF ReplaceResult
<1>4. Fragment(f) /\ f.nodes # <<>> /\ f.tokens \in Toks /\ f.nodes \in Seq(NodeRecord)
  BY <1>3 DEF Offer, ValueOf, Fragment
<1>5. Live(Here, n)
  BY <1>2, <1>3, HereIs DEF InOrder, Live
<1>6. /\ From(Here, n) \in 1 .. Len(list) /\ To(Here, n) \in 1 .. Len(list) /\ Len(list) \in Nat
      /\ From(Here, n) <= To(Here, n)
  BY <1>2, <1>5, LiveNode
<1>7. a \in 0 .. Len(list) /\ b \in a + 1 .. Len(list) + 1
  BY <1>6
<1>8. /\ token' = token \o f.tokens /\ node' = [node EXCEPT ![n] = ns[1]] \o Tail(ns)
      /\ list' = Spliced(node[n].start, node[n].end, Len(f.tokens))
  BY Zenon DEF ReplaceBody, Edit
<1>9. list' = Splice(list, a, b, Len(token), Len(f.tokens))
  BY <1>2, <1>8, SplicedIs DEF From, To
<1>10. \A m \in Node : m # n => node'[m] = node[m]
  <2>1. node \in Seq(NodeRecord) /\ Len(token) \in Nat /\ Len(node) \in Nat /\ Len(node) >= 1
    <3>1. node \in Seq(NodeRecord) /\ Len(token) \in Nat /\ Len(node) \in Nat /\ DOMAIN node = 1 .. Len(node)
      BY <1>2, DocumentIs DEF Listed
    <3> QED BY <1>2, <3>1
  <2>2. Len(node) - 1 \in Nat
    BY <2>1
  <2>3. Shifts(ns, f.nodes, Len(token), Len(node) - 1)
    BY <1>4, <2>1, <2>2, ShiftIs
  <2> HIDE DEF ns
  <2>4. ns \in Seq(NodeRecord) /\ ns # <<>>
    <3> HIDE DEF NodeRecord
    <3> QED BY <1>4, <2>3 DEF Shifts
  <2> DEFINE r == [node EXCEPT ![n] = ns[1]] \o Tail(ns)
  <2>5. n \in DOMAIN node
    BY <1>2
  <2>6. \A y \in DOMAIN node : y # n => r[y] = node[y]
    BY ONLY <2>1, <2>4, <2>5, ReplacedNodes
  <2> QED BY <1>8, <2>6, Zenon DEF Node
<1>11. ASSUME NEW m \in Node, Live(Here, m), ~Below(m, n), Beside(From(Here, m), a, b) PROVE Clear(m, a, b)
  <2>1. m \in DOMAIN Here.nodes
    BY <1>2 DEF Node
  <2>2. From(Here, m) \in Nat /\ To(Here, m) \in Nat /\ From(Here, m) <= To(Here, m)
    BY <1>2, <1>11, <2>1, LiveNode
  <2>3. From(Here, n) \in Nat /\ To(Here, n) \in Nat
    BY <1>6
  <2>4. ~(From(Here, m) <= From(Here, n) /\ To(Here, n) <= To(Here, m))
    BY <1>5, <1>11 DEF Below
  <2>5. m # n
    BY <2>3, <2>4
  <2>6. To(Here, m) \in From(Here, n) .. To(Here, n) => Inside(Here, m, n) \/ Inside(Here, n, m)
    BY <1>2, <1>5, <1>11, <2>1, <2>5, OwnEnds
  <2>7. /\ Inside(Here, m, n) => From(Here, n) < From(Here, m) /\ To(Here, m) < To(Here, n)
        /\ Inside(Here, n, m) => From(Here, m) < From(Here, n) /\ To(Here, n) < To(Here, m)
    BY <1>2, <1>5, <1>11, <2>1, InsideIs
  <2>8. From(Here, m) <= From(Here, n) - 1 \/ To(Here, n) + 1 <= From(Here, m)
    BY <1>11 DEF Beside
  <2>9. To(Here, m) <= From(Here, n) - 1 \/ To(Here, n) + 1 <= From(Here, m)
    BY <2>2, <2>3, <2>4, <2>6, <2>7, <2>8
  <2> QED BY <2>9 DEF Clear
<1>12. \A p \in DOMAIN list : a < p /\ p < b => list[p] \in ToSet(Span(n))
  <2> SUFFICES ASSUME NEW p \in DOMAIN list, a < p, p < b PROVE list[p] \in ToSet(Span(n))
    OBVIOUS
  <2>1. p \in Nat
    BY <1>2, ListIs
  <2>2. p \in From(Here, n) .. To(Here, n)
    BY <1>6, <2>1
  <2> QED BY <1>2, <1>5, <2>2, InSpan
<1> HIDE DEF a, b
<1>13. LeavesOthers(n)
  BY <1>1, <1>4, <1>7, <1>8, <1>9, <1>10, <1>11, EditLeaves
<1>14. Spared(ToSet(Span(n)))
  BY <1>1, <1>4, <1>7, <1>8, <1>9, <1>12, EditSpares
<1> QED BY <1>13, <1>14

\* What is cut out of n, or the place where something goes into n, is in no other node that
\* stays, unless that node holds n.
LEMMA EditClear ==
  ASSUME WellFormed(Here), NEW n \in Node, Live(Here, n), NEW a \in Nat, NEW b \in Nat,
         From(Here, n) <= a, a < b, b <= To(Here, n),
         \A j \in DOMAIN Kids(Here, n) :
           LET c == Kids(Here, n)[j]
           IN  Clear(c, a, b) \/ (a < From(Here, c) /\ To(Here, c) < b),
         NEW m \in Node, Live(Here, m), ~Below(m, n), Beside(From(Here, m), a, b)
  PROVE  Clear(m, a, b)
<1>1. n \in DOMAIN Here.nodes /\ m \in DOMAIN Here.nodes
  BY HereIs DEF Node
<1>2. /\ From(Here, n) \in Nat /\ To(Here, n) \in Nat
      /\ From(Here, m) \in Nat /\ To(Here, m) \in Nat /\ From(Here, m) <= To(Here, m)
  BY <1>1, LiveNode
<1>3. ~(From(Here, m) <= From(Here, n) /\ To(Here, n) <= To(Here, m))
  BY DEF Below
<1>4. m # n
  BY <1>2, <1>3
<1>5. Related(Here, m, n)
  BY <1>1, <1>4, Laminar
<1>6. From(Here, m) <= a \/ b <= From(Here, m)
  BY DEF Beside
<1>7. To(Here, m) <= a \/ b <= From(Here, m)
  <2>1. CASE Apart(Here, m, n)
    BY <1>2, <2>1 DEF Apart
  <2>2. CASE Inside(Here, n, m)
    <3>1. From(Here, m) < From(Here, n) /\ To(Here, n) < To(Here, m)
      BY <1>1, <2>2, InsideIs
    <3> QED BY <1>2, <1>3, <3>1
  <2>3. CASE Inside(Here, m, n)
    <3>1. PICK j \in DOMAIN Kids(Here, n) :
                 \/ Kids(Here, n)[j] = m
                 \/ From(Here, Kids(Here, n)[j]) < From(Here, m) /\ To(Here, m) < To(Here, Kids(Here, n)[j])
      BY <2>3 DEF Inside
    <3> DEFINE c == Kids(Here, n)[j]
    <3>2. Within(Here, n, c)
      BY <1>1, LiveNode
    <3>3. /\ Clear(c, a, b) \/ (a < From(Here, c) /\ To(Here, c) < b)
          /\ c = m \/ (From(Here, c) < From(Here, m) /\ To(Here, m) < To(Here, c))
      BY <3>1
    <3> HIDE DEF c
    <3>4. From(Here, c) \in Nat /\ To(Here, c) \in Nat
      BY <3>2, LiveNode DEF Within
    <3>5. From(Here, c) <= From(Here, m) /\ To(Here, m) <= To(Here, c)
      BY <1>2, <3>3, <3>4
    <3> QED BY <1>2, <1>6, <3>3, <3>4, <3>5 DEF Clear
  <2> QED BY <1>5, <2>1, <2>2, <2>3 DEF Related
<1> QED BY <1>7 DEF Clear

\* That place, and the children of n on its two sides.
LEMMA GapIs ==
  ASSUME WellFormed(Here), NEW n \in Node, Live(Here, n), Kind(Here, n) \in ContainerType,
         NEW i \in 1 .. Size(n) + 1, NEW a, Behind(Here, n, i, a)
  PROVE  /\ a \in Nat /\ From(Here, n) <= a /\ a < To(Here, n) /\ To(Here, n) <= Len(list) /\ Len(list) \in Nat
         /\ \A j \in DOMAIN Kids(Here, n) : Clear(Kids(Here, n)[j], a, a + 1)
<1>1. /\ Listed(Here) /\ n \in DOMAIN Here.nodes /\ Here.list = list
      /\ DOMAIN Kids(Here, n) = 1 .. Size(n) /\ Size(n) \in Nat
  BY NodeIs, HereIs DEF WellFormed
<1>2. /\ From(Here, n) \in Nat /\ To(Here, n) \in Nat /\ From(Here, n) < To(Here, n)
      /\ To(Here, n) <= Len(list) /\ Len(list) \in Nat
  BY <1>1, LiveNode
<1> DEFINE F(j) == From(Here, Kids(Here, n)[j])
           T(j) == To(Here, Kids(Here, n)[j])
<1>3. ASSUME NEW j \in 1 .. Size(n)
      PROVE  /\ F(j) \in Nat /\ T(j) \in Nat /\ F(j) <= T(j)
             /\ From(Here, n) < F(j) /\ T(j) < To(Here, n)
  <2> DEFINE c == Kids(Here, n)[j]
  <2>1. Within(Here, n, c)
    BY <1>1, LiveNode
  <2> HIDE DEF c
  <2>2. From(Here, n) < From(Here, c) /\ To(Here, c) < To(Here, n)
        /\ From(Here, c) \in Nat /\ To(Here, c) \in Nat /\ From(Here, c) <= To(Here, c)
    BY <2>1, LiveNode DEF Within
  <2> QED BY <2>2 DEF c
<1>4. \A j, h \in 1 .. Size(n) : j < h => T(j) < F(h)
  BY <1>1, KidsInOrder
<1>5. /\ i = 1 => a = From(Here, n)
      /\ i # 1 => i - 1 \in 1 .. Size(n) /\ a = T(i - 1)
  BY <1>1 DEF Behind
<1> SUFFICES /\ a \in Nat /\ From(Here, n) <= a /\ a < To(Here, n)
             /\ \A j \in 1 .. Size(n) : T(j) <= a \/ a + 1 <= F(j)
  BY <1>1, <1>2 DEF Clear
<1> HIDE DEF F, T
<1>6. a \in Nat /\ From(Here, n) <= a /\ a < To(Here, n)
  BY <1>2, <1>3, <1>5
<1>7. ASSUME NEW j \in 1 .. Size(n) PROVE T(j) <= a \/ a + 1 <= F(j)
  <2>1. CASE i = 1
    BY <1>2, <1>3, <1>5, <2>1
  <2>2. CASE i # 1
    <3> DEFINE h == i - 1
    <3>1. h \in 1 .. Size(n) /\ a = T(h)
      BY <1>5, <2>2
    <3> HIDE DEF h
    <3>2. j = h => T(j) <= a
      BY <1>3, <3>1
    <3>3. j < h => T(j) <= a
      <4>1. F(h) \in Nat /\ T(h) \in Nat /\ T(j) \in Nat /\ F(h) <= T(h)
        BY <1>3, <3>1
      <4> QED BY <1>4, <3>1, <4>1
    <3>4. h < j => a + 1 <= F(j)
      <4>1. F(j) \in Nat /\ T(h) \in Nat
        BY <1>3, <3>1
      <4> QED BY <1>4, <3>1, <4>1
    <3> QED BY <3>1, <3>2, <3>3, <3>4
  <2> QED BY <2>1, <2>2
<1> QED BY <1>6, <1>7

LEMMA InsertLeaves ==
  ASSUME Steady, NEW n \in Node, Kind(Here, n) \in ContainerType, NEW i \in 1 .. Size(n) + 1,
         NEW f, PartOf(f, IF Kind(Here, n) = "object" THEN "field" ELSE "element"),
         GoesIn(n, i, f),
         In(InsertMark(n, i)), InsertBody(n, i, InsertMark(n, i), f)
  PROVE  LeavesOthers(n) /\ Spared({})
<1> DEFINE e == InsertMark(n, i)
           a == Pos(Here, e)
           kk == InsertAt(Kids(Here, n), i, Len(node) + 1)
           ns == Shift(f.nodes, Len(token), Len(node))
<1>1. Sound /\ Sound'
  BY InsertKeeps DEF Steady
<1>2. /\ WellFormed(Here) /\ Listed(Here) /\ n \in DOMAIN Here.nodes /\ Here.nodes = node /\ Here.list = list
      /\ Here.tokens = token /\ node[n].children = Kids(Here, n) /\ Size(n) = Len(Kids(Here, n))
  BY <1>1, HereIs, NodeIs DEF Sound, WellFormed
<1>3. f.tokens \in Toks /\ f.nodes \in Seq(NodeRecord)
  BY DEF PartOf, Fragment
<1>4. Live(Here, n) /\ Behind(Here, n, i, a)
  BY <1>2, MarkIs
<1>5. /\ token' = token \o f.tokens /\ node' = [node EXCEPT ![n].children = InsertAt(@, i, Len(node) + 1)] \o ns
      /\ list' = SubSeq(list, 1, At(e)) \o [k \in DOMAIN f.tokens |-> Len(token) + k] \o SubSeq(list, At(e) + 1, Len(list))
  BY Zenon DEF InsertBody, Edit
<1>6. list' = Splice(list, a, a + 1, Len(token), Len(f.tokens))
  <2>1. DOMAIN f.tokens = 1 .. Len(f.tokens)
    <3> HIDE DEF Tok
    <3> QED BY <1>3 DEF Toks
  <2>2. At(e) = a
    BY HereIs
  <2> QED BY <1>5, <2>1, <2>2, Zenon DEF Splice
<1> HIDE DEF a, e
<1>7. /\ a \in Nat /\ From(Here, n) <= a /\ a < To(Here, n) /\ To(Here, n) <= Len(list) /\ Len(list) \in Nat
      /\ \A j \in DOMAIN Kids(Here, n) : Clear(Kids(Here, n)[j], a, a + 1)
  BY <1>2, <1>4, GapIs
<1>8. To(Here, n) \in Nat
  BY <1>2, <1>4, LiveNode
<1>9. a \in 0 .. Len(list) /\ a + 1 \in a + 1 .. Len(list) + 1 /\ a + 1 \in Nat /\ a < a + 1 /\ a + 1 <= To(Here, n)
  BY <1>7, <1>8
<1>10. \A m \in Node : m # n => node'[m] = node[m]
  <2>1. node \in Seq(NodeRecord) /\ Len(token) \in Nat /\ Len(node) \in Nat /\ Kids(Here, n) \in Seq(Nat)
    BY <1>2, DocumentIs DEF Listed
  <2>2. kk \in Seq(Nat)
    <3>1. Len(node) + 1 \in Nat /\ i \in 1 .. Len(Kids(Here, n)) + 1
      BY <1>2, <2>1
    <3> QED BY <2>1, <3>1, InsertAtIs DEF Opened
  <2>3. ns \in Seq(NodeRecord)
    <3>1. Shifts(ns, f.nodes, Len(token), Len(node))
      BY <1>3, <2>1, ShiftIs
    <3> QED BY <3>1 DEF Shifts
  <2>4. node' = [node EXCEPT ![n].children = kk] \o ns
    BY <1>2, <1>5
  <2> HIDE DEF kk, ns
  <2> DEFINE r == [node EXCEPT ![n].children = kk] \o ns
  <2>5. n \in DOMAIN node
    BY <1>2
  <2>6. NodesGrown(r, node, n, kk, ns)
    BY <2>1, <2>2, <2>3, <2>5, GrownNodes
  <2> HIDE DEF r
  <2>7. \A y \in DOMAIN node : y # n => r[y] = node[y]
    BY <2>6, Zenon DEF NodesGrown
  <2> QED BY <2>4, <2>7, Zenon DEF Node, r
<1>11. ASSUME NEW m \in Node, Live(Here, m), ~Below(m, n), Beside(From(Here, m), a, a + 1) PROVE Clear(m, a, a + 1)
  <2> DEFINE b == a + 1
  <2>1. b \in Nat /\ a < b /\ b <= To(Here, n) /\ Beside(From(Here, m), a, b)
        /\ \A j \in DOMAIN Kids(Here, n) : Clear(Kids(Here, n)[j], a, b)
    BY <1>7, <1>9, <1>11
  <2> HIDE DEF b
  <2>2. Clear(m, a, b)
    BY <1>2, <1>4, <1>7, <1>11, <2>1, EditClear
  <2> QED BY <2>2 DEF b
<1> DEFINE b == a + 1
<1>12. b \in a + 1 .. Len(list) + 1 /\ list' = Splice(list, a, b, Len(token), Len(f.tokens))
       /\ \A m \in Node : Live(Here, m) /\ ~Below(m, n) /\ Beside(From(Here, m), a, b) => Clear(m, a, b)
  BY <1>6, <1>9, <1>11
<1>13. \A p \in DOMAIN list : ~(a < p /\ p < b)
  <2>1. DOMAIN list \subseteq Nat
    BY <1>2, ListIs
  <2> QED BY <1>7, <2>1
<1> HIDE DEF b
<1>14. LeavesOthers(n)
  BY <1>1, <1>3, <1>5, <1>9, <1>10, <1>12, EditLeaves
<1>15. Spared({})
  BY <1>1, <1>3, <1>5, <1>9, <1>12, <1>13, EditSpares
<1> QED BY <1>14, <1>15

LEMMA RemoveLeaves ==
  ASSUME Steady, NEW n \in Node, Kind(Here, n) \in ContainerType, NEW i \in 1 .. Size(n),
         RemoveResult(n, i) = "ok", RemoveBody(n, i)
  PROVE  LeavesOthers(n) /\ Spared(ToSet(Span(Child(n, i))) \union ToSet(GapOf(n, i)))
<1> DEFINE r == RemoveRange(n, i)
           a == At(r[1]) - 1
           b == At(r[2]) + 1
           kk == RemoveAt(Kids(Here, n), i)
<1>1. Sound /\ Sound'
  BY RemoveKeeps DEF Steady
<1>2. /\ WellFormed(Here) /\ Listed(Here) /\ n \in DOMAIN Here.nodes /\ Here.nodes = node /\ Here.list = list
      /\ Here.tokens = token /\ node[n].children = Kids(Here, n) /\ Size(n) = Len(Kids(Here, n))
      /\ Size(n) \in Nat /\ DOMAIN Kids(Here, n) = 1 .. Size(n) /\ Child(n, i) = Kids(Here, n)[i]
  BY <1>1, HereIs, NodeIs DEF Sound, WellFormed
<1>3. Takes(n, i, r) /\ Taken(n, i, r)
  BY <1>2, RemoveTakes
<1>4. /\ Live(Here, n) /\ a \in 0 .. Len(list) /\ b \in a + 1 .. Len(list) + 1
      /\ a < From(Here, Kids(Here, n)[i]) /\ To(Here, Kids(Here, n)[i]) < b /\ Spares(Here, n, i, a, b)
  BY <1>2, <1>3, Zenon DEF Takes
<1> DEFINE gone == ToSet(Span(Child(n, i))) \union ToSet(GapOf(n, i))
<1>13. InOrder(r[1], r[2])
  BY DEF RemoveResult
<1> HIDE DEF r
<1>14. ASSUME NEW p \in DOMAIN list, a < p, p < b, token[list[p]].type = "comment"
       PROVE  list[p] \in gone
  <2>1. At(r[1]) \in Nat /\ At(r[2]) \in Nat /\ p \in Nat
    <3>1. Held(Here, r[1]) /\ Held(Here, r[2]) /\ At(r[1]) = Pos(Here, r[1]) /\ At(r[2]) = Pos(Here, r[2])
      BY <1>13, HereIs DEF InOrder
    <3> QED BY <1>2, <3>1, PosIs, ListIs
  <2>2. At(r[1]) <= p /\ p <= At(r[2])
    BY <1>14, <2>1
  <2>3. token[list[p]].type # "comma"
    BY <1>14
  <2> QED BY <1>3, <2>2, <2>3 DEF Taken
<1>5. /\ token' = token \o <<>> /\ node' = [node EXCEPT ![n].children = RemoveAt(@, i)]
      /\ list' = Spliced(r[1], r[2], 0)
  BY Zenon DEF RemoveBody, Edit, r
<1>6. list' = Splice(list, a, b, Len(token), Len(<<>>))
  <2>1. Len(<<>>) = 0
    OBVIOUS
  <2>2. list' = Splice(Here.list, a, b, Len(Here.tokens), 0)
    BY <1>5, SplicedIs, HereIs, Zenon
  <2> QED BY <1>2, <2>1, <2>2, Zenon
<1> HIDE DEF a, b
<1>7. \A m \in Node : m # n => node'[m] = node[m]
  BY <1>5 DEF Node
<1>8. a \in Nat /\ b \in Nat /\ a < b /\ Len(list) \in Nat
  <2>1. Len(list) \in Nat
    BY <1>2, <1>4, LiveNode
  <2> QED BY <1>4, <2>1
<1>9. From(Here, n) <= a /\ b <= To(Here, n)
  BY <1>4 DEF Spares
<1>10. ASSUME NEW j \in DOMAIN Kids(Here, n)
       PROVE  LET c == Kids(Here, n)[j]
              IN  Clear(c, a, b) \/ (a < From(Here, c) /\ To(Here, c) < b)
  <2>1. j < i \/ j = i \/ i < j
    BY <1>2
  <2>2. CASE j < i
    BY <1>4, <2>2 DEF Spares, Clear
  <2>3. CASE i < j
    BY <1>4, <2>3 DEF Spares, Clear
  <2>4. CASE j = i
    BY <1>4, <2>4
  <2> QED BY <2>1, <2>2, <2>3, <2>4
<1>11. \A m \in Node : Live(Here, m) /\ ~Below(m, n) /\ Beside(From(Here, m), a, b) => Clear(m, a, b)
  BY <1>2, <1>4, <1>8, <1>9, <1>10, EditClear
<1>12. <<>> \in Toks
  BY NothingIs DEF Fragment
<1>15. LeavesOthers(n)
  BY <1>1, <1>4, <1>5, <1>6, <1>7, <1>11, <1>12, EditLeaves
<1>16. Spared(gone)
  <2> HIDE DEF gone
  <2> QED BY <1>1, <1>4, <1>5, <1>6, <1>12, <1>14, EditSpares
<1> QED BY <1>15, <1>16

-----------------------------------------------------------------------------
(***************************************************************************)
(* What the methods are called on.                                         *)
(***************************************************************************)
LEMMA FirstIs ==
  ASSUME NEW l \in Nat, NEW found \in SUBSET (1 .. l), found # {}
  PROVE  First(found) \in found
<1>1. \E i \in found : \A k \in found : i <= k
  <2>1. PICK e : e \in found
    OBVIOUS
  <2>2. \A k \in found : k \in Nat
    OBVIOUS
  <2> QED BY <2>1, <2>2, LeastNat
<1> QED BY <1>1, Zenon DEF First

\* The children of fields and elements are values, and keys.
LEMMA WrapperKids ==
  ASSUME WellFormed(Here), NEW m \in Node, Kind(Here, m) \in WrapperType,
         NEW j \in 1 .. IF Kind(Here, m) = "field" THEN 2 ELSE 1
  PROVE  Child(m, j) \in Node /\ Kind(Here, Child(m, j)) \notin WrapperType
<1>1. FormedAt(Here, m) /\ LinkedAt(Here, m) /\ Here.nodes = node /\ Listed(Here)
  BY HereIs DEF WellFormed, Formed, Linked, Node
<1>2. DOMAIN Kids(Here, m) = 1 .. Size(m) /\ Size(m) = Len(Kids(Here, m)) /\ Child(m, j) = Kids(Here, m)[j]
  BY <1>1, NodeIs
<1>3. j \in DOMAIN Kids(Here, m)
  <2>1. CASE Kind(Here, m) = "field"
    <3>1. Size(m) = 2
      BY <1>1, <1>2, <2>1 DEF FormedAt, Full
    <3> QED BY <1>2, <2>1, <3>1
  <2>2. CASE Kind(Here, m) # "field"
    <3>1. Kind(Here, m) = "element"
      BY <2>2 DEF WrapperType
    <3>2. Size(m) = 1
      BY <1>1, <1>2, <3>1 DEF FormedAt, Full
    <3> QED BY <1>2, <2>2, <3>2
  <2> QED BY <2>1, <2>2
<1> QED BY <1>1, <1>2, <1>3 DEF FormedAt, LinkedAt, Node

LEMMA ContainerParts ==
  ASSUME WellFormed(Here), NEW n \in Node, NEW i \in 1 .. Size(n)
  PROVE  /\ Is(n, "object") => /\ Field(n, i) \in Node /\ Kind(Here, Field(n, i)) \notin WrapperType
                               /\ KeyNode(n, i) \in Node /\ Kind(Here, KeyNode(n, i)) \notin WrapperType
         /\ Is(n, "array") => Element(n, i) \in Node /\ Kind(Here, Element(n, i)) \notin WrapperType
<1> DEFINE c == Child(n, i)
<1>1. FormedAt(Here, n) /\ LinkedAt(Here, n) /\ Here.nodes = node /\ Listed(Here)
  BY HereIs DEF WellFormed, Formed, Linked, Node
<1>2. DOMAIN Kids(Here, n) = 1 .. Size(n) /\ c = Kids(Here, n)[i] /\ node[n].type = Kind(Here, n)
  BY <1>1, NodeIs
<1>3. c \in Node
  BY <1>1, <1>2 DEF LinkedAt, Node
<1>4. ASSUME Is(n, "object") PROVE Kind(Here, c) = "field"
  BY <1>1, <1>2, <1>4 DEF FormedAt, Is
<1>5. ASSUME Is(n, "array") PROVE Kind(Here, c) = "element"
  BY <1>1, <1>2, <1>5 DEF FormedAt, Is
<1> HIDE DEF c
<1>6. ASSUME Is(n, "object") PROVE \A j \in {1, 2} : Child(c, j) \in Node /\ Kind(Here, Child(c, j)) \notin WrapperType
  <2>1. Kind(Here, c) = "field" /\ Kind(Here, c) \in WrapperType
    BY <1>4, <1>6 DEF WrapperType
  <2>2. ASSUME NEW j \in {1, 2} PROVE j \in 1 .. IF Kind(Here, c) = "field" THEN 2 ELSE 1
    BY <2>1
  <2> QED BY <1>3, <2>1, <2>2, WrapperKids
<1>7. ASSUME Is(n, "array") PROVE Child(c, 1) \in Node /\ Kind(Here, Child(c, 1)) \notin WrapperType
  <2>1. Kind(Here, c) = "element" /\ Kind(Here, c) \in WrapperType
    BY <1>5, <1>7 DEF WrapperType
  <2>2. 1 \in 1 .. IF Kind(Here, c) = "field" THEN 2 ELSE 1
    BY <2>1
  <2> QED BY <1>3, <2>1, <2>2, WrapperKids
<1>8. Field(n, i) = Child(c, 2) /\ KeyNode(n, i) = Child(c, 1) /\ Element(n, i) = Child(c, 1)
  BY Zenon DEF Field, KeyNode, Element, c
<1> QED BY <1>6, <1>7, <1>8

LEMMA HandleIs ==
  ASSUME WellFormed(Here), "wrapper" \notin HandleKind, NEW n \in Handle
  PROVE  n \in Node /\ Kind(Here, n) \notin WrapperType
<1>1. Listed(Here)
  BY DEF WellFormed
<1>2. CASE n \in Value
  <2>1. n \in Node /\ node[n].type \notin {"field", "element"}
    BY <1>2 DEF Value, Wrappers
  <2> QED BY <1>1, <2>1, NodeIs DEF WrapperType
<1>3. CASE n \in Keys
  <2>1. PICK m \in Node : Is(m, "field") /\ n = Child(m, 1)
    BY <1>3 DEF Keys
  <2>2. Kind(Here, m) = "field"
    BY <1>1, <2>1, NodeIs DEF Is
  <2>3. 1 \in 1 .. IF Kind(Here, m) = "field" THEN 2 ELSE 1
    BY <2>2
  <2> QED BY <2>1, <2>2, <2>3, WrapperKids DEF WrapperType
<1> QED BY <1>2, <1>3 DEF Handle

LEMMA EncodedOffers ==
  ASSUME NEW x \in Txt
  PROVE  Offer(Encoded(x))
<1>1. SUFFICES ASSUME Encoded(x).ok PROVE ValueOf(Encoded(x)) /\ Neat(Encoded(x))
  BY DEF Offer
<1>2. ValueOf(Encoded(x)) /\ Tidy(Fresh(Encoded(x)))
  BY <1>1, EncodedIs, EncodedTidy
<1> QED BY <1>2, ValueNeat DEF ValueOf

LEMMA GivenIs ==
  ASSUME Sound, "wrapper" \notin HandleKind, NEW f \in Given
  PROVE  Offer(f)
<1>1. ASSUME NEW x \in Input, f = Encoded(x) PROVE Offer(f)
  <2>1. x \in Txt
    BY DocumentAssumption DEF Txt
  <2> QED BY <1>1, <2>1, EncodedOffers
<1>2. ASSUME NEW n \in Handle, f = Cloned(n) PROVE Offer(f)
  BY <1>2, HandleIs, ClonedKeeps DEF Offer, Sound
<1> QED BY <1>1, <1>2, Zenon DEF Given

LEMMA NameEncoded ==
  ASSUME NEW to \in Name
  PROVE  Offer(Encoded(<<QuoteOf[to]>>))
<1>1. QuoteOf[to] \in AnyLexeme
  BY DocumentAssumption DEF AnyLexeme
<1>2. <<QuoteOf[to]>> \in Txt
  BY <1>1 DEF Txt
<1> QED BY <1>2, EncodedOffers

-----------------------------------------------------------------------------
(***************************************************************************)
(* The methods, and the document.                                          *)
(***************************************************************************)
\* An accepted call leaves what is not about its target alone.
Leaves == call'.op # "comment" /\ call'.result = "ok" => LeavesOthers(call'.target)

\* It loses only the comments that it may.
Keeps == call'.result = "ok" => Spared(MayGo(call'))

LEMMA MayGoIs ==
  ASSUME NEW c
  PROVE  /\ c.op \in {"replace", "replace field", "replace value", "rename field"} =>
              MayGo(c) = ToSet(Span(c.target))
         /\ c.op = "remove value" =>
              MayGo(c) = ToSet(Span(Child(c.target, c.index))) \union ToSet(GapOf(c.target, c.index))
         /\ c.op = "remove field" =>
              LET i == First(FieldIndex(c.target, c.name))
              IN  MayGo(c) = ToSet(Span(Child(c.target, i))) \union ToSet(GapOf(c.target, i))
         /\ c.op \in {"insert field", "insert value", "comment"} => MayGo(c) = {}
<1> DEFINE replaces == c.op \in {"replace", "replace field", "replace value", "rename field"}
           removes == c.op \in {"remove field", "remove value"}
<1>1. replaces => ~removes
  OBVIOUS
<1>2. removes => ~replaces
  OBVIOUS
<1>3. c.op \in {"insert field", "insert value", "comment"} => ~replaces /\ ~removes
  OBVIOUS
<1>4. c.op = "remove value" => removes
  OBVIOUS
<1>5. c.op = "remove field" => removes /\ c.op # "remove value"
  OBVIOUS
<1> QED BY <1>1, <1>2, <1>3, <1>4, <1>5, Zenon DEF MayGo

LEMMA SameListSpares ==
  ASSUME list' = list, NEW gone
  PROVE  Spared(gone)
<1>1. \A c : (In(c)' <=> In(c)) /\ At(c)' = At(c)
  BY DEF In, At
<1>2. \A c \in CommentsIn(list) : In(c)
  BY DEF CommentsIn, ToSet, In
<1> QED BY <1>1, <1>2 DEF Spared

LEMMA CallIs ==
  ASSUME NEW op, NEW n, NEW name, NEW to, NEW index, NEW f, NEW result, NEW target,
         Call(op, n, name, to, index, f, result, target)
  PROVE  /\ call'.op = op /\ call'.result = result /\ call'.target = target
         /\ call'.name = name /\ call'.index = index
<1> DEFINE p == IF n \in Attached \cap Value THEN PathTo(n) ELSE NoPath
           g == IF f.ok THEN Reading(f) ELSE Invalid
<1>1. call' = [op |-> op, target |-> target, path |-> p, name |-> name, to |-> to, index |-> index,
               given |-> g, result |-> result]
  BY Zenon DEF Call
<1> HIDE DEF p, g
<1> QED BY <1>1

LEMMA UnchangedKeeps ==
  ASSUME Sound, Unchanged
  PROVE  Sound' /\ Counted
<1>1. token' = token /\ node' = node /\ list' = list /\ root' = root /\ edits' = edits
  BY DEF Unchanged
<1>2. Here' = Here
  BY <1>1 DEF Here
<1> QED BY <1>1, <1>2 DEF Sound, Counted

LEMMA MethodReplace ==
  ASSUME Steady, NEW n \in Node, Kind(Here, n) \notin WrapperType, NEW f, Offer(f), Replace(n, f)
  PROVE  Sound' /\ Counted /\ Leaves /\ Keeps
<1> DEFINE result == ReplaceResult(n, f)
<1>1. /\ Call("replace", n, NoName, NoName, NoIndex, f, result, n)
      /\ IF result = "ok" THEN ReplaceBody(n, f) ELSE Unchanged
  BY Zenon DEF Replace
<1>2. call'.op = "replace" /\ call'.result = result /\ call'.target = n
  BY <1>1, CallIs, Zenon
<1>3. ASSUME result = "ok" PROVE Spared(ToSet(Span(n)))
  BY <1>1, <1>3, ReplaceLeaves
<1>4. Keeps
  <2> HIDE DEF result
  <2> QED BY <1>2, <1>3, MayGoIs DEF Keeps
<1> QED BY <1>4, <1>1, <1>2, ReplaceKeeps, ReplaceLeaves, UnchangedKeeps DEF Leaves, Steady

LEMMA FoundIs ==
  ASSUME Sound, NEW n \in Node, NEW name, FieldIndex(n, name) # {}
  PROVE  First(FieldIndex(n, name)) \in 1 .. Size(n)
<1>1. Size(n) \in Nat
  BY NodeIs DEF Sound, WellFormed
<1>2. FieldIndex(n, name) \in SUBSET (1 .. Size(n))
  BY DEF FieldIndex
<1>3. First(FieldIndex(n, name)) \in FieldIndex(n, name)
  BY <1>1, <1>2, FirstIs
<1> QED BY <1>2, <1>3

LEMMA MethodReplaceField ==
  ASSUME Steady, NEW n \in Node, NEW name, NEW f, Offer(f), ReplaceObjectField(n, name, f)
  PROVE  Sound' /\ Counted /\ Leaves /\ Keeps
<1> DEFINE old == Field(n, First(FieldIndex(n, name)))
           result == IF ~Is(n, "object") THEN "wrong type"
                     ELSE IF FieldIndex(n, name) = {} THEN "not found" ELSE ReplaceResult(old, f)
           target == IF result = "ok" THEN old ELSE n
<1>1. /\ Call("replace field", n, name, NoName, NoIndex, f, result, target)
      /\ IF result = "ok" THEN ReplaceBody(old, f) ELSE Unchanged
  BY Zenon DEF ReplaceObjectField
<1> HIDE DEF target
<1>2. call'.op = "replace field" /\ call'.result = result /\ call'.target = target
  <2> HIDE DEF result
  <2> QED BY <1>1, CallIs, Zenon
<1>3. ASSUME result = "ok" PROVE Sound' /\ Counted /\ LeavesOthers(old) /\ Spared(ToSet(Span(old)))
  <2>1. Is(n, "object") /\ FieldIndex(n, name) # {} /\ ReplaceResult(old, f) = "ok"
    BY <1>3
  <2>2. old \in Node /\ Kind(Here, old) \notin WrapperType
    BY <2>1, FoundIs, ContainerParts DEF Steady, Sound
  <2>3. ReplaceBody(old, f)
    BY <1>1, <1>3
  <2> HIDE DEF old, result
  <2> QED BY <2>1, <2>2, <2>3, ReplaceKeeps, ReplaceLeaves DEF Steady
<1> HIDE DEF old, result
<1>4. Keeps
  BY <1>2, <1>3, MayGoIs DEF Keeps, target
<1> QED BY <1>4, <1>1, <1>2, <1>3, UnchangedKeeps DEF Leaves, Steady, target

LEMMA MethodInsertField ==
  ASSUME Steady, NEW n \in Node, NEW name \in Name, NEW f, Offer(f), InsertObjectField(n, name, f)
  PROVE  Sound' /\ Counted /\ Leaves /\ Keeps
<1> DEFINE i == Size(n) + 1
           results == IF ~Is(n, "object") THEN {"wrong type"}
                      ELSE IF FieldIndex(n, name) # {} THEN {"exists"}
                      ELSE {InsertResult(n, i, f)} \union IF PrefixLost(n) THEN {"panic"} ELSE {}
           prefix == FieldValuePrefix(n)
           field == NewField(name, prefix, f)
           g == Spaced(n, i, field)
<1>1. PICK result \in results :
        /\ Call("insert field", n, name, NoName, NoIndex, f, result, n)
        /\ IF result = "ok" THEN InsertBody(n, i, InsertMark(n, i), g) ELSE Unchanged
  BY Zenon DEF InsertObjectField
<1>2. call'.op = "insert field" /\ call'.result = result /\ call'.target = n
  <2> HIDE DEF results, g
  <2> QED BY <1>1, CallIs, Zenon
<1>3. ASSUME result = "ok" PROVE Sound' /\ Counted /\ LeavesOthers(n) /\ Spared({})
  <2>1. Is(n, "object") /\ InsertResult(n, i, f) = "ok"
    BY <1>3
  <2>2. InsertBody(n, i, InsertMark(n, i), g)
    BY <1>1, <1>3
  <2>3. f.ok /\ In(InsertMark(n, i))
    <3> HIDE DEF i
    <3> QED BY <2>1 DEF InsertResult
  <2>4. Listed(Here)
    BY DEF Steady, Sound, WellFormed
  <2>5. ValueOf(f) /\ Neat(f) /\ prefix \in Txt
    BY <2>3, <2>4, PrefixIsText DEF Offer
  <2> HIDE DEF prefix, results
  <2>6. PartOf(field, "field") /\ Neat(field)
    BY <2>5, NewFieldIs
  <2>7. Size(n) \in Nat /\ Kind(Here, n) = "object"
    BY <2>1, <2>4, NodeIs DEF Is
  <2>8. i \in 1 .. Size(n) + 1
    BY <2>7
  <2> HIDE DEF i, field
  <2>9. PartOf(g, "field") /\ GoesIn(n, i, g)
    BY <2>4, <2>6, <2>8, SpacedIs, SpacedFits
  <2> HIDE DEF g
  <2>10. PartOf(g, IF Kind(Here, n) = "object" THEN "field" ELSE "element") /\ Kind(Here, n) \in ContainerType
    BY <2>7, <2>9 DEF ContainerType
  <2> QED BY <2>2, <2>3, <2>8, <2>9, <2>10, InsertKeeps, InsertLeaves DEF Steady
<1> HIDE DEF results
<1>4. Keeps
  BY <1>2, <1>3, MayGoIs DEF Keeps
<1> QED BY <1>4, <1>1, <1>2, <1>3, UnchangedKeeps DEF Leaves, Steady

LEMMA MethodRemoveField ==
  ASSUME Steady, NEW n \in Node, NEW name, RemoveObjectField(n, name)
  PROVE  Sound' /\ Counted /\ Leaves /\ Keeps
<1> DEFINE i == First(FieldIndex(n, name))
           result == IF ~Is(n, "object") THEN "wrong type"
                     ELSE IF FieldIndex(n, name) = {} THEN "not found" ELSE RemoveResult(n, i)
<1>1. /\ Call("remove field", n, name, NoName, NoIndex, NoFragment, result, n)
      /\ IF result = "ok" THEN RemoveBody(n, i) ELSE Unchanged
  BY Zenon DEF RemoveObjectField
<1>2. call'.op = "remove field" /\ call'.result = result /\ call'.target = n /\ call'.name = name
  <2> HIDE DEF result
  <2> QED BY <1>1, CallIs, Zenon
<1>3. ASSUME result = "ok" PROVE Sound' /\ Counted /\ LeavesOthers(n) /\ Spared(ToSet(Span(Child(n, i))) \union ToSet(GapOf(n, i)))
  <2>1. Is(n, "object") /\ FieldIndex(n, name) # {} /\ RemoveResult(n, i) = "ok" /\ RemoveBody(n, i)
    BY <1>1, <1>3
  <2>2. i \in 1 .. Size(n)
    BY <2>1, FoundIs DEF Steady
  <2>3. Kind(Here, n) \in ContainerType
    BY <2>1, NodeIs DEF Is, Steady, Sound, WellFormed, ContainerType
  <2> HIDE DEF i, result
  <2> QED BY <2>1, <2>2, <2>3, RemoveKeeps, RemoveLeaves DEF Steady
<1> HIDE DEF result
<1>4. Keeps
  BY <1>2, <1>3, MayGoIs DEF Keeps
<1> QED BY <1>4, <1>1, <1>2, <1>3, UnchangedKeeps DEF Leaves, Steady

LEMMA MethodRename ==
  ASSUME Steady, NEW n \in Node, NEW name, NEW to \in Name, RenameObjectField(n, name, to)
  PROVE  Sound' /\ Counted /\ Leaves /\ Keeps
<1> DEFINE key == KeyNode(n, First(FieldIndex(n, name)))
           f == Encoded(<<QuoteOf[to]>>)
           result == IF ~Is(n, "object") THEN "wrong type"
                     ELSE IF FieldIndex(n, name) = {} THEN "not found"
                     ELSE IF name # to /\ FieldIndex(n, to) # {} THEN "exists"
                     ELSE ReplaceResult(key, f)
           target == IF result = "ok" THEN key ELSE n
<1>1. /\ Call("rename field", n, name, to, NoIndex, NoFragment, result, target)
      /\ IF result = "ok" THEN ReplaceBody(key, f) ELSE Unchanged
  BY Zenon DEF RenameObjectField
<1> HIDE DEF target
<1>2. call'.op = "rename field" /\ call'.result = result /\ call'.target = target
  <2> HIDE DEF result
  <2> QED BY <1>1, CallIs, Zenon
<1>3. ASSUME result = "ok" PROVE Sound' /\ Counted /\ LeavesOthers(key) /\ Spared(ToSet(Span(key)))
  <2>1. Is(n, "object") /\ FieldIndex(n, name) # {} /\ ReplaceResult(key, f) = "ok"
    BY <1>3
  <2>2. key \in Node /\ Kind(Here, key) \notin WrapperType
    BY <2>1, FoundIs, ContainerParts DEF Steady, Sound
  <2>3. ReplaceBody(key, f) /\ Offer(f)
    BY <1>1, <1>3, NameEncoded
  <2> HIDE DEF key, f, result
  <2> QED BY <2>1, <2>2, <2>3, ReplaceKeeps, ReplaceLeaves DEF Steady
<1> HIDE DEF key, result
<1>4. Keeps
  BY <1>2, <1>3, MayGoIs DEF Keeps, target
<1> QED BY <1>4, <1>1, <1>2, <1>3, UnchangedKeeps DEF Leaves, Steady, target

LEMMA MethodReplaceValue ==
  ASSUME Steady, NEW n \in Node, NEW i, NEW f, Offer(f), ReplaceArrayValue(n, i, f)
  PROVE  Sound' /\ Counted /\ Leaves /\ Keeps
<1> DEFINE old == Element(n, i)
           result == IF ~Is(n, "array") THEN "wrong type"
                     ELSE IF i \notin 1 .. Size(n) THEN "out of range" ELSE ReplaceResult(old, f)
           target == IF result = "ok" THEN old ELSE n
<1>1. /\ Call("replace value", n, NoName, NoName, i, f, result, target)
      /\ IF result = "ok" THEN ReplaceBody(old, f) ELSE Unchanged
  BY Zenon DEF ReplaceArrayValue
<1> HIDE DEF target
<1>2. call'.op = "replace value" /\ call'.result = result /\ call'.target = target
  <2> HIDE DEF result
  <2> QED BY <1>1, CallIs, Zenon
<1>3. ASSUME result = "ok" PROVE Sound' /\ Counted /\ LeavesOthers(old) /\ Spared(ToSet(Span(old)))
  <2>1. Is(n, "array") /\ i \in 1 .. Size(n) /\ ReplaceResult(old, f) = "ok"
    BY <1>3
  <2>2. old \in Node /\ Kind(Here, old) \notin WrapperType
    BY <2>1, ContainerParts DEF Steady, Sound
  <2>3. ReplaceBody(old, f)
    BY <1>1, <1>3
  <2> HIDE DEF old, result
  <2> QED BY <2>1, <2>2, <2>3, ReplaceKeeps, ReplaceLeaves DEF Steady
<1> HIDE DEF old, result
<1>4. Keeps
  BY <1>2, <1>3, MayGoIs DEF Keeps, target
<1> QED BY <1>4, <1>1, <1>2, <1>3, UnchangedKeeps DEF Leaves, Steady, target

LEMMA MethodInsertValue ==
  ASSUME Steady, NEW n \in Node, NEW i, NEW f, Offer(f), InsertArrayValue(n, i, f)
  PROVE  Sound' /\ Counted /\ Leaves /\ Keeps
<1> DEFINE element == NewElement(f)
           g == Spaced(n, i, element)
           result == IF ~Is(n, "array") THEN "wrong type"
                     ELSE IF i \notin 1 .. Size(n) + 1 THEN "out of range" ELSE InsertResult(n, i, f)
<1>1. /\ Call("insert value", n, NoName, NoName, i, f, result, n)
      /\ IF result = "ok" THEN InsertBody(n, i, InsertMark(n, i), g) ELSE Unchanged
  BY Zenon DEF InsertArrayValue
<1>2. call'.op = "insert value" /\ call'.result = result /\ call'.target = n
  <2> HIDE DEF result, g
  <2> QED BY <1>1, CallIs, Zenon
<1>3. ASSUME result = "ok" PROVE Sound' /\ Counted /\ LeavesOthers(n) /\ Spared({})
  <2>1. Is(n, "array") /\ i \in 1 .. Size(n) + 1 /\ InsertResult(n, i, f) = "ok"
    BY <1>3
  <2>2. InsertBody(n, i, InsertMark(n, i), g)
    BY <1>1, <1>3
  <2>3. f.ok /\ In(InsertMark(n, i))
    BY <2>1 DEF InsertResult
  <2>4. Listed(Here)
    BY DEF Steady, Sound, WellFormed
  <2>5. ValueOf(f) /\ Neat(f)
    BY <2>3 DEF Offer
  <2> HIDE DEF result
  <2>6. PartOf(element, "element") /\ Neat(element)
    BY <2>5, NewElementIs
  <2>7. Kind(Here, n) = "array"
    BY <2>1, <2>4, NodeIs DEF Is
  <2> HIDE DEF element
  <2>8. PartOf(g, "element") /\ GoesIn(n, i, g)
    BY <2>1, <2>4, <2>6, SpacedIs, SpacedFits
  <2> HIDE DEF g
  <2>9. PartOf(g, IF Kind(Here, n) = "object" THEN "field" ELSE "element") /\ Kind(Here, n) \in ContainerType
    BY <2>7, <2>8 DEF ContainerType
  <2> QED BY <2>1, <2>2, <2>3, <2>8, <2>9, InsertKeeps, InsertLeaves DEF Steady
<1> HIDE DEF result
<1>4. Keeps
  BY <1>2, <1>3, MayGoIs DEF Keeps
<1> QED BY <1>4, <1>1, <1>2, <1>3, UnchangedKeeps DEF Leaves, Steady

LEMMA MethodRemoveValue ==
  ASSUME Steady, NEW n \in Node, NEW i, RemoveArrayValue(n, i)
  PROVE  Sound' /\ Counted /\ Leaves /\ Keeps
<1> DEFINE result == IF ~Is(n, "array") THEN "wrong type"
                     ELSE IF i \notin 1 .. Size(n) THEN "out of range" ELSE RemoveResult(n, i)
<1>1. /\ Call("remove value", n, NoName, NoName, i, NoFragment, result, n)
      /\ IF result = "ok" THEN RemoveBody(n, i) ELSE Unchanged
  BY Zenon DEF RemoveArrayValue
<1>2. call'.op = "remove value" /\ call'.result = result /\ call'.target = n /\ call'.index = i
  <2> HIDE DEF result
  <2> QED BY <1>1, CallIs, Zenon
<1>3. ASSUME result = "ok" PROVE Sound' /\ Counted /\ LeavesOthers(n) /\ Spared(ToSet(Span(Child(n, i))) \union ToSet(GapOf(n, i)))
  <2>1. Is(n, "array") /\ i \in 1 .. Size(n) /\ RemoveResult(n, i) = "ok" /\ RemoveBody(n, i)
    BY <1>1, <1>3
  <2>2. Kind(Here, n) \in ContainerType
    BY <2>1, NodeIs DEF Is, Steady, Sound, WellFormed, ContainerType
  <2> HIDE DEF result
  <2> QED BY <2>1, <2>2, RemoveKeeps, RemoveLeaves DEF Steady
<1> HIDE DEF result
<1>4. Keeps
  BY <1>2, <1>3, MayGoIs DEF Keeps
<1> QED BY <1>4, <1>1, <1>2, <1>3, UnchangedKeeps DEF Leaves, Steady

LEMMA MethodReplaceText ==
  ASSUME Steady, NEW c \in DOMAIN token, token[c].type = "comment",
         NEW body \in Body, ReplaceText(c, body)
  PROVE  Sound' /\ Counted /\ Leaves /\ Keeps
<1> DEFINE literal == commentLiteralText(token[c].literal, body)
           accepted == literal # <<>>
           result == IF accepted THEN "ok" ELSE "invalid"
<1>1. Call("comment", Nil, NoName, NoName, NoIndex, NoFragment, result, Nil)
  BY Zenon DEF ReplaceText
<1>2. IF ~accepted THEN Unchanged
      ELSE /\ edits' = edits + 1
           /\ token' = [token EXCEPT ![c].literal = literal]
           /\ UNCHANGED <<node, list, root>>
  BY Zenon DEF ReplaceText
<1>3. literal \in Txt
  <2>1. LineOf[body] \in Seq(LineComment) /\ BlockOf[body] \in Seq(AnyLexeme)
    BY DocumentAssumption
  <2>2. LineComment \subseteq AnyLexeme
    BY DEF AnyLexeme
  <2>3. LineOf[body] \in Seq(AnyLexeme)
    <3> HIDE DEF literal, accepted, result
    <3> QED BY <2>1, <2>2
  <2> QED BY <2>1, <2>3 DEF commentLiteralText, Txt
<1> HIDE DEF literal, accepted, result
<1>4. Leaves
  <2>1. call'.op = "comment"
    BY <1>1, CallIs, Zenon
  <2> QED BY <2>1 DEF Leaves
<1>5. Keeps
  <2>1. list' = list
    BY <1>2 DEF Unchanged
  <2> QED BY <2>1, SameListSpares DEF Keeps
<1>6. CASE ~accepted
  BY <1>2, <1>4, <1>5, <1>6, UnchangedKeeps DEF Steady
<1>7. CASE accepted
  <2>1. edits' = edits + 1 /\ token' = [token EXCEPT ![c].literal = literal] /\ node' = node /\ list' = list /\ root' = root
    BY <1>2, <1>7
  <2>2. Sound'
    BY <1>3, <2>1, TextKeeps DEF Steady
  <2> QED BY <1>4, <1>5, <2>1, <2>2 DEF Counted
<1> QED BY <1>6, <1>7

-----------------------------------------------------------------------------
(***************************************************************************)
(* A decoded text is a document.                                           *)
(***************************************************************************)
LEMMA InitSteady == Init => Steady
<1> SUFFICES ASSUME Init PROVE Steady
  OBVIOUS
<1>1. PICK text \in Source :
        token = Decode(text).tokens /\ node = Decode(text).nodes /\ list = [i \in DOMAIN Decode(text).tokens |-> i]
  BY Zenon DEF Init
<1>2. text \in Txt /\ Decode(text).at = "end"
  BY DocumentAssumption DEF Txt, Valid
<1> DEFINE f == Encoded(text)
<1>3. f.ok /\ f.tokens = Decode(text).tokens /\ f.nodes = Decode(text).nodes
  BY <1>2 DEF Encoded
<1>4. ValueOf(f)
  BY <1>2, <1>3, EncodedIs
<1> HIDE DEF f
<1>5. Here.tokens = f.tokens /\ Here.nodes = f.nodes /\ Here.list = [i \in DOMAIN f.tokens |-> i]
  BY <1>1, <1>3, HereIs
<1>6. Sound
  <2>1. Here = Fresh(f)
    BY <1>1, <1>3 DEF Here, Fresh
  <2>2. WellFormed(Fresh(f))
    BY <1>4, FreshIs DEF ValueOf
  <2>3. Tidy(Fresh(f))
    BY <1>2, <1>3, EncodedTidy DEF f
  <2> QED BY <2>1, <2>2, <2>3 DEF Sound
<1>7. root = 1 /\ edits \in 0 .. MaxEdits
  BY DocumentAssumption DEF Init
<1> QED BY <1>6, <1>7 DEF Steady

LEMMA NextKeeps ==
  ASSUME "wrapper" \notin HandleKind, Steady, Next
  PROVE  Sound' /\ Counted /\ Leaves /\ Keeps
<1> DEFINE Fine == Sound' /\ Counted /\ Leaves /\ Keeps
<1>1. Sound /\ WellFormed(Here)
  BY DEF Steady, Sound
<1>2. \A f \in Given : Offer(f)
  BY <1>1, GivenIs
<1>3. \A n \in Handle : n \in Node /\ Kind(Here, n) \notin WrapperType
  BY <1>1, HandleIs
<1>4. \A n \in Value : n \in Node
  BY DEF Value
<1>5. ASSUME NEW f \in Given, NEW n \in Handle, Replace(n, f) PROVE Fine
  BY <1>2, <1>3, <1>5, MethodReplace
<1>6. ASSUME NEW f \in Given, NEW n \in Value, NEW name \in Name, ReplaceObjectField(n, name, f) PROVE Fine
  BY <1>2, <1>4, <1>6, MethodReplaceField
<1>7. ASSUME NEW f \in Given, NEW n \in Value, NEW name \in Name, InsertObjectField(n, name, f) PROVE Fine
  BY <1>2, <1>4, <1>7, MethodInsertField
<1>8. ASSUME NEW f \in Given, NEW n \in Value, NEW i, ReplaceArrayValue(n, i, f) PROVE Fine
  BY <1>2, <1>4, <1>8, MethodReplaceValue
<1>9. ASSUME NEW f \in Given, NEW n \in Value, NEW i, InsertArrayValue(n, i, f) PROVE Fine
  BY <1>2, <1>4, <1>9, MethodInsertValue
<1>10. ASSUME NEW n \in Value, NEW name \in Name, RemoveObjectField(n, name) PROVE Fine
  BY <1>4, <1>10, MethodRemoveField
<1>11. ASSUME NEW n \in Value, NEW name \in Name, NEW to \in Name, RenameObjectField(n, name, to) PROVE Fine
  BY <1>4, <1>11, MethodRename
<1>12. ASSUME NEW n \in Value, NEW i, RemoveArrayValue(n, i) PROVE Fine
  BY <1>4, <1>12, MethodRemoveValue
<1>13. ASSUME NEW c \in DOMAIN token, NEW body \in Body,
              token[c].type = "comment", ReplaceText(c, body)
       PROVE  Fine
  BY <1>13, MethodReplaceText
<1> HIDE DEF Fine
<1>14. Fine
  BY <1>5, <1>6, <1>7, <1>8, <1>9, <1>10, <1>11, <1>12, <1>13, Zenon DEF Next
<1> QED BY <1>14 DEF Fine

LEMMA NextSteady ==
  ASSUME "wrapper" \notin HandleKind, Steady, [Next]_vars
  PROVE  Steady'
<1>1. Sound /\ root = 1 /\ edits \in 0 .. MaxEdits /\ MaxEdits \in Nat
  BY DocumentAssumption DEF Steady
<1>2. CASE UNCHANGED vars
  <2>1. Unchanged
    BY <1>2 DEF vars, Unchanged
  <2>2. Sound' /\ edits' = edits /\ root' = root
    BY <1>1, <2>1, UnchangedKeeps DEF Unchanged
  <2> QED BY <1>1, <2>2 DEF Steady
<1>3. CASE Next
  <2>1. edits < MaxEdits
    BY <1>3 DEF Next
  <2>2. Sound' /\ Counted
    BY <1>3, NextKeeps
  <2>3. root' = 1 /\ edits' \in 0 .. MaxEdits
    BY <1>1, <2>1, <2>2 DEF Counted
  <2> QED BY <2>2, <2>3 DEF Steady
<1> QED BY <1>2, <1>3

-----------------------------------------------------------------------------
LEMMA SteadyTyped == Steady => TypeOK
<1> SUFFICES ASSUME Steady PROVE TypeOK
  OBVIOUS
<1>1. WellFormed(Here) /\ Listed(Here) /\ Here.tokens = token /\ Here.nodes = node /\ Here.list = list
      /\ root = 1 /\ edits \in 0 .. MaxEdits
  BY HereIs DEF Steady, Sound, WellFormed
<1>2. \A t \in DOMAIN token : token[t].type \in LexType \union {"anchor"}
  <2>1. \A t \in DOMAIN token : token[t] \in Tok
    <3> HIDE DEF Tok
    <3> QED BY <1>1, ListIs DEF Toks
  <2> QED BY <2>1 DEF Tok
<1>3. \A n \in Node : n \in DOMAIN Here.nodes /\ LinkedAt(Here, n) /\ Kind(Here, n) \in NodeType
  BY <1>1, DocumentIs DEF WellFormed, Linked, Node, Listed
<1>4. ASSUME NEW n \in Node
      PROVE  /\ node[n].type \in NodeType
             /\ {node[n].start, node[n].end} \subseteq DOMAIN token
             /\ \A i \in 1 .. Size(n) : Child(n, i) \in Node
  <2>1. /\ node[n].type = Kind(Here, n) /\ node[n].start = Begins(Here, n) /\ node[n].end = Ends(Here, n)
        /\ DOMAIN Kids(Here, n) = 1 .. Size(n) /\ \A i : Child(n, i) = Kids(Here, n)[i]
    BY <1>1, NodeIs
  <2>2. LinkedAt(Here, n) /\ Kind(Here, n) \in NodeType
    BY <1>3
  <2> QED BY <1>1, <2>1, <2>2 DEF LinkedAt, Node
<1>5. \A i, j \in DOMAIN list : list[i] \in DOMAIN token /\ (list[i] = list[j] => i = j)
  BY <1>1 DEF Listed
<1>6. root \in Node
  BY <1>1 DEF WellFormed, Kept, Node
<1>7. /\ LexType \union {"anchor"} = {"anchor", "comma", "colon", "delim", "whitespace",
                                       "newline", "comment", "number", "string", "identifier"}
      /\ NodeType = {"object", "field", "array", "element", "string", "number", "bool", "null"}
  BY DEF LexType, NodeType, ContainerType, WrapperType
<1> QED BY <1>1, <1>2, <1>4, <1>5, <1>6, <1>7 DEF TypeOK

LEMMA SteadyAnchors == Steady => AnchorsMatch
<1> SUFFICES ASSUME Steady PROVE AnchorsMatch
  OBVIOUS
<1>1. WellFormed(Here) /\ Listed(Here) /\ Marked(Here) /\ Here.tokens = token /\ Node = DOMAIN Here.nodes
  BY HereIs DEF Steady, Sound, WellFormed, Node
<1>2. \A e \in DOMAIN token : token[e].type = "anchor" <=> token[e] = Anchor
  <2>1. \A t \in DOMAIN token : token[t] \in Tok
    <3> HIDE DEF Tok
    <3> QED BY <1>1, ListIs DEF Toks
  <2> QED BY <2>1 DEF Tok, Anchor
<1>3. \A n : n \in Attached \cap Wrappers <=> n \in Node /\ Live(Here, n) /\ Kind(Here, n) \in WrapperType
  <2>1. \A n \in Node : node[n].type = Kind(Here, n)
    BY <1>1, NodeIs
  <2> QED BY <2>1, AttachedIs DEF Wrappers, WrapperType
<1>4. \A n \in Node : Live(Here, n) =>
        /\ node[n].start = Begins(Here, n) /\ node[n].end = Ends(Here, n)
        /\ Held(Here, Begins(Here, n)) /\ Held(Here, Ends(Here, n))
        /\ Begins(Here, n) \in DOMAIN token /\ Ends(Here, n) \in DOMAIN token
  <2> SUFFICES ASSUME NEW n \in Node, Live(Here, n)
               PROVE  /\ node[n].start = Begins(Here, n) /\ node[n].end = Ends(Here, n)
                      /\ Held(Here, Begins(Here, n)) /\ Held(Here, Ends(Here, n))
                      /\ Begins(Here, n) \in DOMAIN token /\ Ends(Here, n) \in DOMAIN token
    OBVIOUS
  <2>1. Held(Here, Begins(Here, n)) /\ Held(Here, Ends(Here, n))
    BY <1>1, LiveNode
  <2> QED BY <1>1, <2>1, NodeIs, PosIs
<1>5. \A e \in DOMAIN token :
        In(e) => (token[e].type = "anchor" <=>
          \E n \in Attached \cap Wrappers : e \in {node[n].start, node[n].end})
  <2>1. \A e \in DOMAIN token :
          Held(Here, e) =>
            (token[e] = Anchor <=>
               \E k \in Node : Kind(Here, k) \in WrapperType /\ Live(Here, k) /\ e \in {Begins(Here, k), Ends(Here, k)})
    BY <1>1 DEF Marked
  <2> QED BY <1>2, <1>3, <1>4, <2>1, HereIs
<1>6. \A n \in Attached \cap Wrappers : \A e \in {node[n].start, node[n].end} : e \in DOMAIN token /\ In(e)
  BY <1>3, <1>4, HereIs
<1> QED BY <1>5, <1>6 DEF AnchorsMatch

(***************************************************************************)
(* The list holds allocated tokens, each once, and the tree is over        *)
(* allocated nodes, whatever is called through whichever handle, unless    *)
(* through that of a field or an element.                                  *)
(***************************************************************************)
THEOREM DocumentTyped ==
  ASSUME "wrapper" \notin HandleKind
  PROVE  Spec => []TypeOK
<1>1. Init => Steady
  BY InitSteady
<1>2. Steady /\ [Next]_vars => Steady'
  BY NextSteady
<1>3. Steady => TypeOK
  BY SteadyTyped
<1> QED BY <1>1, <1>2, <1>3, PTL DEF Spec

(***************************************************************************)
(* The anchors in the list are the ends of the fields and elements of the  *)
(* tree: no edit loses one, or leaves one behind.                          *)
(***************************************************************************)
THEOREM AnchorsKept ==
  ASSUME "wrapper" \notin HandleKind
  PROVE  Spec => []AnchorsMatch
<1>1. Init => Steady
  BY InitSteady
<1>2. Steady /\ [Next]_vars => Steady'
  BY NextSteady
<1>3. Steady => AnchorsMatch
  BY SteadyAnchors
<1> QED BY <1>1, <1>2, <1>3, PTL DEF Spec

(***************************************************************************)
(* An edit through a handle, a removed one included, changes the node it   *)
(* is called on and what contains that: every other node that stays in the *)
(* document keeps its children and, in one piece, its tokens.              *)
(***************************************************************************)
THEOREM OthersStayPut ==
  ASSUME "wrapper" \notin HandleKind
  PROVE  Spec => OthersUntouched
<1>1. Init => Steady
  BY InitSteady
<1>2. Steady /\ [Next]_vars => Steady'
  BY NextSteady
<1> DEFINE Act == call'.op # "comment" /\ call'.result = "ok" =>
                    \A m \in Attached :
                      LET s == Span(m)
                      IN  call'.target \notin Subtree(m) /\ s[1] \in ToSet(list') =>
                            /\ node'[m] = node[m]
                            /\ InOnePiece(s, list')
                            /\ \A e \in ToSet(s) : token'[e] = token[e]
<1>3. Steady /\ [Next]_vars => [Act]_vars
  <2> SUFFICES ASSUME Steady, Next, call'.op # "comment", call'.result = "ok"
               PROVE  \A m \in Attached :
                        LET s == Span(m)
                        IN  call'.target \notin Subtree(m) /\ s[1] \in ToSet(list') =>
                              /\ node'[m] = node[m]
                              /\ InOnePiece(s, list')
                              /\ \A e \in ToSet(s) : token'[e] = token[e]
    BY Zenon
  <2>1. LeavesOthers(call'.target)
    BY NextKeeps DEF Leaves
  <2> QED BY <2>1, Zenon DEF LeavesOthers, Untouched
<1>4. OthersUntouched <=> [][Act]_vars
  BY DEF OthersUntouched
<1> QED BY <1>1, <1>2, <1>3, <1>4, PTL DEF Spec

(***************************************************************************)
(* An edit through a handle, a removed one included, loses a comment only  *)
(* with the value that holds it or with the gap that goes with a removed   *)
(* child, and leaves the others in their order.                            *)
(***************************************************************************)
THEOREM CommentsStay ==
  ASSUME "wrapper" \notin HandleKind
  PROVE  Spec => CommentsKept
<1>1. Init => Steady
  BY InitSteady
<1>2. Steady /\ [Next]_vars => Steady'
  BY NextSteady
<1> DEFINE Act == call'.result = "ok" =>
                    \A c, d \in CommentsIn(list) \ MayGo(call') :
                      In(c)' /\ (At(c) < At(d) => At(c)' < At(d)')
<1>3. Steady /\ [Next]_vars => [Act]_vars
  <2> SUFFICES ASSUME Steady, Next, call'.result = "ok"
               PROVE  \A c, d \in CommentsIn(list) \ MayGo(call') :
                        In(c)' /\ (At(c) < At(d) => At(c)' < At(d)')
    BY Zenon
  <2>1. Spared(MayGo(call'))
    BY NextKeeps DEF Keeps
  <2> QED BY <2>1, Zenon DEF Spared
<1>4. CommentsKept <=> [][Act]_vars
  BY DEF CommentsKept
<1> QED BY <1>1, <1>2, <1>3, <1>4, PTL DEF Spec

-----------------------------------------------------------------------------
(***************************************************************************)
(* The comments that the methods find.                                     *)
(***************************************************************************)
\* The next thing to be seen on either side of a place.
LEMMA SeenBehind ==
  ASSUME NEW o, IsOutline(o), NEW p \in 1 .. o.n
  PROVE  \/ \E x \in 1 .. o.n : p < x /\ o.type[x] \notin Blank /\ Blanks(o, p, x)
         \/ \A x \in 1 .. o.n : p < x => o.type[x] \in Blank
<1> DEFINE I == {x \in 1 .. o.n : p < x /\ o.type[x] \notin Blank}
<1>1. o.n \in Nat /\ I \in SUBSET (1 .. o.n)
  BY DEF IsOutline
<1>2. CASE I = {}
  BY <1>2
<1>3. CASE I # {}
  <2> DEFINE x == FirstOf(I)
  <2>1. x \in I /\ \A y \in I : x <= y
    <3> HIDE DEF I
    <3> QED BY <1>1, <1>3, FirstOfIs
  <2> HIDE DEF x
  <2>2. x \in 1 .. o.n /\ p < x /\ o.type[x] \notin Blank /\ \A y \in 1 .. o.n : p < y /\ y < x => o.type[y] \in Blank
    BY <1>1, <2>1
  <2> QED BY <2>2 DEF Blanks
<1> QED BY <1>2, <1>3

LEMMA SeenBefore ==
  ASSUME NEW o, IsOutline(o), NEW p \in 1 .. o.n
  PROVE  \/ \E x \in 1 .. o.n : x < p /\ o.type[x] \notin Blank /\ Blanks(o, x, p)
         \/ \A x \in 1 .. o.n : x < p => o.type[x] \in Blank
<1> DEFINE I == {x \in 1 .. o.n : x < p /\ o.type[x] \notin Blank}
<1>1. o.n \in Nat /\ I \in SUBSET (1 .. o.n)
  BY DEF IsOutline
<1>2. CASE I = {}
  BY <1>2
<1>3. CASE I # {}
  <2> DEFINE x == LastOf(I)
  <2>1. x \in I /\ \A y \in I : y <= x
    <3> HIDE DEF I
    <3> QED BY <1>1, <1>3, LastOfIs
  <2> HIDE DEF x
  <2>2. x \in 1 .. o.n /\ x < p /\ o.type[x] \notin Blank /\ \A y \in 1 .. o.n : x < y /\ y < p => o.type[y] \in Blank
    BY <1>1, <2>1
  <2> QED BY <2>2 DEF Blanks
<1> QED BY <1>2, <1>3

\* What a comment at p of the list is to a node: it follows it, it comes before it, it is alone
\* in it, or behind its last comma.
IsBehind(d, k, p) == To(d, k) < p /\ Blanks(OutlineOf(d), To(d, k), p)
IsBefore(d, k, p) == p < From(d, k) /\ Blanks(OutlineOf(d), p, From(d, k))
IsAlone(d, k, p) == Kind(d, k) \in ContainerType /\ Kids(d, k) = <<>> /\ From(d, k) < p /\ p < To(d, k)
IsLast(d, k, p) ==
  /\ Kind(d, k) \in ContainerType /\ Kids(d, k) # <<>>
  /\ \E x \in Nat : /\ LastIn(d, k) < x /\ x < p /\ p < To(d, k)
                    /\ OutlineOf(d).type[x] = "comma" /\ Blanks(OutlineOf(d), LastIn(d, k), x)

Spotted(d, p) ==
  \E k \in DOMAIN d.nodes :
    Live(d, k) /\ (IsBehind(d, k, p) \/ IsBefore(d, k, p) \/ IsAlone(d, k, p) \/ IsLast(d, k, p))

\* With nothing in between, a blank is alone in a container.
LEMMA AloneIs ==
  ASSUME NEW d, WellFormed(d), Edged(OutlineOf(d)), NEW c \in DOMAIN d.nodes, Live(d, c),
         NEW k \in DOMAIN d.nodes, Live(d, k), NEW p \in Nat, From(d, k) < p, p < To(d, c),
         From(d, c) <= From(d, k), To(d, c) <= To(d, k),
         \A x \in 1 .. OutlineOf(d).n : From(d, k) < x /\ x < To(d, c) => OutlineOf(d).type[x] \in Blank
  PROVE  IsAlone(d, c, p)
<1> DEFINE o == OutlineOf(d)
<1>1. /\ From(d, c) \in Nat /\ To(d, c) \in Nat /\ From(d, k) \in Nat /\ To(d, k) \in Nat
      /\ From(d, c) <= To(d, c) /\ From(d, k) <= To(d, k)
  BY LiveNode
<1>2. k = c
  <2>1. To(d, c) \in From(d, k) .. To(d, k)
    BY <1>1
  <2>2. c = k \/ Inside(d, c, k) \/ Inside(d, k, c)
    BY <2>1, OwnEnds
  <2>3. ~Inside(d, c, k)
    <3>1. SUFFICES ASSUME Inside(d, c, k) PROVE FALSE
      OBVIOUS
    <3>2. From(d, k) < From(d, c)
      BY <3>1, InsideIs
    <3> QED BY <1>1, <3>2
  <2>4. ~Inside(d, k, c)
    <3>1. SUFFICES ASSUME Inside(d, k, c) PROVE FALSE
      OBVIOUS
    <3>2. To(d, k) < To(d, c)
      BY <3>1, InsideIs
    <3> QED BY <1>1, <3>2
  <2> QED BY <2>2, <2>3, <2>4
<1>3. From(d, c) < p /\ From(d, c) < To(d, c)
  BY <1>1, <1>2
<1>4. Kids(d, c) = <<>>
  <2>1. SUFFICES ASSUME Kids(d, c) # <<>> PROVE FALSE
    OBVIOUS
  <2> DEFINE x == FirstIn(d, c)
             j == Kids(d, c)[1]
  <2>2. 1 \in DOMAIN Kids(d, c)
    <3>1. Kids(d, c) \in Seq(Nat)
      BY DocumentIs DEF WellFormed, Listed
    <3> QED BY <2>1, <3>1
  <2>3. Within(d, c, j)
    BY <2>2, LiveNode
  <2>4. x = From(d, j)
    BY <2>1 DEF FirstIn
  <2> HIDE DEF j, x
  <2>5. j \in DOMAIN d.nodes /\ Live(d, j) /\ From(d, c) < From(d, j) /\ To(d, j) < To(d, c)
    BY <2>3 DEF Within
  <2>6. From(d, j) \in 1 .. o.n /\ o.type[From(d, j)] \notin Blank
    BY <2>5, EndsSeen
  <2>7. From(d, j) \in Nat /\ To(d, j) \in Nat /\ From(d, j) <= To(d, j)
    BY <2>5, LiveNode
  <2>8. From(d, k) < From(d, j) /\ From(d, j) < To(d, c)
    BY <1>1, <1>2, <2>5, <2>7
  <2> QED BY <2>6, <2>8
<1>5. Kind(d, c) \in ContainerType
  <2>1. FormedAt(d, c)
    BY DEF WellFormed, Formed
  <2>2. CASE Kind(d, c) \in WrapperType
    <3>1. Len(Kids(d, c)) = IF Kind(d, c) = "field" THEN 2 ELSE 1
      BY <2>1, <2>2 DEF FormedAt, Full, WrapperType
    <3> QED BY <1>4, <3>1
  <2>3. CASE Kind(d, c) \notin ContainerType \union WrapperType
    <3>1. Ends(d, c) = Begins(d, c)
      BY <2>1, <2>3 DEF FormedAt
    <3> QED BY <1>1, <1>3, <3>1 DEF From, To
  <2> QED BY <2>2, <2>3
<1> QED BY <1>3, <1>4, <1>5 DEF IsAlone

LEMMA CommentPlaced ==
  ASSUME NEW d, WellFormed(d), Tidy(d), NEW p \in 1 .. OutlineOf(d).n, OutlineOf(d).type[p] \in Blank
  PROVE  Spotted(d, p)
<1> DEFINE o == OutlineOf(d)
<1>1. Edged(o) /\ Parted(o)
  BY DEF Tidy
<1>2. /\ IsOutline(o) /\ o.n \in Nat /\ p \in Nat
      /\ \A x : x \in o.opens <=> Starts(d, x)
      /\ \A x : x \in o.closes <=> Stops(d, x)
      /\ \A x : x \in o.shuts <=> StopsContainer(d, x)
      /\ o.opens \subseteq 1 .. o.n /\ o.closes \subseteq 1 .. o.n /\ o.shuts \subseteq o.closes
  <2>1. o.n \in Nat /\ IsOutline(o)
    BY TreeOutline
  <2> QED BY <2>1, TreeOutline DEF IsOutline
<1>3. \A x \in 1 .. o.n : x \in o.opens \union o.closes <=> o.type[x] \notin Blank \union Separator
  BY <1>1 DEF Edged
<1>4. \A k \in DOMAIN d.nodes : Live(d, k) =>
        /\ From(d, k) \in o.opens /\ From(d, k) \in 1 .. o.n /\ o.type[From(d, k)] \notin Blank \union Separator
        /\ To(d, k) \in o.closes /\ To(d, k) \in 1 .. o.n /\ o.type[To(d, k)] \notin Blank \union Separator
        /\ From(d, k) \in Nat /\ To(d, k) \in Nat /\ From(d, k) <= To(d, k)
        /\ Kind(d, k) \in ContainerType => From(d, k) < To(d, k)
  BY <1>1, EndsSeen, LiveNode
<1> HIDE DEF o
<1>5. SUFFICES ASSUME ~Spotted(d, p) PROVE FALSE
  OBVIOUS
<1>6. ASSUME NEW m \in o.closes, m < p, Blanks(o, m, p) PROVE FALSE
  <2>1. PICK k \in DOMAIN d.nodes : Live(d, k) /\ To(d, k) = m
    BY <1>2 DEF Stops
  <2> QED BY <1>5, <1>6, <2>1 DEF Spotted, IsBehind, o
<1>7. ASSUME NEW m \in o.opens, p < m, Blanks(o, p, m) PROVE FALSE
  <2>1. PICK k \in DOMAIN d.nodes : Live(d, k) /\ From(d, k) = m
    BY <1>2 DEF Starts
  <2> QED BY <1>5, <1>7, <2>1 DEF Spotted, IsBefore, o
\* What is seen before it begins a node, or separates.
<1>8. ASSUME NEW l \in 1 .. o.n, l < p, o.type[l] \notin Blank, Blanks(o, l, p)
      PROVE  l \in o.opens \/ o.type[l] \in Separator
  BY <1>3, <1>6, <1>8
\* What is seen behind it ends a node.
<1>9. ASSUME NEW r \in 1 .. o.n, p < r, o.type[r] \notin Blank, Blanks(o, p, r)
      PROVE  r \in o.closes
  <2>1. r \notin o.opens
    BY <1>7, <1>9
  <2>2. SUFFICES ASSUME o.type[r] \in Separator PROVE FALSE
    BY <1>3, <1>9, <2>1
  <2>3. PICK m \in o.closes : m < r /\ Blanks(o, m, r)
    BY <1>1, <2>2 DEF Parted, Led
  <2>4. m \in 1 .. o.n /\ o.type[m] \notin Blank /\ m \in Nat /\ r \in Nat
    BY <1>2, <1>3
  <2>5. m < p
    <3>1. ~(p < m)
      BY <1>9, <2>3, <2>4 DEF Blanks
    <3>2. m # p
      BY <2>4 DEF o
    <3> QED BY <1>2, <2>4, <3>1, <3>2
  <2>6. Blanks(o, m, p)
    <3>1. \A x \in 1 .. o.n : m < x /\ x < p => x < r
      BY <1>2, <1>9, <2>4
    <3> QED BY <2>3, <3>1 DEF Blanks
  <2> QED BY <1>6, <2>5, <2>6
\* Something ends behind it.
<1>10. PICK r \in 1 .. o.n : p < r /\ o.type[r] \notin Blank /\ Blanks(o, p, r)
  <2>1. SUFFICES ASSUME \A x \in 1 .. o.n : p < x => o.type[x] \in Blank PROVE FALSE
    BY <1>2, SeenBehind DEF o
  <2>2. 1 \in DOMAIN d.nodes /\ Live(d, 1)
    BY DEF WellFormed, Kept
  <2>3. From(d, 1) \in 1 .. o.n /\ o.type[From(d, 1)] \notin Blank /\ From(d, 1) < p
    <3>1. From(d, 1) \in 1 .. o.n /\ o.type[From(d, 1)] \notin Blank /\ From(d, 1) \in Nat
      BY <1>4, <2>2
    <3>2. From(d, 1) # p /\ ~(p < From(d, 1))
      BY <2>1, <3>1 DEF o
    <3> QED BY <1>2, <3>1, <3>2
  <2>4. PICK l \in 1 .. o.n : l < p /\ o.type[l] \notin Blank /\ Blanks(o, l, p)
    BY <1>2, <2>3, SeenBefore DEF o
  <2>5. ASSUME NEW m \in 1 .. o.n, l < m, o.type[m] \notin Blank PROVE FALSE
    <3>1. m \in Nat /\ m # p
      BY <1>2, <2>5 DEF o
    <3>2. CASE p < m
      BY <2>1, <2>5, <3>2
    <3>3. CASE m < p
      BY <2>4, <2>5, <3>3 DEF Blanks
    <3> QED BY <1>2, <3>1, <3>2, <3>3
  <2>6. CASE l \in o.opens
    <3>1. PICK k \in DOMAIN d.nodes : Live(d, k) /\ From(d, k) = l
      BY <1>2, <2>6 DEF Starts
    <3>2. l \notin o.closes
      BY <1>6, <2>4
    <3>3. To(d, k) # l /\ To(d, k) \in 1 .. o.n /\ o.type[To(d, k)] \notin Blank /\ l < To(d, k)
      BY <1>4, <3>1, <3>2
    <3> QED BY <2>5, <3>3
  <2>7. CASE o.type[l] \in Separator
    <3>1. PICK m \in o.opens \union o.shuts : l < m
      BY <1>1, <2>7 DEF Parted, Followed
    <3>2. m \in 1 .. o.n /\ o.type[m] \notin Blank
      BY <1>2, <1>3
    <3> QED BY <2>5, <3>1, <3>2
  <2> QED BY <1>8, <2>4, <2>6, <2>7
<1>11. PICK c \in DOMAIN d.nodes : Live(d, c) /\ To(d, c) = r
  BY <1>2, <1>9, <1>10 DEF Stops
<1>12. r \notin o.opens
  BY <1>7, <1>10
<1>13. ASSUME NEW k \in DOMAIN d.nodes, Live(d, k), To(d, k) = r
       PROVE  From(d, k) < p
  <2>1. From(d, k) \in Nat /\ From(d, k) \in 1 .. o.n /\ o.type[From(d, k)] \notin Blank /\ From(d, k) <= r /\ From(d, k) # r
    BY <1>4, <1>12, <1>13
  <2>2. From(d, k) # p
    BY <2>1 DEF o
  <2>3. ~(p < From(d, k))
    BY <1>10, <2>1 DEF Blanks
  <2> QED BY <1>2, <2>1, <2>2, <2>3
<1>14. PICK l \in 1 .. o.n : l < p /\ o.type[l] \notin Blank /\ Blanks(o, l, p)
  <2>1. From(d, c) \in 1 .. o.n /\ o.type[From(d, c)] \notin Blank /\ From(d, c) < p
    BY <1>4, <1>11, <1>13
  <2> QED BY <1>2, <2>1, SeenBefore DEF o
<1>15. \A x \in 1 .. o.n : l < x /\ x < r => o.type[x] \in Blank
  <2>1. \A x \in 1 .. o.n : x < p \/ x = p \/ p < x
    BY <1>2
  <2> QED BY <1>10, <1>14, <2>1 DEF Blanks, o
<1>16. l \in Nat /\ r \in Nat
  OBVIOUS
<1>17. CASE o.type[l] \in Separator
  <2>1. PICK m \in o.opens \union o.shuts : l < m /\ Blanks(o, l, m)
    BY <1>1, <1>17 DEF Parted, Followed
  <2>2. m = r
    <3>1. m \in 1 .. o.n /\ o.type[m] \notin Blank /\ m \in Nat
      BY <1>2, <1>3
    <3>2. ~(m < r)
      BY <1>15, <2>1, <3>1
    <3>3. ~(r < m)
      <4>1. l < r
        BY <1>2, <1>10, <1>14, <1>16
      <4> QED BY <1>10, <2>1, <4>1 DEF Blanks
    <3> QED BY <1>16, <3>1, <3>2, <3>3
  <2>3. PICK k \in DOMAIN d.nodes : Kind(d, k) \in ContainerType /\ Live(d, k) /\ To(d, k) = r
    BY <1>2, <1>12, <2>1, <2>2 DEF StopsContainer
  <2>4. From(d, k) < p /\ From(d, k) < r
    BY <1>2, <1>4, <1>10, <1>13, <1>16, <2>3
  <2>5. Kids(d, k) # <<>>
    BY <1>5, <1>10, <2>3, <2>4 DEF Spotted, IsAlone
  <2> DEFINE z == LastIn(d, k)
             j == Kids(d, k)[Len(Kids(d, k))]
  <2>6. z < l
    <3>1. Kids(d, k) \in Seq(Nat) /\ Len(Kids(d, k)) \in DOMAIN Kids(d, k)
      <4>1. Kids(d, k) \in Seq(Nat)
        BY DocumentIs DEF WellFormed, Listed
      <4> QED BY <2>5, <4>1
    <3>2. Within(d, k, j)
      BY <2>3, <3>1, LiveNode
    <3>3. z = To(d, j)
      BY <2>5 DEF LastIn
    <3> HIDE DEF j, z
    <3>4. j \in DOMAIN d.nodes /\ Live(d, j) /\ To(d, j) < r
      BY <2>3, <3>2 DEF Within
    <3>5. z \in 1 .. o.n /\ o.type[z] \notin Blank /\ o.type[z] \notin Separator /\ z < r /\ z \in Nat
      BY <1>4, <3>3, <3>4
    <3>6. z # l /\ ~(l < z)
      BY <1>15, <1>17, <3>5
    <3> QED BY <1>16, <3>5, <3>6
  <2> HIDE DEF z, j
  <2>7. l < r
    BY <1>2, <1>10, <1>14, <1>16
  <2>8. o.type[l] = "comma" /\ Blanks(o, z, l)
    BY <1>1, <1>14, <1>16, <2>3, <2>4, <2>6, <2>7, LastGap DEF o, z
  <2> QED BY <1>5, <1>10, <1>14, <1>16, <2>3, <2>5, <2>6, <2>8 DEF Spotted, IsLast, z, o
<1>18. CASE l \in o.opens
  <2>1. PICK k \in DOMAIN d.nodes : Live(d, k) /\ From(d, k) = l
    BY <1>2, <1>18 DEF Starts
  <2>2. l \notin o.closes
    BY <1>6, <1>14
  <2>3. To(d, k) # l /\ To(d, k) \in 1 .. o.n /\ o.type[To(d, k)] \notin Blank /\ l < To(d, k) /\ To(d, k) \in Nat
    BY <1>4, <1>16, <2>1, <2>2
  <2>4. r <= To(d, k)
    BY <1>15, <1>16, <2>3
  <2>5. From(d, c) <= l
    <3>1. From(d, c) \in 1 .. o.n /\ o.type[From(d, c)] \notin Blank /\ From(d, c) < p /\ From(d, c) \in Nat
      BY <1>4, <1>11, <1>13
    <3>2. ~(l < From(d, c))
      BY <1>14, <3>1 DEF Blanks
    <3> QED BY <1>16, <3>1, <3>2
  <2>6. IsAlone(d, c, p)
    BY <1>1, <1>2, <1>10, <1>11, <1>14, <1>15, <2>1, <2>4, <2>5, AloneIs DEF o
  <2> QED BY <1>5, <1>11, <2>6 DEF Spotted
<1> QED BY <1>8, <1>14, <1>17, <1>18

-----------------------------------------------------------------------------
(***************************************************************************)
(* Where a comment is, the methods find it.                                *)
(***************************************************************************)
\* Behind blanks only, it is adjacent.
LEMMA AdjacentHas ==
  ASSUME NEW s \in Refs, NEW j \in 1 .. Len(s), token[s[j]].type = "comment",
         \A x \in 1 .. j : token[s[x]].type \in Blank
  PROVE  s[j] \in Adjacent(s)
<1> DEFINE I == {x \in 1 .. Len(s) : token[s[x]].type \notin Skipped \union {"comment"}}
           r == Cut(s, I)
<1>1. Adjacent(s) = CommentsIn(r)
  BY Zenon DEF Adjacent, Before, Cut, SelectInSeq, FirstOf
<1>2. s \in Seq(DOMAIN token) /\ I \in SUBSET (1 .. Len(s)) /\ Len(s) \in Nat
  BY DEF Refs
<1>3. \A x \in 1 .. j : x \notin I
  BY DEF Blank, Skipped, Space
<1> HIDE DEF I
<1>4. IsCut(DOMAIN token, r, s, I)
  BY <1>2, CutIs
<1>5. j <= Len(r)
  <2>1. CASE I = {}
    BY <1>2, <1>4, <2>1 DEF IsCut
  <2>2. CASE I # {}
    <3>1. FirstOf(I) \in I /\ Len(r) = FirstOf(I) - 1
      BY <1>2, <1>4, <2>2, FirstOfIs DEF IsCut
    <3>2. FirstOf(I) \in 1 .. Len(s) /\ FirstOf(I) \notin 1 .. j
      BY <1>2, <1>3, <3>1
    <3> QED BY <3>1, <3>2
  <2> QED BY <2>1, <2>2
<1> HIDE DEF r
<1>6. j \in 1 .. Len(r) /\ r \in Seq(DOMAIN token)
  BY <1>4, <1>5 DEF IsCut
<1>7. r[j] = s[j] /\ j \in DOMAIN r
  BY <1>4, <1>6 DEF IsCut
<1> QED BY <1>1, <1>7 DEF CommentsIn, ToSet

\* The list and its outline.
LEMMA DrawnIs ==
  ASSUME Sound
  PROVE  LET o == OutlineOf(Here)
         IN  /\ Listed(Here) /\ o.n = Len(list) /\ o.n \in Nat /\ list \in Refs
             /\ \A x \in 1 .. o.n : o.type[x] = token[list[x]].type
<1>1. WellFormed(Here) /\ Listed(Here)
  BY DEF Sound, WellFormed
<1> QED BY <1>1, TreeOutline, HereIs, ListIs

LEMMA BehindFound ==
  ASSUME Sound, NEW k \in Node, Live(Here, k), NEW p \in 1 .. Len(list),
         token[list[p]].type = "comment", IsBehind(Here, k, p)
  PROVE  list[p] \in Trailing(k)
<1> DEFINE o == OutlineOf(Here)
           a == To(Here, k)
           s == SubSeq(list, a + 1, Len(list))
           j == p - a
<1>1. /\ Listed(Here) /\ o.n = Len(list) /\ o.n \in Nat /\ list \in Seq(DOMAIN token)
      /\ \A x \in 1 .. o.n : o.type[x] = token[list[x]].type
  BY DrawnIs DEF Refs
<1>2. k \in DOMAIN Here.nodes /\ node[k].end = Ends(Here, k)
  BY <1>1, NodeIs
<1>3. a \in Nat /\ a \in 0 .. Len(list) /\ At(node[k].end) = a
  <2>1. a \in 1 .. Len(Here.list) /\ a \in Nat
    BY <1>2, LiveNode DEF Sound
  <2> QED BY <1>1, <1>2, <2>1, HereIs DEF To
<1>4. a < p /\ Blanks(o, a, p)
  BY DEF IsBehind
<1> HIDE DEF a, o
<1>5. /\ s \in Seq(DOMAIN token) /\ Len(s) = Len(list) - a
      /\ \A x \in 1 .. Len(list) - a : a + x \in 1 .. Len(list) /\ s[x] = list[a + x]
  BY <1>1, <1>3, TailIs
<1>6. Trailing(k) = Adjacent(s)
  BY <1>3 DEF Trailing
<1> HIDE DEF s
<1>7. j \in 1 .. Len(s) /\ a + j = p
  BY <1>1, <1>3, <1>4, <1>5
<1> HIDE DEF j
<1>8. s[j] = list[p]
  BY <1>5, <1>7
<1>9. ASSUME NEW x \in 1 .. j PROVE token[s[x]].type \in Blank
  <2>1. x \in 1 .. Len(list) - a /\ (a + x < p \/ a + x = p) /\ a < a + x
    BY <1>1, <1>3, <1>5, <1>7
  <2>2. a + x \in 1 .. o.n /\ s[x] = list[a + x]
    BY <1>1, <1>5, <2>1
  <2>3. o.type[a + x] = token[s[x]].type
    BY <1>1, <2>2
  <2>4. CASE a + x < p
    BY <1>4, <2>1, <2>2, <2>3, <2>4 DEF Blanks
  <2>5. CASE a + x = p
    BY <2>2, <2>5 DEF Blank
  <2> QED BY <2>1, <2>4, <2>5
<1>10. s \in Refs /\ token[s[j]].type = "comment"
  BY <1>5, <1>8 DEF Refs
<1> QED BY <1>6, <1>7, <1>8, <1>9, <1>10, AdjacentHas

LEMMA BackwardsIs ==
  ASSUME NEW T, NEW s \in Seq(T), NEW q \in 1 .. Len(s)
  PROVE  LET r == Reverse(SubSeq(s, 1, q - 1))
         IN  r \in Seq(T) /\ Len(r) = q - 1 /\ \A j \in 1 .. q - 1 : q - j \in 1 .. Len(s) /\ r[j] = s[q - j]
<1> DEFINE h == SubSeq(s, 1, q - 1)
           r == Reverse(h)
<1>1. h \in Seq(T) /\ Len(h) = q - 1 /\ \A j \in 1 .. q - 1 : h[j] = s[j]
  OBVIOUS
<1>2. r = [i \in 1 .. Len(h) |-> h[(Len(h) - i) + 1]]
  BY Zenon DEF Reverse
<1> HIDE DEF h, r
<1>3. ASSUME NEW i \in 1 .. Len(h) PROVE (Len(h) - i) + 1 \in 1 .. Len(h) /\ (Len(h) - i) + 1 = q - i /\ q - i \in 1 .. Len(s)
  BY <1>1
<1>4. \A i \in 1 .. Len(h) : r[i] = s[q - i] /\ r[i] \in T
  BY <1>1, <1>2, <1>3
<1>5. r \in Seq(T) /\ Len(r) = q - 1
  BY <1>1, <1>2, <1>4
<1> QED BY <1>1, <1>3, <1>4, <1>5 DEF h, r

LEMMA BeforeFound ==
  ASSUME Sound, NEW k \in Node, Live(Here, k), NEW p \in 1 .. Len(list),
         token[list[p]].type = "comment", IsBefore(Here, k, p)
  PROVE  list[p] \in Leading(k)
<1> DEFINE o == OutlineOf(Here)
           a == From(Here, k)
           s == Reverse(SubSeq(list, 1, a - 1))
           j == a - p
<1>1. /\ Listed(Here) /\ o.n = Len(list) /\ o.n \in Nat /\ list \in Seq(DOMAIN token)
      /\ \A x \in 1 .. o.n : o.type[x] = token[list[x]].type
  BY DrawnIs DEF Refs
<1>2. k \in DOMAIN Here.nodes /\ node[k].start = Begins(Here, k)
  BY <1>1, NodeIs
<1>3. a \in Nat /\ a \in 1 .. Len(list) /\ At(node[k].start) = a
  <2>1. a \in 1 .. Len(Here.list) /\ a \in Nat
    BY <1>2, LiveNode DEF Sound
  <2> QED BY <1>1, <1>2, <2>1, HereIs DEF From
<1>4. p < a /\ Blanks(o, p, a)
  BY DEF IsBefore
<1> HIDE DEF a, o
<1>5. /\ s \in Seq(DOMAIN token) /\ Len(s) = a - 1
      /\ \A x \in 1 .. a - 1 : a - x \in 1 .. Len(list) /\ s[x] = list[a - x]
  BY <1>1, <1>3, BackwardsIs
<1>6. Leading(k) = Adjacent(s)
  BY <1>3 DEF Leading
<1> HIDE DEF s
<1>7. j \in 1 .. Len(s) /\ a - j = p
  BY <1>1, <1>3, <1>4, <1>5
<1> HIDE DEF j
<1>8. s[j] = list[p]
  BY <1>5, <1>7
<1>9. ASSUME NEW x \in 1 .. j PROVE token[s[x]].type \in Blank
  <2>1. x \in 1 .. a - 1 /\ (p < a - x \/ a - x = p) /\ a - x < a
    BY <1>1, <1>3, <1>5, <1>7
  <2>2. a - x \in 1 .. o.n /\ s[x] = list[a - x]
    BY <1>1, <1>5, <2>1
  <2>3. o.type[a - x] = token[s[x]].type
    BY <1>1, <2>2
  <2>4. CASE p < a - x
    BY <1>4, <2>1, <2>2, <2>3, <2>4 DEF Blanks
  <2>5. CASE a - x = p
    BY <2>2, <2>5 DEF Blank
  <2> QED BY <2>1, <2>4, <2>5
<1>10. s \in Refs /\ token[s[j]].type = "comment"
  BY <1>5, <1>8 DEF Refs
<1> QED BY <1>6, <1>7, <1>8, <1>9, <1>10, AdjacentHas

\* What the methods take for the inside of a container.
DanglingIn(n, inside, comma) ==
  IF Size(n) = 0 THEN CommentsIn(inside)
  ELSE IF comma = 0 THEN {} ELSE CommentsIn(SubSeq(inside, comma + 1, Len(inside)))

LEMMA DanglingIs ==
  ASSUME NEW n, Is(n, "object") \/ Is(n, "array")
  PROVE  /\ Size(n) = 0 => Dangling(n) = CommentsIn(Between(node[n].start, node[n].end))
         /\ Size(n) # 0 =>
              LET inside == Between(node[Child(n, Size(n))].end, node[n].end)
              IN  Dangling(n) = DanglingIn(n, inside, CommaAfter(inside))
  BY Zenon DEF Dangling, DanglingIn, CommaAfter, FirstOf, SelectInSeq

LEMMA HolderIs ==
  ASSUME Sound, NEW k \in Node, Live(Here, k), Kind(Here, k) \in ContainerType
  PROVE  /\ Is(k, "object") \/ Is(k, "array")
         /\ k \in DOMAIN Here.nodes /\ node[k].start = Begins(Here, k) /\ node[k].end = Ends(Here, k)
         /\ Held(Here, node[k].start) /\ Held(Here, node[k].end)
         /\ Size(k) = Len(Kids(Here, k)) /\ Size(k) \in Nat /\ Kids(Here, k) \in Seq(Nat)
<1>1. WellFormed(Here) /\ Listed(Here)
  BY DEF Sound, WellFormed
<1>2. /\ k \in DOMAIN Here.nodes /\ node[k].type = Kind(Here, k) /\ node[k].start = Begins(Here, k)
      /\ node[k].end = Ends(Here, k) /\ Size(k) = Len(Kids(Here, k)) /\ Size(k) \in Nat
  BY <1>1, NodeIs
<1>3. Held(Here, Begins(Here, k)) /\ Held(Here, Ends(Here, k))
  BY <1>1, <1>2, LiveNode
<1>4. Kids(Here, k) \in Seq(Nat)
  BY <1>1, <1>2, DocumentIs DEF Listed
<1> QED BY <1>2, <1>3, <1>4 DEF ContainerType, Is

LEMMA AloneFound ==
  ASSUME Sound, NEW k \in Node, Live(Here, k), NEW p \in 1 .. Len(list),
         token[list[p]].type = "comment", IsAlone(Here, k, p)
  PROVE  list[p] \in Dangling(k)
<1>1. Kind(Here, k) \in ContainerType /\ Kids(Here, k) = <<>> /\ From(Here, k) < p /\ p < To(Here, k)
  BY DEF IsAlone
<1>2. /\ Is(k, "object") \/ Is(k, "array")
      /\ k \in DOMAIN Here.nodes /\ node[k].start = Begins(Here, k) /\ node[k].end = Ends(Here, k)
      /\ Held(Here, node[k].start) /\ Held(Here, node[k].end)
      /\ Size(k) = 0
  <2>1. Len(Kids(Here, k)) = 0
    BY <1>1
  <2> QED BY <1>1, <2>1, HolderIs
<1>3. Dangling(k) = CommentsIn(Between(node[k].start, node[k].end))
  BY <1>2, DanglingIs
<1>4. Listed(Here) /\ p \in Pos(Here, node[k].start) + 1 .. Pos(Here, node[k].end) - 1
  <2>1. WellFormed(Here) /\ Listed(Here) /\ From(Here, k) \in Nat /\ To(Here, k) \in Nat
    BY <1>2, LiveNode DEF Sound, WellFormed
  <2>2. Pos(Here, node[k].start) = From(Here, k) /\ Pos(Here, node[k].end) = To(Here, k)
    BY <1>2 DEF From, To
  <2> QED BY <1>1, <2>1, <2>2
<1>5. list[p] \in ToSet(Between(node[k].start, node[k].end))
  BY <1>2, <1>4, InBetween
<1> QED BY <1>3, <1>5 DEF CommentsIn

LEMMA LastFound ==
  ASSUME Sound, NEW k \in Node, Live(Here, k), NEW p \in 1 .. Len(list),
         token[list[p]].type = "comment", IsLast(Here, k, p)
  PROVE  list[p] \in Dangling(k)
<1> DEFINE o == OutlineOf(Here)
           c == Child(k, Size(k))
           e == node[c].end
           f == node[k].end
           a == LastIn(Here, k)
           b == To(Here, k)
           s == Between(e, f)
           I == {x \in 1 .. Len(s) : token[s[x]].type = "comma"}
           m == CommaAfter(s)
<1>1. Kind(Here, k) \in ContainerType /\ Kids(Here, k) # <<>>
  BY DEF IsLast
<1>2. PICK x \in Nat : a < x /\ x < p /\ p < b /\ o.type[x] = "comma"
  BY DEF IsLast
<1>3. /\ Is(k, "object") \/ Is(k, "array")
      /\ k \in DOMAIN Here.nodes /\ f = Ends(Here, k) /\ Held(Here, f)
      /\ Size(k) = Len(Kids(Here, k)) /\ Size(k) \in Nat /\ Kids(Here, k) \in Seq(Nat)
  BY <1>1, HolderIs
<1>4. Size(k) # 0 /\ Size(k) \in DOMAIN Kids(Here, k) /\ c = Kids(Here, k)[Size(k)]
  <2>1. Size(k) # 0 /\ Size(k) \in DOMAIN Kids(Here, k)
    BY <1>1, <1>3
  <2> QED BY <2>1, <1>3, NodeIs DEF Sound, WellFormed
<1>5. /\ Listed(Here) /\ o.n = Len(list) /\ o.n \in Nat
      /\ \A y \in 1 .. o.n : o.type[y] = token[list[y]].type
  BY DrawnIs
<1>6. /\ e = Ends(Here, c) /\ Held(Here, e) /\ Pos(Here, e) = a /\ Pos(Here, f) = b
      /\ a \in Nat /\ b \in Nat /\ b <= Len(list)
  <2>1. WellFormed(Here) /\ Here.list = list /\ Node = DOMAIN Here.nodes
    BY HereIs DEF Sound, Node
  <2>2. Within(Here, k, c) /\ b \in 1 .. Len(Here.list)
    BY <1>3, <1>4, <2>1, LiveNode
  <2>3. c \in DOMAIN Here.nodes /\ Live(Here, c)
    BY <2>2 DEF Within
  <2>4. Held(Here, Ends(Here, c)) /\ To(Here, c) \in Nat
    BY <2>1, <2>3, LiveNode
  <2>5. e = Ends(Here, c)
    BY <1>5, <2>1, <2>3, NodeIs
  <2>6. a = To(Here, c)
    BY <1>1, <1>3, <1>4 DEF LastIn
  <2> HIDE DEF a, b, c, e, f
  <2>7. b = Pos(Here, f)
    BY <1>3 DEF b, To
  <2> QED BY <1>5, <2>1, <2>2, <2>4, <2>5, <2>6, <2>7 DEF To
<1>7. Follows(s, e, f)
  BY <1>5, <1>6, StretchIs
<1>8. Dangling(k) = DanglingIn(k, s, m)
  BY <1>3, <1>4, DanglingIs
<1> HIDE DEF a, b, c, e, f, s, o
<1>9. /\ s \in Seq(DOMAIN token) /\ Len(s) \in Nat /\ Len(s) = b - a - 1
      /\ \A y \in 1 .. Len(s) : a + y \in 1 .. Len(list) /\ s[y] = list[a + y]
  <2>1. a < b
    BY <1>2, <1>6
  <2>2. s \in Seq(DOMAIN token) /\ Len(s) \in Nat
    BY <1>7 DEF Follows, Refs
  <2>3. Len(s) = b - a - 1 /\ \A y \in 1 .. Len(s) : a + y \in 1 .. Len(list) /\ s[y] = list[a + y]
    BY ONLY <1>3, <1>6, <1>7, <2>1 DEF Follows
  <2> QED BY <2>2, <2>3
<1>10. x - a \in 1 .. Len(s) /\ a + (x - a) = x /\ p - a \in 1 .. Len(s) /\ a + (p - a) = p /\ x - a < p - a
  BY <1>2, <1>6, <1>9
<1>11. x - a \in I
  <2>1. s[x - a] = list[x] /\ x \in 1 .. Len(list)
    BY <1>9, <1>10
  <2>2. token[s[x - a]].type = "comma"
    BY <1>2, <1>5, <2>1
  <2> QED BY <1>10, <2>2
<1>12. m \in 1 .. Len(s) /\ m <= x - a
  <2>1. m = FirstOf(I)
    BY DEF CommaAfter
  <2>2. I \in SUBSET (1 .. Len(s))
    OBVIOUS
  <2> HIDE DEF I, m
  <2>3. FirstOf(I) \in I /\ \A y \in I : FirstOf(I) <= y
    BY <1>9, <1>11, <2>2, FirstOfIs
  <2>4. m \in I /\ m <= x - a
    BY <1>11, <2>1, <2>3
  <2> QED BY <2>2, <2>4
<1>13. Dangling(k) = CommentsIn(SubSeq(s, m + 1, Len(s)))
  <2>1. m # 0
    BY <1>12
  <2> QED BY <1>4, <1>8, <2>1 DEF DanglingIn
<1>14. m \in 0 .. Len(s) /\ p - a - m \in 1 .. Len(s) - m /\ m + (p - a - m) = p - a
  <2> HIDE DEF I, m
  <2>1. m \in Nat /\ x - a \in Nat /\ p - a \in Nat /\ Len(s) \in Nat
        /\ m <= x - a /\ x - a < p - a /\ p - a <= Len(s)
    BY <1>9, <1>10, <1>12
  <2> QED BY ONLY <2>1
<1> HIDE DEF I, m
<1> DEFINE t == SubSeq(s, m + 1, Len(s))
<1>15. /\ t \in Seq(DOMAIN token) /\ Len(t) = Len(s) - m
       /\ \A j \in 1 .. Len(s) - m : m + j \in 1 .. Len(s) /\ t[j] = s[m + j]
  BY <1>9, <1>14, TailIs
<1> HIDE DEF t
<1>16. p - a - m \in DOMAIN t /\ t[p - a - m] = s[p - a]
  <2>1. DOMAIN t = 1 .. Len(s) - m
    BY <1>15
  <2>2. t[p - a - m] = s[m + (p - a - m)]
    BY <1>14, <1>15
  <2> QED BY <1>14, <2>1, <2>2
<1>17. s[p - a] = list[p]
  BY <1>9, <1>10
<1>18. list[p] \in ToSet(t)
  BY <1>16, <1>17 DEF ToSet
<1> QED BY <1>13, <1>18 DEF CommentsIn, t

LEMMA SteadyFound == Steady => EveryCommentFound
<1> SUFFICES ASSUME Steady, NEW e \in CommentsIn(list)
             PROVE  \E n \in Attached : e \in Comments(n)
  BY DEF EveryCommentFound
<1>1. Sound /\ WellFormed(Here) /\ Tidy(Here) /\ Node = DOMAIN Here.nodes
  BY HereIs DEF Steady, Sound, Node
<1>2. /\ OutlineOf(Here).n = Len(list) /\ list \in Refs
      /\ \A x \in 1 .. Len(list) : OutlineOf(Here).type[x] = token[list[x]].type
  BY <1>1, DrawnIs
<1>3. PICK p \in 1 .. Len(list) : e = list[p] /\ token[list[p]].type = "comment"
  <2>1. DOMAIN list = 1 .. Len(list)
    BY <1>2 DEF Refs
  <2> QED BY <2>1 DEF CommentsIn, ToSet
<1>4. Spotted(Here, p)
  <2>1. p \in 1 .. OutlineOf(Here).n /\ OutlineOf(Here).type[p] \in Blank
    BY <1>2, <1>3 DEF Blank
  <2> QED BY <1>1, <2>1, CommentPlaced
<1>5. PICK k \in Node :
        Live(Here, k) /\ (IsBehind(Here, k, p) \/ IsBefore(Here, k, p) \/ IsAlone(Here, k, p) \/ IsLast(Here, k, p))
  BY <1>1, <1>4 DEF Spotted
<1>6. list[p] \in Trailing(k) \/ list[p] \in Leading(k) \/ list[p] \in Dangling(k)
  BY <1>1, <1>3, <1>5, BehindFound, BeforeFound, AloneFound, LastFound
<1>7. k \in Attached
  BY <1>5, AttachedIs
<1> QED BY <1>3, <1>6, <1>7 DEF Comments

(***************************************************************************)
(* Every comment of the document is reported by a node: edits may move a   *)
(* comment from one node to another, but leave none that no node has       *)
(* before it, behind it, or inside it where its children end.              *)
(***************************************************************************)
THEOREM CommentsFound ==
  ASSUME "wrapper" \notin HandleKind
  PROVE  Spec => []EveryCommentFound
<1>1. Init => Steady
  BY InitSteady
<1>2. Steady /\ [Next]_vars => Steady'
  BY NextSteady
<1>3. Steady => EveryCommentFound
  BY SteadyFound
<1> QED BY <1>1, <1>2, <1>3, PTL DEF Spec

=============================================================================
