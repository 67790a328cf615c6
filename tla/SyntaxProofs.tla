---------------------------- MODULE SyntaxProofs ----------------------------
(***************************************************************************)
(* The parser loses nothing of a text that it accepts, and the tree that   *)
(* it builds is what the edits assume, with separators only between the    *)
(* nodes that they separate: for every text over any lexemes, under any    *)
(* options.                                                                *)
(***************************************************************************)
EXTENDS Syntax, SequenceFacts

Txt == Seq(AnyLexeme)
LexType == {"comma", "colon", "delim", "whitespace", "newline", "comment", "number", "string", "identifier"}

\* What the lexer makes: a lexeme, and behind a comment perhaps more of its line.
LexTok ==
  {t \in [type : LexType, literal : Txt] :
     /\ t.literal # <<>> /\ t.type = TokenType(t.literal[1])
     /\ t.type # "comment" => t.literal = <<t.literal[1]>>}
LexToks == Seq(LexTok)

\* No other token is an anchor, and no anchor has a text.
Tok == {t \in [type : LexType \union {"anchor"}, literal : Txt] : t.type = "anchor" => t = Anchor}
Toks == Seq(Tok)

-----------------------------------------------------------------------------
(***************************************************************************)
(* The text of tokens.                                                     *)
(***************************************************************************)
Literals(ts) == [i \in DOMAIN ts |-> ts[i].literal]

LEMMA TextIs ==
  ASSUME NEW ts \in Toks
  PROVE  Text(ts) = FlattenSeq(Literals(ts)) /\ Literals(ts) \in Seq(Txt)
<1>1. \A i \in DOMAIN ts : ts[i].literal \in Txt
  <2>1. \A i \in DOMAIN ts : ts[i] \in Tok
    BY DEF Toks
  <2> HIDE DEF Txt
  <2> QED BY <2>1 DEF Tok
<1>2. Literals(ts) \in Seq(Txt)
  <2>1. ts \in Seq(Tok)
    BY DEF Toks
  <2> HIDE DEF Txt, Tok
  <2> QED BY <1>1, <2>1 DEF Literals
<1> QED BY <1>2 DEF Text, Literals

LEMMA TextType ==
  ASSUME NEW ts \in Toks
  PROVE  Text(ts) \in Txt
BY TextIs, FlattenType DEF Txt

LEMMA TextEmpty == Text(<<>>) = <<>>
<1>1. Literals(<<>>) = <<>> /\ <<>> \in Toks
  BY DEF Literals, Toks
<1> QED BY <1>1, TextIs, FlattenEmpty

LEMMA TextAppend ==
  ASSUME NEW ts \in Toks, NEW t \in Tok
  PROVE  /\ Append(ts, t) \in Toks
         /\ Text(Append(ts, t)) = Text(ts) \o t.literal
<1>1. Append(ts, t) \in Toks /\ t.literal \in Txt
  <2> HIDE DEF Txt
  <2> QED BY DEF Toks, Tok
<1>2. Literals(Append(ts, t)) = Append(Literals(ts), t.literal)
  <2>1. ts \in Seq(Tok)
    BY DEF Toks
  <2> HIDE DEF Tok
  <2> QED BY <2>1 DEF Literals
<1>3. FlattenSeq(Append(Literals(ts), t.literal)) = FlattenSeq(Literals(ts)) \o t.literal
  BY <1>1, TextIs, FlattenAppend DEF Txt
<1> QED BY <1>1, <1>2, <1>3, TextIs

-----------------------------------------------------------------------------
(***************************************************************************)
(* Lexing.                                                                 *)
(***************************************************************************)
LEMMA LexTokType ==
  /\ \A ts \in LexToks : ts \in Toks
  /\ \A t \in LexTok : t \in Tok /\ t.literal \in Txt /\ t.literal # <<>>
<1>1. "anchor" \notin LexType
  BY DEF LexType
<1>2. \A t \in LexTok : t \in Tok /\ t.literal \in Txt /\ t.literal # <<>>
  <2> HIDE DEF Txt, LexType
  <2> QED BY <1>1 DEF LexTok, Tok
<1> QED BY <1>2 DEF LexToks, Toks

LEMMA TokenIs ==
  ASSUME NEW x \in AnyLexeme
  PROVE  Token(x) \in LexTok /\ Token(x).literal = <<x>>
<1>1. TokenType(x) \in LexType
  BY Zenon DEF TokenType, AnyLexeme, Punctuation, LexType
<1>2. <<x>> \in Txt /\ <<x>>[1] = x /\ <<x>> # <<>>
  BY DEF Txt
<1> HIDE DEF LexType, Txt
<1> QED BY <1>1, <1>2 DEF Token, LexTok

\* Each lexeme goes into a token.
LEMMA ScanKeeps ==
  ASSUME NEW ts \in LexToks, NEW x \in AnyLexeme
  PROVE  Scan(ts, x) \in LexToks /\ Text(Scan(ts, x)) = Append(Text(ts), x)
<1>0. ts \in Seq(LexTok) /\ ts \in Toks /\ Text(ts) \in Seq(AnyLexeme)
  BY LexTokType, TextType DEF LexToks, Txt
<1>1. CASE Swallows(ts, x)
  <2>1. ts # <<>>
    BY <1>1 DEF Swallows
  <2> DEFINE n == Len(ts)
             front == SubSeq(ts, 1, n - 1)
             t == ts[n]
             u == [t EXCEPT !.literal = Append(@, x)]
  <2>2. /\ front \in Seq(LexTok) /\ t \in LexTok
        /\ ts = Append(front, t)
    <3> HIDE DEF LexTok
    <3> QED BY <1>0, <2>1
  <2>3. Scan(ts, x) = Append(front, u)
    <3>1. Scan(ts, x) = [ts EXCEPT ![Len(ts)].literal = Append(@, x)]
      BY <1>1 DEF Scan
    <3>2. @ = [ts EXCEPT ![Len(ts)] = u]
      BY <1>0
    <3>3. @ = Append(front, u)
      <4>1. n \in Nat /\ n > 0 /\ DOMAIN ts = 1 .. n
        BY <1>0, <2>1
      <4>2. front = [i \in 1 .. n - 1 |-> ts[i]] /\ Len(front) = n - 1
        BY <4>1
      <4> HIDE DEF n, front, u
      <4>3. Append(front, u) = [i \in 1 .. n |-> IF i = n THEN u ELSE ts[i]]
        BY <4>1, <4>2, <2>2
      <4>4. [ts EXCEPT ![n] = u] = [i \in 1 .. n |-> IF i = n THEN u ELSE ts[i]]
        BY <4>1
      <4>5. n = Len(ts)
        BY DEF n
      <4> HIDE DEF t
      <4> QED BY <4>3, <4>4, <4>5, Zenon
    <3> QED BY <3>1, <3>2, <3>3
  <2> HIDE DEF front, t
  <2>4. t.literal \in Txt /\ t \in Tok
    BY <2>2, LexTokType
  <2>5. u \in LexTok /\ u.literal = Append(t.literal, x)
    <3>1. Last(ts) = t /\ t.type = "comment"
      BY <1>1, <2>1 DEF Swallows, Last, t
    <3>2. t \in [type : LexType, literal : Txt] /\ t.type = TokenType(t.literal[1]) /\ t.literal # <<>>
      BY <2>2 DEF LexTok
    <3>3. Append(t.literal, x) \in Txt /\ Append(t.literal, x) # <<>> /\ Append(t.literal, x)[1] = t.literal[1]
      BY <2>4, <3>2 DEF Txt
    <3>4. u \in [type : LexType, literal : Txt] /\ u.type = "comment" /\ u.literal = Append(t.literal, x)
      <4> HIDE DEF LexType, Txt
      <4> QED BY <3>1, <3>2, <3>3
    <3> HIDE DEF u
    <3> QED BY <3>1, <3>2, <3>3, <3>4 DEF LexTok
  <2> HIDE DEF u
  <2>6. front \in Toks /\ u \in Tok /\ Append(front, u) \in LexToks
    BY <2>2, <2>5, LexTokType DEF LexToks
  <2>7. Text(ts) = Text(front) \o t.literal
    BY <2>2, <2>4, <2>6, TextAppend
  <2>8. Text(Append(front, u)) = Text(front) \o u.literal
    BY <2>6, TextAppend
  <2>9. Text(front) \o Append(t.literal, x) = Append(Text(front) \o t.literal, x)
    <3>1. Text(front) \in Seq(AnyLexeme) /\ t.literal \in Seq(AnyLexeme)
      BY <2>4, <2>6, TextType DEF Txt
    <3> QED BY <3>1, ConcatAppend
  <2> QED BY <2>3, <2>5, <2>6, <2>7, <2>8, <2>9
<1>2. CASE ~Swallows(ts, x)
  <2>1. Scan(ts, x) = Append(ts, Token(x))
    BY <1>2 DEF Scan
  <2>2. Token(x) \in LexTok /\ Token(x).literal = <<x>>
    BY TokenIs
  <2>3. Append(ts, Token(x)) \in LexToks /\ Token(x) \in Tok
    <3> HIDE DEF LexTok
    <3> QED BY <1>0, <2>2, LexTokType DEF LexToks
  <2>4. Text(Append(ts, Token(x))) = Text(ts) \o <<x>>
    BY <1>0, <2>2, <2>3, TextAppend
  <2>5. Text(ts) \o <<x>> = Append(Text(ts), x)
    BY <1>0, ConcatLast
  <2> QED BY <2>1, <2>3, <2>4, <2>5
<1> QED BY <1>1, <1>2

Lexes(f, x) ==
  f[0] = <<>> /\ \A n \in 1 .. Len(x) : f[n] = Scan(f[n - 1], x[n])

LEMMA LexIsFold ==
  ASSUME NEW x \in Txt
  PROVE  \E f \in [0 .. Len(x) -> LexToks] : Lexes(f, x) /\ Lex(x) = f[Len(x)]
<1> DEFINE N == Len(x)
           step == [p \in LexToks \X (1 .. N) |-> Scan(p[1], x[p[2]])]
<1>1. N \in Nat /\ \A n \in 1 .. N : x[n] \in AnyLexeme /\ n - 1 \in 0 .. N
  BY DEF Txt
<1> HIDE DEF N
<1>2. step \in [LexToks \X (1 .. N) -> LexToks]
  <2>1. ASSUME NEW v \in LexToks, NEW n \in 1 .. N PROVE Scan(v, x[n]) \in LexToks
    BY <1>1, ScanKeeps
  <2> QED BY <2>1
<1>3. PICK f : f \in [0 .. N -> LexToks] /\ IsFold(f, N, <<>>, step)
  <2>1. <<>> \in LexToks
    BY DEF LexToks
  <2> HIDE DEF step
  <2> QED BY <1>1, <1>2, <2>1, FoldExists
<1>4. f[0] = <<>> /\ \A n \in 1 .. N : f[n] = Scan(f[n - 1], x[n])
  <2>1. ASSUME NEW n \in 1 .. N PROVE f[n] = Scan(f[n - 1], x[n])
    <3>1. f[n - 1] \in LexToks
      BY <1>1, <1>3
    <3>2. step[<<f[n - 1], n>>] = Scan(f[n - 1], x[n])
      BY <3>1
    <3> QED BY <1>3, <3>2 DEF IsFold
  <2> QED BY <1>3, <2>1 DEF IsFold
<1> DEFINE Is(h) == h = [i \in 0 .. N |-> IF i = 0 THEN <<>> ELSE Scan(h[i - 1], x[i])]
           g == CHOOSE h : Is(h)
<1>5. Is(f)
  <2>1. ASSUME NEW i \in 0 .. N PROVE f[i] = IF i = 0 THEN <<>> ELSE Scan(f[i - 1], x[i])
    BY <1>1, <1>4
  <2> QED BY <1>3, <2>1
<1>6. Is(g)
  <2> HIDE DEF Is
  <2> QED BY <1>5
<1>7. Lex(x) = g[N]
  BY DEF Lex, N
<1> HIDE DEF g
<1>8. \A n \in 0 .. N : g[n] = f[n]
  <2>1. g[0] = f[0] /\ N \in Nat
    BY <1>1, <1>4, <1>6
  <2>2. ASSUME NEW n \in 1 .. N, g[n - 1] = f[n - 1] PROVE g[n] = f[n]
    <3>1. g[n] = Scan(g[n - 1], x[n])
      BY <1>1, <1>6
    <3> QED BY <1>4, <2>2, <3>1
  <2> HIDE DEF Is
  <2>3. Alike(g, f, N)
    BY <2>1, <2>2 DEF Alike
  <2> QED BY <2>1, <2>3, SameFold
<1> HIDE DEF Is
<1>9. Lex(x) = f[N]
  BY <1>1, <1>7, <1>8
<1> QED BY <1>3, <1>4, <1>9 DEF Lexes, N

\* The lexer keeps the text.
LEMMA LexKeepsText ==
  ASSUME NEW x \in Txt
  PROVE  Lex(x) \in LexToks /\ Text(Lex(x)) = x
<1> DEFINE N == Len(x)
<1>0. N \in Nat /\ x \in Seq(AnyLexeme)
  BY DEF Txt
<1>1. PICK f : f \in [0 .. N -> LexToks] /\ Lexes(f, x) /\ Lex(x) = f[N]
  BY LexIsFold
<1>2. f[0] = <<>> /\ \A n \in 1 .. N : f[n] = Scan(f[n - 1], x[n])
  BY <1>1 DEF Lexes
<1> DEFINE M == {n \in 0 .. N : Text(f[n]) = SubSeq(x, 1, n)}
<1>3. 0 \in M
  <2>1. Text(f[0]) = <<>>
    BY <1>2, TextEmpty, Zenon
  <2>2. SubSeq(x, 1, 0) = <<>>
    BY <1>0, PrefixEnds
  <2>3. Text(f[0]) = SubSeq(x, 1, 0)
    BY <2>1, <2>2, Zenon
  <2> QED BY <1>0, <2>3
<1>4. ASSUME NEW n \in 1 .. N, n - 1 \in M PROVE n \in M
  <2>1. f[n - 1] \in LexToks /\ Text(f[n - 1]) = SubSeq(x, 1, n - 1)
    BY <1>1, <1>4
  <2>2. x[n] \in AnyLexeme /\ SubSeq(x, 1, n) = Append(SubSeq(x, 1, n - 1), x[n])
    BY <1>0, PrefixStep
  <2>3. Text(f[n]) = Append(Text(f[n - 1]), x[n])
    BY <1>2, <2>1, <2>2, ScanKeeps
  <2>4. n \in 0 .. N
    OBVIOUS
  <2> QED BY <2>1, <2>2, <2>3, <2>4
<1>5. \A n \in 0 .. N : n \in M
  <2> HIDE DEF M, N
  <2> QED BY <1>0, <1>3, <1>4, UpTo
<1>6. Text(f[N]) = SubSeq(x, 1, N) /\ f[N] \in LexToks
  <2>1. N \in M /\ N \in 0 .. N
    <3> HIDE DEF M
    <3> QED BY <1>0, <1>5
  <2> QED BY <1>1, <2>1
<1> QED BY <1>0, <1>1, <1>6, PrefixEnds

-----------------------------------------------------------------------------
(***************************************************************************)
(* What the parser has built, wherever it is.  A node is open until it has *)
(* its last token.                                                         *)
(***************************************************************************)
ContainerType == {"object", "array"}
WrapperType == {"field", "element"}
NodeType == ContainerType \union WrapperType \union {"string", "number", "bool", "null"}
NodeRecord == [type : NodeType, start : Nat, end : Nat, children : Seq(Nat)]

Place == {"value", "first element", "next element", "first member", "next member",
          "colon", "after", "end", "error"}

Parser == [tokens : Toks, nodes : Seq(NodeRecord), open : Seq(Nat), at : Place]

Kind(p, k) == p.nodes[k].type
Begins(p, k) == p.nodes[k].start
Ends(p, k) == p.nodes[k].end
Kids(p, k) == p.nodes[k].children

IsOpen(p, k) == \E i \in DOMAIN p.open : p.open[i] = k
IsTop(p, k) == p.open # <<>> /\ k = p.open[Len(p.open)]

\* A field has its key and its value, an element its value.
Full(p, k) ==
  /\ Kind(p, k) = "field" => Len(Kids(p, k)) = 2
  /\ Kind(p, k) = "element" => Len(Kids(p, k)) = 1

\* The open nodes were opened one in the other, a wrapper in a container and
\* a container in a wrapper.
Nested(p) ==
  /\ \A i \in DOMAIN p.open :
       /\ p.open[i] \in DOMAIN p.nodes
       /\ Kind(p, p.open[i]) \in ContainerType \union WrapperType
       /\ i = 1 => Kind(p, p.open[i]) \in ContainerType
       /\ i > 1 => (Kind(p, p.open[i]) \in WrapperType <=> Kind(p, p.open[i - 1]) \in ContainerType)
  /\ \A i, j \in DOMAIN p.open : i < j => p.open[i] < p.open[j]

\* Every node has its own first token, and its own last one.
Spans(p) ==
  /\ \A k \in DOMAIN p.nodes :
       /\ Begins(p, k) \in 1 .. Len(p.tokens)
       /\ ~IsOpen(p, k) => Ends(p, k) \in Begins(p, k) .. Len(p.tokens)
  /\ \A j, k \in DOMAIN p.nodes :
       j # k => /\ Begins(p, j) # Begins(p, k)
                /\ ~IsOpen(p, j) => Ends(p, j) # Begins(p, k)
                /\ ~IsOpen(p, j) /\ ~IsOpen(p, k) => Ends(p, j) # Ends(p, k)

\* Children are one behind the other, inside their parent, and closed before it.
Ordered(p) ==
  \A k \in DOMAIN p.nodes : \A i \in DOMAIN Kids(p, k) :
    LET c == Kids(p, k)[i]
    IN  /\ c \in DOMAIN p.nodes /\ k < c
        /\ Begins(p, k) < Begins(p, c)
        /\ i < Len(Kids(p, k)) => ~IsOpen(p, c)
        /\ i > 1 => Ends(p, Kids(p, k)[i - 1]) < Begins(p, c)
        /\ ~IsOpen(p, k) => ~IsOpen(p, c) /\ Ends(p, c) < Ends(p, k)
        /\ Kind(p, k) = "object" => Kind(p, c) = "field"
        /\ Kind(p, k) = "array" => Kind(p, c) = "element"

\* Only the innermost open node may still have to get a child.
Filled(p) == \A k \in DOMAIN p.nodes : IsTop(p, k) \/ Full(p, k)

\* The anchors are the ends of wrappers.
Marks(p, k) ==
  IF Kind(p, k) \notin WrapperType THEN {}
  ELSE {Begins(p, k)} \union IF IsOpen(p, k) THEN {} ELSE {Ends(p, k)}

Anchored(p) ==
  \A i \in DOMAIN p.tokens : p.tokens[i] = Anchor <=> \E k \in DOMAIN p.nodes : i \in Marks(p, k)

\* Every node but the first is the child of one other, once.
Housed(p) ==
  /\ \A k \in DOMAIN p.nodes :
       k # 1 => \E m \in DOMAIN p.nodes : \E i \in DOMAIN Kids(p, m) : Kids(p, m)[i] = k
  /\ \A m, n \in DOMAIN p.nodes : \A i \in DOMAIN Kids(p, m), j \in DOMAIN Kids(p, n) :
       Kids(p, m)[i] = Kids(p, n)[j] => m = n /\ i = j

Opening(t) == t \in {Token("{"), Token("[")}

\* A scalar is one token, a container begins with its bracket, and a wrapper
\* holds no other; the first node is none.
Shaped(p) ==
  \A k \in DOMAIN p.nodes :
    /\ Kind(p, k) \notin ContainerType \union WrapperType =>
         Kids(p, k) = <<>> /\ ~IsOpen(p, k) /\ Ends(p, k) = Begins(p, k)
    /\ Kind(p, k) \in ContainerType => Opening(p.tokens[Begins(p, k)])
    /\ Kind(p, k) \in WrapperType =>
         k # 1 /\ \A i \in DOMAIN Kids(p, k) : Kind(p, Kids(p, k)[i]) \notin WrapperType

\* A container ends behind its bracket.
Wide(p) ==
  \A k \in DOMAIN p.nodes :
    Kind(p, k) \in ContainerType /\ ~IsOpen(p, k) => Begins(p, k) < Ends(p, k)

Tree(p) ==
  /\ Nested(p) /\ Spans(p) /\ Ordered(p) /\ Filled(p) /\ Anchored(p)
  /\ Housed(p) /\ Shaped(p) /\ Wide(p)

-----------------------------------------------------------------------------
(***************************************************************************)
(* The moves of the parser.  First: a token is read that begins and ends   *)
(* no node.                                                                *)
(***************************************************************************)
LEMMA EmitIs ==
  ASSUME NEW p \in Parser, NEW t \in Tok
  PROVE  LET q == Emit(p, t)
         IN  /\ q \in Parser
             /\ q.tokens = Append(p.tokens, t) /\ q.nodes = p.nodes
             /\ q.open = p.open /\ q.at = p.at
<1>1. Append(p.tokens, t) \in Toks
  <2> HIDE DEF Tok
  <2> QED BY DEF Parser, Toks
<1> HIDE DEF Toks, NodeRecord
<1> QED BY <1>1 DEF Emit, Parser

LEMMA TokensLonger ==
  ASSUME NEW p \in Parser, NEW t \in Tok, NEW q \in Parser, q.tokens = Append(p.tokens, t)
  PROVE  /\ Len(p.tokens) \in Nat /\ Len(q.tokens) = Len(p.tokens) + 1
         /\ DOMAIN p.tokens = 1 .. Len(p.tokens) /\ DOMAIN q.tokens = 1 .. Len(p.tokens) + 1
         /\ \A i \in DOMAIN p.tokens : q.tokens[i] = p.tokens[i]
         /\ q.tokens[Len(p.tokens) + 1] = t
<1>1. p.tokens \in Seq(Tok)
  <2> HIDE DEF Tok, NodeRecord
  <2> QED BY DEF Parser, Toks
<1> HIDE DEF Tok
<1> QED BY <1>1

LEMMA NodesType ==
  ASSUME NEW p \in Parser
  PROVE  /\ Len(p.nodes) \in Nat /\ DOMAIN p.nodes = 1 .. Len(p.nodes)
         /\ Len(p.open) \in Nat /\ DOMAIN p.open = 1 .. Len(p.open)
         /\ p.open = <<>> <=> Len(p.open) = 0
         /\ \A k \in DOMAIN p.nodes :
              /\ Kind(p, k) \in NodeType
              /\ Begins(p, k) \in Nat /\ Ends(p, k) \in Nat /\ Kids(p, k) \in Seq(Nat)
              /\ Len(Kids(p, k)) \in Nat /\ DOMAIN Kids(p, k) = 1 .. Len(Kids(p, k))
<1>1. p.nodes \in Seq(NodeRecord) /\ p.open \in Seq(Nat)
  <2> HIDE DEF Toks, NodeRecord
  <2> QED BY DEF Parser
<1>2. \A k \in DOMAIN p.nodes : p.nodes[k] \in NodeRecord
  BY <1>1
<1>3. ASSUME NEW k \in DOMAIN p.nodes
      PROVE  /\ Kind(p, k) \in NodeType
             /\ Begins(p, k) \in Nat /\ Ends(p, k) \in Nat /\ Kids(p, k) \in Seq(Nat)
  <2> HIDE DEF NodeType
  <2> QED BY <1>2 DEF NodeRecord, Kind, Begins, Ends, Kids
<1>4. /\ Len(p.nodes) \in Nat /\ DOMAIN p.nodes = 1 .. Len(p.nodes)
      /\ Len(p.open) \in Nat /\ DOMAIN p.open = 1 .. Len(p.open)
      /\ p.open = <<>> <=> Len(p.open) = 0
  <2> HIDE DEF NodeRecord
  <2> QED BY <1>1
<1> QED BY <1>3, <1>4

LEMMA KidsSame ==
  ASSUME NEW p, Housed(p), NEW q, q.nodes = p.nodes
  PROVE  Housed(q)
<1>1. \A k : Kids(q, k) = Kids(p, k)
  BY DEF Kids
<1>2. ASSUME NEW k \in DOMAIN p.nodes, k # 1
      PROVE  \E m \in DOMAIN p.nodes : \E i \in DOMAIN Kids(p, m) : Kids(p, m)[i] = k
  BY <1>2 DEF Housed
<1>3. \A m, n \in DOMAIN p.nodes : \A i \in DOMAIN Kids(p, m), j \in DOMAIN Kids(p, n) :
        Kids(p, m)[i] = Kids(p, n)[j] => m = n /\ i = j
  BY DEF Housed
<1>4. \A k \in DOMAIN q.nodes :
        k # 1 => \E m \in DOMAIN q.nodes : \E i \in DOMAIN Kids(q, m) : Kids(q, m)[i] = k
  BY <1>1, <1>2
<1>5. \A m, n \in DOMAIN q.nodes : \A i \in DOMAIN Kids(q, m), j \in DOMAIN Kids(q, n) :
        Kids(q, m)[i] = Kids(q, n)[j] => m = n /\ i = j
  BY <1>1, <1>3
<1> QED BY <1>4, <1>5 DEF Housed

LEMMA Emits ==
  ASSUME NEW p \in Parser, Tree(p), NEW t \in LexTok, NEW q \in Parser,
         q.tokens = Append(p.tokens, t), q.nodes = p.nodes, q.open = p.open
  PROVE  Tree(q)
<1> DEFINE n == Len(p.tokens)
<1>0. /\ n \in Nat /\ Len(q.tokens) = n + 1
      /\ DOMAIN p.tokens = 1 .. n /\ DOMAIN q.tokens = 1 .. n + 1
      /\ \A i \in DOMAIN p.tokens : q.tokens[i] = p.tokens[i]
      /\ q.tokens[n + 1] = t /\ t # Anchor
  BY LexTokType, TokensLonger DEF Anchor
<1> HIDE DEF n
<1>1. Nested(q) /\ Ordered(q) /\ Filled(q)
  <2>1. Nested(q)
    BY SMTT(30) DEF Tree, Nested, Kind
  <2>2. Ordered(q)
    BY SMTT(30) DEF Tree, Ordered, Kind, Kids, Begins, Ends, IsOpen
  <2>3. Filled(q)
    BY SMTT(30) DEF Tree, Filled, Full, Kind, Kids, IsOpen, IsTop
  <2> QED BY <2>1, <2>2, <2>3
<1>2. /\ \A k : IsOpen(q, k) <=> IsOpen(p, k)
      /\ \A k : Begins(q, k) = Begins(p, k) /\ Ends(q, k) = Ends(p, k) /\ Kind(q, k) = Kind(p, k)
  BY DEF IsOpen, Begins, Ends, Kind
<1>3. Spans(q)
  BY <1>0, <1>2 DEF Tree, Spans, n
<1>4. \A k : Marks(q, k) = Marks(p, k)
  BY Zenon DEF Marks, Kind, Begins, Ends, IsOpen
<1>5. \A k \in DOMAIN p.nodes : Marks(p, k) \subseteq 1 .. n
  BY <1>0 DEF Tree, Spans, Marks, n
<1>6. Anchored(q)
  <2>1. ASSUME NEW i \in 1 .. n + 1
        PROVE  q.tokens[i] = Anchor <=> \E k \in DOMAIN p.nodes : i \in Marks(p, k)
    <3>1. CASE i \in 1 .. n
      BY <1>0, <3>1 DEF Tree, Anchored
    <3>2. CASE i = n + 1
      BY <1>0, <1>5, <3>2
    <3> QED BY <1>0, <3>1, <3>2
  <2> QED BY <1>0, <1>4, <2>1 DEF Anchored
<1>7. Housed(q)
  BY KidsSame DEF Tree
<1>8. Shaped(q)
  <2>1. \A k \in DOMAIN p.nodes : q.tokens[Begins(q, k)] = p.tokens[Begins(p, k)]
    BY <1>0, <1>2 DEF Tree, Spans, n
  <2>2. \A k : Kids(q, k) = Kids(p, k)
    BY DEF Kids
  <2> QED BY <1>2, <2>1, <2>2 DEF Tree, Shaped
<1>9. Wide(q)
  BY <1>2 DEF Tree, Wide
<1> QED BY <1>1, <1>3, <1>6, <1>7, <1>8, <1>9 DEF Tree

-----------------------------------------------------------------------------
(***************************************************************************)
(* Second: the innermost open node ends with a token.                      *)
(***************************************************************************)
Top(p) == p.open[Len(p.open)]

LEMMA ShutIs ==
  ASSUME NEW p \in Parser, p.open # <<>>, Top(p) \in DOMAIN p.nodes
  PROVE  LET q == Shut(p)
         IN  /\ q \in Parser
             /\ q.tokens = p.tokens /\ q.at = p.at
             /\ q.open = SubSeq(p.open, 1, Len(p.open) - 1)
             /\ DOMAIN q.nodes = DOMAIN p.nodes
             /\ \A k \in DOMAIN p.nodes :
                  /\ Kind(q, k) = Kind(p, k) /\ Begins(q, k) = Begins(p, k) /\ Kids(q, k) = Kids(p, k)
                  /\ Ends(q, k) = IF k = Top(p) THEN Len(p.tokens) ELSE Ends(p, k)
<1> DEFINE q == Shut(p)
           x == p.nodes[Top(p)]
           shut == [x EXCEPT !.end = Len(p.tokens)]
           nodes == [p.nodes EXCEPT ![Top(p)] = shut]
           front == SubSeq(p.open, 1, Len(p.open) - 1)
<1>1. p.nodes \in Seq(NodeRecord) /\ p.open \in Seq(Nat) /\ p.tokens \in Seq(Tok)
  <2> HIDE DEF NodeRecord, Tok
  <2> QED BY DEF Parser, Toks
<1>2. Len(p.tokens) \in Nat
  <2> HIDE DEF Tok
  <2> QED BY <1>1
<1>3. x \in NodeRecord
  <2> HIDE DEF NodeRecord
  <2> QED BY <1>1
<1> HIDE DEF x
<1>4. /\ shut \in NodeRecord
      /\ shut.type = x.type /\ shut.start = x.start /\ shut.children = x.children
      /\ shut.end = Len(p.tokens)
  <2> HIDE DEF NodeType
  <2> QED BY <1>2, <1>3 DEF NodeRecord
<1> HIDE DEF shut
<1>5. /\ nodes \in Seq(NodeRecord) /\ DOMAIN nodes = DOMAIN p.nodes
      /\ \A k \in DOMAIN p.nodes : nodes[k] = IF k = Top(p) THEN shut ELSE p.nodes[k]
  <2> HIDE DEF NodeRecord
  <2> QED BY <1>1, <1>4
<1>6. front \in Seq(Nat)
  BY <1>1
<1>7. q = [p EXCEPT !.nodes = nodes, !.open = front]
  <2> HIDE DEF Top
  <2>1. q = [p EXCEPT !.nodes[Top(p)].end = Len(p.tokens), !.open = Front(@)]
    BY DEF Shut, Last, Top
  <2>2. Front(p.open) = front
    BY DEF Front
  <2> QED BY <2>1, <2>2 DEF Parser, shut, x
<1> HIDE DEF nodes, front
<1>8. q \in Parser /\ q.tokens = p.tokens /\ q.at = p.at /\ q.open = front /\ q.nodes = nodes
  <2> HIDE DEF q, NodeRecord, Toks, Place
  <2> QED BY <1>5, <1>6, <1>7 DEF Parser
<1> HIDE DEF q
<1>9. ASSUME NEW k \in DOMAIN p.nodes
      PROVE  /\ Kind(q, k) = Kind(p, k) /\ Begins(q, k) = Begins(p, k) /\ Kids(q, k) = Kids(p, k)
             /\ Ends(q, k) = IF k = Top(p) THEN Len(p.tokens) ELSE Ends(p, k)
  <2>1. CASE k = Top(p)
    BY <1>4, <1>5, <1>8, <2>1 DEF Kind, Begins, Kids, Ends, x
  <2>2. CASE k # Top(p)
    BY <1>5, <1>8, <2>2 DEF Kind, Begins, Kids, Ends
  <2> QED BY <2>1, <2>2
<1> QED BY <1>5, <1>8, <1>9 DEF q, front

\* The innermost open node is a node, and it alone is closed by Shut.
LEMMA TopIs ==
  ASSUME NEW p \in Parser, Nested(p), p.open # <<>>
  PROVE  /\ Top(p) \in DOMAIN p.nodes /\ IsOpen(p, Top(p)) /\ IsTop(p, Top(p))
         /\ Kind(p, Top(p)) \in ContainerType \union WrapperType
         /\ \A k : IsOpen(p, k) => k <= Top(p)
         /\ \A k : (\E i \in 1 .. Len(p.open) - 1 : p.open[i] = k) <=> IsOpen(p, k) /\ k # Top(p)
<1>1. p.open \in Seq(Nat) /\ Len(p.open) \in Nat /\ Len(p.open) # 0 /\ DOMAIN p.open = 1 .. Len(p.open)
  BY NodesType DEF Parser
<1>2. Len(p.open) \in DOMAIN p.open /\ \A i \in DOMAIN p.open : p.open[i] \in Nat
  BY <1>1
<1>3. \A i \in DOMAIN p.open : i # Len(p.open) => p.open[i] < Top(p)
  BY <1>1, <1>2 DEF Nested, Top
<1>4. Top(p) \in DOMAIN p.nodes /\ IsOpen(p, Top(p)) /\ IsTop(p, Top(p))
  BY <1>1, <1>2 DEF Nested, Top, IsOpen, IsTop
<1>5. Kind(p, Top(p)) \in ContainerType \union WrapperType
  BY <1>2 DEF Nested, Top
<1>6. ASSUME NEW k, IsOpen(p, k) PROVE k <= Top(p)
  <2>1. PICK i \in DOMAIN p.open : p.open[i] = k
    BY <1>6 DEF IsOpen
  <2> QED BY <1>2, <1>3, <2>1 DEF Top
<1>7. ASSUME NEW k PROVE (\E i \in 1 .. Len(p.open) - 1 : p.open[i] = k) <=> IsOpen(p, k) /\ k # Top(p)
  <2>1. ASSUME NEW i \in 1 .. Len(p.open) - 1, p.open[i] = k PROVE IsOpen(p, k) /\ k # Top(p)
    <3>1. i \in DOMAIN p.open /\ i # Len(p.open)
      BY <1>1
    <3>2. p.open[i] < Top(p) /\ p.open[i] \in Nat /\ Top(p) \in Nat
      BY <1>2, <1>3, <3>1 DEF Top
    <3> QED BY <2>1, <3>1, <3>2 DEF IsOpen
  <2>2. ASSUME NEW i \in DOMAIN p.open, p.open[i] = k, k # Top(p)
        PROVE  i \in 1 .. Len(p.open) - 1
    BY <1>1, <2>2 DEF Top
  <2> QED BY <2>1, <2>2 DEF IsOpen
<1> QED BY <1>4, <1>5, <1>6, <1>7

LEMMA Shuts ==
  ASSUME NEW p \in Parser, Tree(p), p.open # <<>>, Full(p, Top(p)),
         NEW t \in Tok, t = Anchor <=> Kind(p, Top(p)) \in WrapperType
  PROVE  LET q == Shut(Emit(p, t))
         IN  /\ q \in Parser /\ Tree(q) /\ q.tokens = Append(p.tokens, t) /\ q.at = p.at
             /\ q.open = SubSeq(p.open, 1, Len(p.open) - 1)
             /\ \A k \in DOMAIN p.nodes :
                  k \in DOMAIN q.nodes /\ Kind(q, k) = Kind(p, k) /\ Kids(q, k) = Kids(p, k)
<1> DEFINE e == Emit(p, t)
           q == Shut(e)
           n == Len(p.tokens)
           m == Len(p.nodes)
           h == Len(p.open)
           top == Top(p)
<1>1. e \in Parser /\ e.tokens = Append(p.tokens, t) /\ e.nodes = p.nodes /\ e.open = p.open /\ e.at = p.at
  BY EmitIs
<1>2. /\ n \in Nat /\ Len(e.tokens) = n + 1
      /\ DOMAIN p.tokens = 1 .. n /\ DOMAIN e.tokens = 1 .. n + 1
      /\ \A i \in DOMAIN p.tokens : e.tokens[i] = p.tokens[i]
      /\ e.tokens[n + 1] = t
  <2> HIDE DEF e
  <2> QED BY <1>1, TokensLonger
<1>3. /\ top \in DOMAIN p.nodes /\ IsOpen(p, top) /\ IsTop(p, top)
      /\ Kind(p, top) \in ContainerType \union WrapperType
      /\ \A k : IsOpen(p, k) => k <= top
      /\ \A k : (\E i \in 1 .. h - 1 : p.open[i] = k) <=> IsOpen(p, k) /\ k # top
  BY TopIs DEF Tree
<1>4. /\ q \in Parser /\ q.tokens = e.tokens /\ q.at = p.at /\ q.open = SubSeq(p.open, 1, h - 1)
      /\ DOMAIN q.nodes = DOMAIN p.nodes
      /\ \A k \in DOMAIN p.nodes :
           /\ Kind(q, k) = Kind(p, k) /\ Begins(q, k) = Begins(p, k) /\ Kids(q, k) = Kids(p, k)
           /\ Ends(q, k) = IF k = top THEN n + 1 ELSE Ends(p, k)
  <2> HIDE DEF e
  <2>1. Top(e) = top /\ \A k : Kind(e, k) = Kind(p, k) /\ Begins(e, k) = Begins(p, k)
                               /\ Kids(e, k) = Kids(p, k) /\ Ends(e, k) = Ends(p, k)
    BY <1>1 DEF Top, Kind, Begins, Kids, Ends
  <2> QED BY <1>1, <1>2, <1>3, <2>1, ShutIs
<1> HIDE DEF e, q
<1>5. /\ m \in Nat /\ DOMAIN p.nodes = 1 .. m
      /\ h \in Nat /\ h # 0 /\ DOMAIN p.open = 1 .. h
      /\ \A k \in DOMAIN p.nodes :
           /\ Begins(p, k) \in Nat /\ Ends(p, k) \in Nat
           /\ Len(Kids(p, k)) \in Nat /\ DOMAIN Kids(p, k) = 1 .. Len(Kids(p, k))
  BY NodesType
<1> HIDE DEF n, m, h, top
<1>6. /\ DOMAIN q.open = 1 .. h - 1 /\ Len(q.open) = h - 1
      /\ \A i \in 1 .. h - 1 : q.open[i] = p.open[i] /\ i \in DOMAIN p.open
  <2>1. p.open \in Seq(Nat) /\ h = Len(p.open)
    BY DEF Parser, h
  <2> QED BY <1>4, <1>5, <2>1
<1>7. ASSUME NEW k PROVE IsOpen(q, k) <=> IsOpen(p, k) /\ k # top
  <2>1. IsOpen(q, k) <=> \E i \in 1 .. h - 1 : q.open[i] = k
    BY <1>6 DEF IsOpen
  <2>2. IsOpen(q, k) <=> \E i \in 1 .. h - 1 : p.open[i] = k
    BY <1>6, <2>1
  <2> QED BY <1>3, <2>2
<1>8. Nested(q)
  <2>1. /\ \A i \in DOMAIN p.open :
             /\ p.open[i] \in DOMAIN p.nodes
             /\ Kind(p, p.open[i]) \in ContainerType \union WrapperType
             /\ i = 1 => Kind(p, p.open[i]) \in ContainerType
             /\ i > 1 => (Kind(p, p.open[i]) \in WrapperType <=> Kind(p, p.open[i - 1]) \in ContainerType)
        /\ \A i, j \in DOMAIN p.open : i < j => p.open[i] < p.open[j]
    BY DEF Tree, Nested
  <2>2. ASSUME NEW i \in 1 .. h - 1
        PROVE  /\ q.open[i] \in DOMAIN q.nodes
               /\ Kind(q, q.open[i]) \in ContainerType \union WrapperType
               /\ i = 1 => Kind(q, q.open[i]) \in ContainerType
               /\ i > 1 => (Kind(q, q.open[i]) \in WrapperType <=> Kind(q, q.open[i - 1]) \in ContainerType)
    <3>1. Kind(q, q.open[i]) = Kind(p, p.open[i])
      BY <1>4, <1>6, <2>1
    <3>2. i > 1 => i - 1 \in 1 .. h - 1 /\ Kind(q, q.open[i - 1]) = Kind(p, p.open[i - 1])
      <4>1. SUFFICES ASSUME i > 1
                     PROVE  i - 1 \in 1 .. h - 1 /\ Kind(q, q.open[i - 1]) = Kind(p, p.open[i - 1])
        OBVIOUS
      <4>2. i - 1 \in 1 .. h - 1
        BY <1>5, <4>1
      <4>3. q.open[i - 1] = p.open[i - 1] /\ p.open[i - 1] \in DOMAIN p.nodes
        BY <1>6, <2>1, <4>2
      <4> QED BY <1>4, <4>2, <4>3
    <3> QED BY <1>4, <1>6, <2>1, <3>1, <3>2
  <2>3. \A i, j \in 1 .. h - 1 : i < j => q.open[i] < q.open[j]
    BY <1>6, <2>1
  <2> QED BY <1>6, <2>2, <2>3 DEF Nested
<1>9. Spans(q)
  <2>1. ASSUME NEW k \in DOMAIN p.nodes
        PROVE  /\ Begins(q, k) \in 1 .. n + 1
               /\ ~IsOpen(q, k) => Ends(q, k) \in Begins(q, k) .. n + 1
    BY <1>2, <1>4, <1>5, <1>7 DEF Tree, Spans, n
  <2>2. ASSUME NEW j \in DOMAIN p.nodes, NEW k \in DOMAIN p.nodes, j # k
        PROVE  /\ Begins(q, j) # Begins(q, k)
               /\ ~IsOpen(q, j) => Ends(q, j) # Begins(q, k)
               /\ ~IsOpen(q, j) /\ ~IsOpen(q, k) => Ends(q, j) # Ends(q, k)
    <3>1. /\ Begins(p, j) # Begins(p, k)
          /\ ~IsOpen(p, j) => Ends(p, j) # Begins(p, k)
          /\ ~IsOpen(p, j) /\ ~IsOpen(p, k) => Ends(p, j) # Ends(p, k)
      BY <2>2 DEF Tree, Spans
    <3>2. /\ Begins(p, j) \in 1 .. n /\ Begins(p, k) \in 1 .. n
          /\ ~IsOpen(p, j) => Ends(p, j) \in 1 .. n
          /\ ~IsOpen(p, k) => Ends(p, k) \in 1 .. n
      BY <1>2, <1>5 DEF Tree, Spans, n
    <3>3. Begins(q, j) = Begins(p, j) /\ Begins(q, k) = Begins(p, k)
      BY <1>4
    <3>4. CASE j = top
      <4>1. Ends(q, j) = n + 1 /\ Ends(q, k) = Ends(p, k) /\ (IsOpen(q, k) <=> IsOpen(p, k))
        BY <1>4, <1>7, <2>2, <3>4
      <4> QED BY <1>2, <3>1, <3>2, <3>3, <4>1
    <3>5. CASE k = top
      <4>1. Ends(q, k) = n + 1 /\ Ends(q, j) = Ends(p, j) /\ (IsOpen(q, j) <=> IsOpen(p, j))
        BY <1>4, <1>7, <2>2, <3>5
      <4> QED BY <1>2, <3>1, <3>2, <3>3, <4>1
    <3>6. CASE j # top /\ k # top
      BY <1>4, <1>7, <3>1, <3>3, <3>6
    <3> QED BY <3>4, <3>5, <3>6
  <2> QED BY <1>2, <1>4, <2>1, <2>2 DEF Spans
<1>10. Ordered(q)
  <2>1. \A k \in DOMAIN p.nodes : ~IsOpen(p, k) => Ends(p, k) \in 1 .. n /\ Begins(p, k) \in 1 .. n
    BY <1>2, <1>5 DEF Tree, Spans, n
  <2>2. ASSUME NEW k \in DOMAIN p.nodes, NEW i \in DOMAIN Kids(p, k), NEW c, c = Kids(p, k)[i]
        PROVE  /\ c \in DOMAIN p.nodes /\ k < c
               /\ Begins(q, k) < Begins(q, c)
               /\ i < Len(Kids(p, k)) => ~IsOpen(q, c)
               /\ i > 1 => Ends(q, Kids(p, k)[i - 1]) < Begins(q, c)
               /\ ~IsOpen(q, k) => ~IsOpen(q, c) /\ Ends(q, c) < Ends(q, k)
               /\ Kind(q, k) = "object" => Kind(q, c) = "field"
               /\ Kind(q, k) = "array" => Kind(q, c) = "element"
    <3>1. /\ c \in DOMAIN p.nodes /\ k < c
          /\ Begins(p, k) < Begins(p, c)
          /\ i < Len(Kids(p, k)) => ~IsOpen(p, c)
          /\ i > 1 => Ends(p, Kids(p, k)[i - 1]) < Begins(p, c)
          /\ ~IsOpen(p, k) => ~IsOpen(p, c) /\ Ends(p, c) < Ends(p, k)
          /\ Kind(p, k) = "object" => Kind(p, c) = "field"
          /\ Kind(p, k) = "array" => Kind(p, c) = "element"
      BY <2>2 DEF Tree, Ordered
    <3>2. ~IsOpen(q, k) => ~IsOpen(q, c) /\ Ends(q, c) < Ends(q, k)
      <4>1. CASE k = top
        <5>1. ~IsOpen(p, c)
          BY <1>3, <1>5, <3>1, <4>1
        <5>2. c # top
          BY <1>5, <3>1, <4>1
        <5>3. Ends(q, c) = Ends(p, c) /\ Ends(q, k) = n + 1 /\ ~IsOpen(q, c)
          BY <1>4, <1>7, <3>1, <4>1, <5>1, <5>2
        <5>4. Ends(p, c) \in 1 .. n
          BY <2>1, <3>1, <5>1
        <5> QED BY <1>2, <5>3, <5>4
      <4>2. CASE k # top
        <5>1. ~IsOpen(q, k) => ~IsOpen(p, k)
          BY <1>7, <4>2
        <5> QED BY <1>3, <1>4, <1>7, <3>1, <4>2, <5>1
      <4> QED BY <4>1, <4>2
    <3>3. i > 1 => Ends(q, Kids(p, k)[i - 1]) < Begins(q, c)
      <4>1. SUFFICES ASSUME i > 1 PROVE Ends(q, Kids(p, k)[i - 1]) < Begins(q, c)
        OBVIOUS
      <4>2. i - 1 \in DOMAIN Kids(p, k) /\ i - 1 < Len(Kids(p, k))
        BY <1>5, <4>1
      <4>3. Kids(p, k)[i - 1] \in DOMAIN p.nodes /\ ~IsOpen(p, Kids(p, k)[i - 1])
        BY <4>2 DEF Tree, Ordered
      <4> QED BY <1>3, <1>4, <3>1, <4>1, <4>3
    <3> QED BY <1>4, <1>7, <3>1, <3>2, <3>3
  <2> QED BY <1>4, <2>2 DEF Ordered
<1>11. Filled(q)
  <2>1. ASSUME NEW k \in DOMAIN p.nodes PROVE Full(q, k)
    <3>1. IsTop(p, k) <=> k = top
      BY DEF IsTop, top, Top
    <3>2. Full(p, k)
      BY <3>1 DEF Tree, Filled, top
    <3> QED BY <1>4, <3>2 DEF Full
  <2> QED BY <1>4, <2>1 DEF Filled
<1>12. Anchored(q)
  <2>1. \A k \in DOMAIN p.nodes : Marks(p, k) \subseteq 1 .. n
    BY <1>2, <1>5 DEF Tree, Spans, Marks, n
  <2>2. ASSUME NEW k \in DOMAIN p.nodes, k # top PROVE Marks(q, k) = Marks(p, k)
    <3>1. IsOpen(q, k) <=> IsOpen(p, k)
      BY <1>7, <2>2
    <3>2. Kind(q, k) = Kind(p, k) /\ Begins(q, k) = Begins(p, k) /\ Ends(q, k) = Ends(p, k)
      BY <1>4, <2>2
    <3>3. CASE IsOpen(p, k)
      BY <3>1, <3>2, <3>3 DEF Marks
    <3>4. CASE ~IsOpen(p, k)
      BY <3>1, <3>2, <3>4 DEF Marks
    <3> QED BY <3>3, <3>4
  <2>3. Marks(q, top) = IF Kind(p, top) \in WrapperType THEN Marks(p, top) \union {n + 1} ELSE {}
    <3>1. ~IsOpen(q, top)
      BY <1>7
    <3>2. Kind(q, top) = Kind(p, top) /\ Begins(q, top) = Begins(p, top) /\ Ends(q, top) = n + 1
      BY <1>3, <1>4
    <3> QED BY <1>3, <3>1, <3>2 DEF Marks
  <2>4. Marks(p, top) \subseteq Marks(q, top)
    BY <2>3 DEF Marks
  <2>5. ASSUME NEW i \in 1 .. n + 1
        PROVE  q.tokens[i] = Anchor <=> \E k \in DOMAIN p.nodes : i \in Marks(q, k)
    <3>1. CASE i \in 1 .. n
      <4>1. q.tokens[i] = Anchor <=> \E k \in DOMAIN p.nodes : i \in Marks(p, k)
        BY <1>2, <1>4, <3>1 DEF Tree, Anchored
      <4>2. i # n + 1
        BY <1>2, <3>1
      <4>3. \A k \in DOMAIN p.nodes : i \in Marks(p, k) <=> i \in Marks(q, k)
        BY <2>2, <2>3, <2>4, <4>2
      <4> QED BY <4>1, <4>3
    <3>2. CASE i = n + 1
      <4>1. q.tokens[i] = t
        BY <1>2, <1>4, <3>2
      <4>2. \A k \in DOMAIN p.nodes : i \notin Marks(p, k)
        BY <1>2, <2>1, <3>2
      <4>3. \A k \in DOMAIN p.nodes : i \in Marks(q, k) <=> k = top /\ Kind(p, top) \in WrapperType
        BY <2>2, <2>3, <3>2, <4>2
      <4> QED BY <1>3, <4>1, <4>3 DEF top
    <3> QED BY <1>2, <3>1, <3>2
  <2> QED BY <1>2, <1>4, <2>5 DEF Anchored
<1>13. Housed(q)
  BY <1>4 DEF Tree, Housed
<1>14. Shaped(q)
  <2>1. ASSUME NEW k \in DOMAIN p.nodes PROVE q.tokens[Begins(q, k)] = p.tokens[Begins(p, k)]
    <3>1. Begins(q, k) = Begins(p, k) /\ Begins(p, k) \in 1 .. n
      BY <1>4 DEF Tree, Spans, n
    <3> QED BY <1>2, <1>4, <3>1
  <2>2. ASSUME NEW k \in DOMAIN p.nodes, Kind(p, k) \notin ContainerType \union WrapperType
        PROVE  Kids(q, k) = <<>> /\ ~IsOpen(q, k) /\ Ends(q, k) = Begins(q, k)
    <3>1. k # top
      BY <1>3, <2>2
    <3>2. Kids(p, k) = <<>> /\ ~IsOpen(p, k) /\ Ends(p, k) = Begins(p, k)
      BY <2>2 DEF Tree, Shaped
    <3> QED BY <1>4, <1>7, <3>1, <3>2
  <2>3. ASSUME NEW k \in DOMAIN p.nodes, Kind(p, k) \in WrapperType
        PROVE  k # 1 /\ \A i \in DOMAIN Kids(q, k) : Kind(q, Kids(q, k)[i]) \notin WrapperType
    <3>1. k # 1 /\ \A i \in DOMAIN Kids(p, k) : Kind(p, Kids(p, k)[i]) \notin WrapperType
      BY <2>3 DEF Tree, Shaped
    <3>2. \A i \in DOMAIN Kids(p, k) : Kids(p, k)[i] \in DOMAIN p.nodes
      BY DEF Tree, Ordered
    <3> QED BY <1>4, <3>1, <3>2
  <2>4. \A k \in DOMAIN p.nodes : Kind(p, k) \in ContainerType => Opening(p.tokens[Begins(p, k)])
    BY DEF Tree, Shaped
  <2> HIDE DEF Opening
  <2> QED BY <1>4, <2>1, <2>2, <2>3, <2>4 DEF Shaped
<1>15. Wide(q)
  <2>1. \A k \in DOMAIN p.nodes : Begins(p, k) <= n
    BY <1>2 DEF Tree, Spans, n
  <2>2. \A k \in DOMAIN p.nodes :
          Kind(p, k) \in ContainerType /\ ~IsOpen(p, k) => Begins(p, k) < Ends(p, k)
    BY DEF Tree, Wide
  <2> QED BY <1>2, <1>4, <1>5, <1>7, <2>1, <2>2 DEF Wide
<1>16. Tree(q)
  BY <1>8, <1>9, <1>10, <1>11, <1>12, <1>13, <1>14, <1>15 DEF Tree
<1> QED BY <1>1, <1>4, <1>16 DEF q, e, h

-----------------------------------------------------------------------------
(***************************************************************************)
(* Third: a node begins with a token, in the innermost open node.          *)
(***************************************************************************)
\* q is p with one more node, the child of the innermost open one.
Adds(p, q, type, t) ==
  LET new == Len(p.nodes) + 1
  IN  /\ q.tokens = Append(p.tokens, t)
      /\ DOMAIN q.nodes = 1 .. new
      /\ Kind(q, new) = type /\ Kids(q, new) = <<>>
      /\ Begins(q, new) = Len(p.tokens) + 1 /\ Ends(q, new) = Len(p.tokens) + 1
      /\ \A k \in DOMAIN p.nodes :
           /\ Kind(q, k) = Kind(p, k) /\ Begins(q, k) = Begins(p, k) /\ Ends(q, k) = Ends(p, k)
           /\ Kids(q, k) = IF IsTop(p, k) THEN Append(Kids(p, k), new) ELSE Kids(p, k)

LEMMA OpenIs ==
  ASSUME NEW p \in Parser, NEW type \in NodeType, NEW t \in Tok
  PROVE  LET q == Emit(Open(p, type), t)
         IN  /\ q \in Parser /\ Adds(p, q, type, t)
             /\ q.open = Append(p.open, Len(p.nodes) + 1) /\ q.at = p.at
<1> DEFINE o == Open(p, type)
           m == Len(p.nodes)
           n == Len(p.tokens)
           More(x) == [x EXCEPT !.children = Append(@, m + 1)]
           old == [i \in DOMAIN p.nodes |-> IF IsTop(p, i) THEN More(p.nodes[i]) ELSE p.nodes[i]]
           new == [type |-> type, start |-> n + 1, end |-> n + 1, children |-> <<>>]
           nodes == Append(old, new)
           open == Append(p.open, m + 1)
<1>1. p.nodes \in Seq(NodeRecord) /\ p.open \in Seq(Nat) /\ p.tokens \in Seq(Tok)
  <2> HIDE DEF NodeRecord, Tok
  <2> QED BY DEF Parser, Toks
<1>2. m \in Nat /\ n \in Nat /\ DOMAIN p.nodes = 1 .. m
  <2> HIDE DEF NodeRecord, Tok
  <2> QED BY <1>1
<1> HIDE DEF m, n
<1>3. ASSUME NEW x \in NodeRecord
      PROVE  /\ More(x) \in NodeRecord
             /\ More(x).type = x.type /\ More(x).start = x.start /\ More(x).end = x.end
             /\ More(x).children = Append(x.children, m + 1)
  <2> HIDE DEF NodeType
  <2> QED BY <1>2 DEF NodeRecord
<1>4. new \in NodeRecord
  <2> HIDE DEF NodeType
  <2> QED BY <1>2 DEF NodeRecord
<1> HIDE DEF More, new
<1>5. old \in Seq(NodeRecord) /\ Len(old) = m
  <2>1. \A i \in 1 .. m : old[i] \in NodeRecord
    <3> HIDE DEF NodeRecord
    <3> QED BY <1>1, <1>2, <1>3
  <2> HIDE DEF NodeRecord
  <2> QED BY <1>2, <2>1
<1>6. /\ nodes \in Seq(NodeRecord) /\ DOMAIN nodes = 1 .. m + 1 /\ nodes[m + 1] = new
      /\ \A i \in 1 .. m : nodes[i] = old[i]
  <2> HIDE DEF NodeRecord, old
  <2> QED BY <1>2, <1>4, <1>5
<1>7. open \in Seq(Nat)
  BY <1>1, <1>2
<1>8. o = [p EXCEPT !.open = open, !.nodes = nodes]
  <2>1. \A i : (p.open # <<>> /\ i = Last(p.open)) <=> IsTop(p, i)
    BY DEF IsTop, Last
  <2>2. old = [i \in DOMAIN p.nodes |-> IF p.open # <<>> /\ i = Last(p.open)
                 THEN [p.nodes[i] EXCEPT !.children = Append(@, m + 1)] ELSE p.nodes[i]]
    BY <2>1 DEF More
  <2> HIDE DEF old
  <2> QED BY <2>2 DEF Open, new, m, n, Parser
<1> HIDE DEF nodes, open
<1>9. o \in Parser /\ o.tokens = p.tokens /\ o.at = p.at /\ o.open = open /\ o.nodes = nodes
  <2> HIDE DEF o, NodeRecord, Toks, Place
  <2> QED BY <1>6, <1>7, <1>8 DEF Parser
<1> HIDE DEF o
<1> DEFINE q == Emit(o, t)
<1>10. q \in Parser /\ q.tokens = Append(p.tokens, t) /\ q.nodes = nodes /\ q.open = open /\ q.at = p.at
  BY <1>9, EmitIs
<1> HIDE DEF q
<1>11. ASSUME NEW k \in 1 .. m
       PROVE  /\ Kind(q, k) = Kind(p, k) /\ Begins(q, k) = Begins(p, k) /\ Ends(q, k) = Ends(p, k)
              /\ Kids(q, k) = IF IsTop(p, k) THEN Append(Kids(p, k), m + 1) ELSE Kids(p, k)
  <2>1. q.nodes[k] = IF IsTop(p, k) THEN More(p.nodes[k]) ELSE p.nodes[k]
    BY <1>2, <1>6, <1>10
  <2>2. p.nodes[k] \in NodeRecord
    BY <1>1, <1>2
  <2> HIDE DEF NodeRecord
  <2> QED BY <1>3, <2>1, <2>2 DEF Kind, Begins, Ends, Kids
<1>12. /\ Kind(q, m + 1) = type /\ Kids(q, m + 1) = <<>>
       /\ Begins(q, m + 1) = n + 1 /\ Ends(q, m + 1) = n + 1
  BY <1>6, <1>10 DEF Kind, Begins, Ends, Kids, new
<1>13. Adds(p, q, type, t)
  BY <1>2, <1>6, <1>10, <1>11, <1>12 DEF Adds, m, n
<1> QED BY <1>10, <1>13 DEF q, o, open, m

LEMMA LeafIs ==
  ASSUME NEW p \in Parser, NEW type \in NodeType, NEW t \in Tok
  PROVE  LET q == Leaf(p, type, t)
         IN  q \in Parser /\ Adds(p, q, type, t) /\ q.open = p.open /\ q.at = p.at
<1> DEFINE o == Emit(Open(p, type), t)
           q == Shut(o)
           new == Len(p.nodes) + 1
<1>1. o \in Parser /\ Adds(p, o, type, t) /\ o.open = Append(p.open, new) /\ o.at = p.at
  BY OpenIs
<1> HIDE DEF o
<1>2. p.open \in Seq(Nat) /\ Len(p.nodes) \in Nat /\ DOMAIN p.nodes = 1 .. Len(p.nodes)
  BY NodesType DEF Parser
<1>3. /\ o.open # <<>> /\ Top(o) = new
      /\ SubSeq(o.open, 1, Len(o.open) - 1) = p.open
  <2>1. new \in Nat
    BY <1>2
  <2> HIDE DEF new
  <2> QED BY <1>1, <1>2, <2>1 DEF Top
<1>4. new \in DOMAIN o.nodes
  BY <1>1, <1>2 DEF Adds
<1>5. /\ q \in Parser
      /\ q.tokens = o.tokens /\ q.at = o.at
      /\ q.open = p.open
      /\ DOMAIN q.nodes = DOMAIN o.nodes
      /\ \A k \in DOMAIN o.nodes :
           /\ Kind(q, k) = Kind(o, k) /\ Begins(q, k) = Begins(o, k) /\ Kids(q, k) = Kids(o, k)
           /\ Ends(q, k) = IF k = new THEN Len(o.tokens) ELSE Ends(o, k)
  BY <1>1, <1>3, <1>4, ShutIs
<1> HIDE DEF q
<1>6. Len(o.tokens) = Len(p.tokens) + 1
  BY <1>1, TokensLonger DEF Adds
<1>7. Adds(p, q, type, t)
  <2>1. \A k \in DOMAIN p.nodes : k \in DOMAIN o.nodes /\ k # new
    BY <1>1, <1>2 DEF Adds
  <2> QED BY <1>1, <1>4, <1>5, <1>6, <2>1 DEF Adds
<1> QED BY <1>1, <1>5, <1>7 DEF Leaf, q, o

\* A node may begin in the innermost open one, where it stays open ...
MayOpen(p, type) ==
  /\ type \in ContainerType \union WrapperType
  /\ p.open = <<>> => type \in ContainerType /\ p.nodes = <<>>
  /\ p.open # <<>> =>
       /\ type \in WrapperType <=> Kind(p, Top(p)) \in ContainerType
       /\ Kind(p, Top(p)) = "object" => type = "field"
       /\ Kind(p, Top(p)) = "array" => type = "element"
       /\ Kind(p, Top(p)) = "field" => Len(Kids(p, Top(p))) = 1
       /\ Kind(p, Top(p)) = "element" => Len(Kids(p, Top(p))) = 0

\* ... or is a leaf.
MayLeaf(p, type) ==
  /\ type \in NodeType \ (ContainerType \union WrapperType)
  /\ IF p.open = <<>> THEN p.nodes = <<>> ELSE Kind(p, Top(p)) \in WrapperType

LEMMA Grows ==
  ASSUME NEW p \in Parser, Tree(p), NEW q \in Parser, NEW type \in NodeType, NEW t \in Tok,
         t = Anchor <=> type \in WrapperType, type \in ContainerType => Opening(t),
         Adds(p, q, type, t),
         \/ MayOpen(p, type) /\ q.open = Append(p.open, Len(p.nodes) + 1)
         \/ MayLeaf(p, type) /\ q.open = p.open
  PROVE  Tree(q)
<1> DEFINE n == Len(p.tokens)
           m == Len(p.nodes)
           h == Len(p.open)
           new == m + 1
<1>1. /\ n \in Nat /\ Len(q.tokens) = n + 1
      /\ DOMAIN p.tokens = 1 .. n /\ DOMAIN q.tokens = 1 .. n + 1
      /\ \A i \in DOMAIN p.tokens : q.tokens[i] = p.tokens[i]
      /\ q.tokens[n + 1] = t
  BY TokensLonger DEF Adds
<1>2. /\ m \in Nat /\ DOMAIN p.nodes = 1 .. m
      /\ h \in Nat /\ DOMAIN p.open = 1 .. h /\ (p.open = <<>> <=> h = 0)
      /\ \A k \in DOMAIN p.nodes :
           /\ Begins(p, k) \in Nat /\ Ends(p, k) \in Nat
           /\ Kids(p, k) \in Seq(Nat) /\ Len(Kids(p, k)) \in Nat /\ DOMAIN Kids(p, k) = 1 .. Len(Kids(p, k))
  BY NodesType
<1>3. /\ DOMAIN q.nodes = 1 .. new
      /\ Kind(q, new) = type /\ Kids(q, new) = <<>>
      /\ Begins(q, new) = n + 1 /\ Ends(q, new) = n + 1
      /\ \A k \in 1 .. m :
           /\ Kind(q, k) = Kind(p, k) /\ Begins(q, k) = Begins(p, k) /\ Ends(q, k) = Ends(p, k)
           /\ Kids(q, k) = IF IsTop(p, k) THEN Append(Kids(p, k), new) ELSE Kids(p, k)
  BY <1>2 DEF Adds
<1> HIDE DEF n, m, h, new
<1>4. new = m + 1 /\ new \notin 1 .. m /\ \A k \in 1 .. new : k \in 1 .. m \/ k = new
  BY <1>2 DEF new
\* What is open.
<1>5. /\ \A i \in 1 .. h : p.open[i] \in 1 .. m /\ q.open[i] = p.open[i]
      /\ \/ MayOpen(p, type) /\ DOMAIN q.open = 1 .. h + 1 /\ Len(q.open) = h + 1 /\ q.open[h + 1] = new
         \/ MayLeaf(p, type) /\ DOMAIN q.open = 1 .. h /\ q.open = p.open
  <2>1. p.open \in Seq(Nat) /\ h = Len(p.open) /\ new \in Nat
    BY <1>2, <1>4 DEF Parser, h
  <2>2. \A i \in 1 .. h : p.open[i] \in 1 .. m
    BY <1>2 DEF Tree, Nested
  <2>3. CASE MayOpen(p, type) /\ q.open = Append(p.open, new)
    <3>1. /\ DOMAIN q.open = 1 .. h + 1 /\ Len(q.open) = h + 1 /\ q.open[h + 1] = new
          /\ \A i \in 1 .. h : q.open[i] = p.open[i]
      BY <2>1, <2>3
    <3> QED BY <2>2, <2>3, <3>1
  <2>4. CASE MayLeaf(p, type) /\ q.open = p.open
    BY <1>2, <2>2, <2>4
  <2> QED BY <2>3, <2>4 DEF new, m
<1>6. /\ \A k \in 1 .. m : IsOpen(q, k) <=> IsOpen(p, k)
      /\ IsOpen(q, new) <=> MayOpen(p, type)
  <2>1. \A i \in 1 .. h : i \in 1 .. h + 1 /\ p.open[i] # new
    BY <1>2, <1>4, <1>5
  <2>2. \A i \in 1 .. h + 1 : i \in 1 .. h \/ i = h + 1
    BY <1>2
  <2>3. h + 1 \in 1 .. h + 1
    BY <1>2
  <2>4. CASE MayOpen(p, type) /\ DOMAIN q.open = 1 .. h + 1 /\ q.open[h + 1] = new
    BY <1>2, <1>4, <1>5, <2>1, <2>2, <2>3, <2>4 DEF IsOpen
  <2>5. CASE MayLeaf(p, type) /\ q.open = p.open
    <3>1. ~MayOpen(p, type)
      BY <2>5 DEF MayOpen, MayLeaf
    <3> QED BY <1>2, <2>1, <2>5, <3>1 DEF IsOpen
  <2> QED BY <1>5, <2>4, <2>5
<1>7. p.open # <<>> => /\ Top(p) \in 1 .. m /\ IsOpen(p, Top(p)) /\ Top(p) = p.open[h] /\ h \in 1 .. h
                       /\ \A k : IsTop(p, k) <=> k = Top(p)
                       /\ \A k : IsOpen(p, k) => k <= Top(p)
                       /\ Kind(p, Top(p)) \in ContainerType \union WrapperType
  BY <1>2, TopIs DEF Tree, Top, IsTop, h
<1>8. p.open = <<>> => \A k : ~IsTop(p, k)
  BY DEF IsTop
<1>9. Nested(q)
  <2>1. /\ \A i \in 1 .. h :
             /\ p.open[i] \in 1 .. m
             /\ Kind(p, p.open[i]) \in ContainerType \union WrapperType
             /\ i = 1 => Kind(p, p.open[i]) \in ContainerType
             /\ i > 1 => (Kind(p, p.open[i]) \in WrapperType <=> Kind(p, p.open[i - 1]) \in ContainerType)
        /\ \A i, j \in 1 .. h : i < j => p.open[i] < p.open[j]
    BY <1>2 DEF Tree, Nested
  <2>2. ASSUME NEW i \in 1 .. h
        PROVE  /\ q.open[i] \in 1 .. new
               /\ Kind(q, q.open[i]) \in ContainerType \union WrapperType
               /\ i = 1 => Kind(q, q.open[i]) \in ContainerType
               /\ i > 1 => (Kind(q, q.open[i]) \in WrapperType <=> Kind(q, q.open[i - 1]) \in ContainerType)
    <3>1. q.open[i] = p.open[i] /\ p.open[i] \in 1 .. m /\ Kind(q, p.open[i]) = Kind(p, p.open[i])
      BY <1>3, <1>5
    <3>2. p.open[i] \in 1 .. new
      BY <1>2, <1>4, <3>1
    <3>3. i > 1 => i - 1 \in 1 .. h
      BY <1>2
    <3>4. i > 1 => Kind(q, q.open[i - 1]) = Kind(p, p.open[i - 1])
      BY <1>3, <1>5, <3>3
    <3> QED BY <2>1, <3>1, <3>2, <3>4
  <2>3. \A i, j \in 1 .. h : i < j => q.open[i] < q.open[j]
    BY <1>5, <2>1
  <2>4. CASE MayOpen(p, type) /\ DOMAIN q.open = 1 .. h + 1 /\ q.open[h + 1] = new
    <3>1. /\ Kind(q, new) \in ContainerType \union WrapperType
          /\ h + 1 = 1 => Kind(q, new) \in ContainerType
      BY <1>2, <1>3, <2>4 DEF MayOpen
    <3>2. h + 1 > 1 => (Kind(q, new) \in WrapperType <=> Kind(q, q.open[(h + 1) - 1]) \in ContainerType)
      <4>1. SUFFICES ASSUME h + 1 > 1
                     PROVE  Kind(q, new) \in WrapperType <=> Kind(q, q.open[(h + 1) - 1]) \in ContainerType
        OBVIOUS
      <4>2. p.open # <<>> /\ (h + 1) - 1 = h /\ h \in 1 .. h
        BY <1>2, <4>1
      <4>3. Kind(q, q.open[h]) = Kind(p, Top(p))
        BY <1>3, <1>5, <1>7, <4>2
      <4> QED BY <1>3, <2>4, <4>2, <4>3 DEF MayOpen
    <3>3. \A i \in 1 .. h : q.open[i] < new
      BY <1>2, <1>4, <1>5
    <3>4. new \in 1 .. new
      BY <1>2, <1>4
    <3>5. ASSUME NEW i \in 1 .. h + 1, NEW j \in 1 .. h + 1, i < j PROVE q.open[i] < q.open[j]
      <4>1. i \in 1 .. h
        BY <1>2, <3>5
      <4>2. j \in 1 .. h \/ j = h + 1
        BY <1>2
      <4> QED BY <2>3, <2>4, <3>3, <3>5, <4>1, <4>2
    <3>6. ASSUME NEW i \in 1 .. h + 1
          PROVE  /\ q.open[i] \in 1 .. new
                 /\ Kind(q, q.open[i]) \in ContainerType \union WrapperType
                 /\ i = 1 => Kind(q, q.open[i]) \in ContainerType
                 /\ i > 1 => (Kind(q, q.open[i]) \in WrapperType <=> Kind(q, q.open[i - 1]) \in ContainerType)
      <4>1. CASE i \in 1 .. h
        BY <2>2, <4>1
      <4>2. CASE i = h + 1
        BY <2>4, <3>1, <3>2, <3>4, <4>2
      <4> QED BY <1>2, <4>1, <4>2
    <3> QED BY <1>3, <2>4, <3>5, <3>6 DEF Nested
  <2>5. CASE MayLeaf(p, type) /\ DOMAIN q.open = 1 .. h
    BY <1>3, <2>2, <2>3, <2>5 DEF Nested
  <2> QED BY <1>5, <2>4, <2>5
<1>10. \A k \in 1 .. m : /\ Begins(p, k) \in 1 .. n
                         /\ ~IsOpen(p, k) => Ends(p, k) \in Begins(p, k) .. n
  BY <1>2 DEF Tree, Spans, n
<1>11. Spans(q)
  <2>1. ASSUME NEW k \in 1 .. new
        PROVE  /\ Begins(q, k) \in 1 .. n + 1
               /\ ~IsOpen(q, k) => Ends(q, k) \in Begins(q, k) .. n + 1
    <3>1. CASE k \in 1 .. m
      <4>1. Begins(q, k) = Begins(p, k) /\ Ends(q, k) = Ends(p, k) /\ (IsOpen(q, k) <=> IsOpen(p, k))
        BY <1>3, <1>6, <3>1
      <4>2. Begins(p, k) \in 1 .. n /\ (~IsOpen(p, k) => Ends(p, k) \in Begins(p, k) .. n)
        BY <1>10, <3>1
      <4> QED BY <1>1, <4>1, <4>2
    <3>2. CASE k = new
      BY <1>1, <1>3, <3>2
    <3> QED BY <1>4, <3>1, <3>2
  <2>2. ASSUME NEW j \in 1 .. new, NEW k \in 1 .. new, j # k
        PROVE  /\ Begins(q, j) # Begins(q, k)
               /\ ~IsOpen(q, j) => Ends(q, j) # Begins(q, k)
               /\ ~IsOpen(q, j) /\ ~IsOpen(q, k) => Ends(q, j) # Ends(q, k)
    <3>1. CASE j \in 1 .. m /\ k \in 1 .. m
      <4>1. /\ Begins(p, j) # Begins(p, k)
            /\ ~IsOpen(p, j) => Ends(p, j) # Begins(p, k)
            /\ ~IsOpen(p, j) /\ ~IsOpen(p, k) => Ends(p, j) # Ends(p, k)
        BY <1>2, <2>2, <3>1 DEF Tree, Spans
      <4> QED BY <1>3, <1>6, <3>1, <4>1
    <3>2. CASE j = new /\ k \in 1 .. m
      <4>1. Begins(p, k) \in 1 .. n /\ (~IsOpen(p, k) => Ends(p, k) \in 1 .. n)
        BY <1>1, <1>10, <3>2
      <4>2. Begins(q, k) = Begins(p, k) /\ Ends(q, k) = Ends(p, k) /\ (IsOpen(q, k) <=> IsOpen(p, k))
        BY <1>3, <1>6, <3>2
      <4> QED BY <1>1, <1>3, <3>2, <4>1, <4>2
    <3>3. CASE k = new /\ j \in 1 .. m
      <4>1. Begins(p, j) \in 1 .. n /\ (~IsOpen(p, j) => Ends(p, j) \in 1 .. n)
        BY <1>1, <1>10, <3>3
      <4>2. Begins(q, j) = Begins(p, j) /\ Ends(q, j) = Ends(p, j) /\ (IsOpen(q, j) <=> IsOpen(p, j))
        BY <1>3, <1>6, <3>3
      <4> QED BY <1>1, <1>3, <3>3, <4>1, <4>2
    <3> QED BY <1>4, <2>2, <3>1, <3>2, <3>3
  <2> QED BY <1>1, <1>3, <2>1, <2>2 DEF Spans
<1>12. Ordered(q)
  <2>1. ASSUME NEW k \in 1 .. m, NEW i \in DOMAIN Kids(p, k), NEW c, c = Kids(p, k)[i]
        PROVE  /\ c \in 1 .. new /\ k < c
               /\ Begins(q, k) < Begins(q, c)
               /\ IsTop(p, k) \/ i < Len(Kids(p, k)) => ~IsOpen(q, c)
               /\ i > 1 => Ends(q, Kids(p, k)[i - 1]) < Begins(q, c)
               /\ ~IsOpen(q, k) => ~IsOpen(q, c) /\ Ends(q, c) < Ends(q, k)
               /\ Kind(q, k) = "object" => Kind(q, c) = "field"
               /\ Kind(q, k) = "array" => Kind(q, c) = "element"
    <3>1. /\ c \in 1 .. m /\ k < c
          /\ Begins(p, k) < Begins(p, c)
          /\ i < Len(Kids(p, k)) => ~IsOpen(p, c)
          /\ i > 1 => Ends(p, Kids(p, k)[i - 1]) < Begins(p, c)
          /\ ~IsOpen(p, k) => ~IsOpen(p, c) /\ Ends(p, c) < Ends(p, k)
          /\ Kind(p, k) = "object" => Kind(p, c) = "field"
          /\ Kind(p, k) = "array" => Kind(p, c) = "element"
      BY <1>2, <2>1 DEF Tree, Ordered
    <3>2. /\ Begins(q, k) = Begins(p, k) /\ Ends(q, k) = Ends(p, k) /\ (IsOpen(q, k) <=> IsOpen(p, k))
          /\ Begins(q, c) = Begins(p, c) /\ Ends(q, c) = Ends(p, c) /\ (IsOpen(q, c) <=> IsOpen(p, c))
          /\ Kind(q, k) = Kind(p, k) /\ Kind(q, c) = Kind(p, c)
      BY <1>3, <1>6, <3>1
    <3>3. IsTop(p, k) => ~IsOpen(p, c)
      BY <1>2, <1>7, <1>8, <3>1
    <3>4. i > 1 => Ends(q, Kids(p, k)[i - 1]) = Ends(p, Kids(p, k)[i - 1])
      <4>1. SUFFICES ASSUME i > 1 PROVE Ends(q, Kids(p, k)[i - 1]) = Ends(p, Kids(p, k)[i - 1])
        OBVIOUS
      <4>2. i - 1 \in DOMAIN Kids(p, k)
        BY <1>2, <4>1
      <4>3. Kids(p, k)[i - 1] \in 1 .. m
        BY <1>2, <4>2 DEF Tree, Ordered
      <4> QED BY <1>3, <4>3
    <3> QED BY <1>2, <1>4, <3>1, <3>2, <3>3, <3>4
  <2>2. ASSUME NEW k \in 1 .. m, IsTop(p, k), NEW last, last = Len(Kids(p, k)), last > 0
        PROVE  Ends(q, Kids(p, k)[last]) < Begins(q, new)
    <3>1. last \in DOMAIN Kids(p, k)
      BY <1>2, <2>2
    <3>2. Kids(p, k)[last] \in 1 .. m /\ ~IsOpen(p, Kids(p, k)[last])
      <4>1. Kids(p, k)[last] \in 1 .. m /\ k < Kids(p, k)[last]
        BY <1>2, <3>1 DEF Tree, Ordered
      <4> QED BY <1>2, <1>7, <1>8, <2>2, <4>1
    <3> QED BY <1>1, <1>3, <1>10, <3>2
  <2>3. ASSUME NEW k \in 1 .. new, NEW i \in DOMAIN Kids(q, k), NEW c, c = Kids(q, k)[i]
        PROVE  /\ c \in 1 .. new /\ k < c
               /\ Begins(q, k) < Begins(q, c)
               /\ i < Len(Kids(q, k)) => ~IsOpen(q, c)
               /\ i > 1 => Ends(q, Kids(q, k)[i - 1]) < Begins(q, c)
               /\ ~IsOpen(q, k) => ~IsOpen(q, c) /\ Ends(q, c) < Ends(q, k)
               /\ Kind(q, k) = "object" => Kind(q, c) = "field"
               /\ Kind(q, k) = "array" => Kind(q, c) = "element"
    <3>0. k \in 1 .. m
      BY <1>3, <1>4, <2>3
    <3>1. CASE ~IsTop(p, k)
      <4>1. Kids(q, k) = Kids(p, k)
        BY <1>3, <3>0, <3>1
      <4> QED BY <2>1, <2>3, <3>0, <4>1
    <3>2. CASE IsTop(p, k)
      <4> DEFINE l == Len(Kids(p, k))
      <4>1. Kids(q, k) = Append(Kids(p, k), new)
        BY <1>3, <3>0, <3>2
      <4>2. Kids(p, k) \in Seq(Nat) /\ l \in Nat /\ DOMAIN Kids(p, k) = 1 .. l /\ new \in Nat
        BY <1>2, <1>4, <3>0
      <4>3. /\ Len(Kids(q, k)) = l + 1 /\ DOMAIN Kids(q, k) = 1 .. l + 1
            /\ Kids(q, k)[l + 1] = new
            /\ \A j \in 1 .. l : Kids(q, k)[j] = Kids(p, k)[j]
        BY <4>1, <4>2
      <4>4. k = Top(p) /\ p.open # <<>> /\ IsOpen(q, k)
        BY <1>6, <1>7, <1>8, <3>0, <3>2
      <4> HIDE DEF l
      <4>5. CASE i \in 1 .. l
        <5>1. c = Kids(p, k)[i] /\ i \in DOMAIN Kids(p, k)
          BY <2>3, <4>2, <4>3, <4>5
        <5>2. /\ c \in 1 .. new /\ k < c
              /\ Begins(q, k) < Begins(q, c)
              /\ ~IsOpen(q, c)
              /\ i > 1 => Ends(q, Kids(p, k)[i - 1]) < Begins(q, c)
              /\ Kind(q, k) = "object" => Kind(q, c) = "field"
              /\ Kind(q, k) = "array" => Kind(q, c) = "element"
          BY <2>1, <3>0, <3>2, <5>1
        <5>3. i > 1 => Kids(q, k)[i - 1] = Kids(p, k)[i - 1]
          BY <4>2, <4>3, <4>5
        <5> QED BY <4>4, <5>2, <5>3
      <4>6. CASE i = l + 1
        <5>1. c = new /\ c \in 1 .. new /\ k < c
          BY <1>2, <1>4, <2>3, <3>0, <4>3, <4>6
        <5>2. Begins(q, k) < Begins(q, c)
          BY <1>1, <1>3, <1>10, <3>0, <5>1
        <5>3. i > 1 => Ends(q, Kids(q, k)[i - 1]) < Begins(q, c)
          <6>1. SUFFICES ASSUME i > 1 PROVE Ends(q, Kids(q, k)[i - 1]) < Begins(q, c)
            OBVIOUS
          <6>2. i - 1 = l /\ l > 0 /\ l \in 1 .. l
            BY <4>2, <4>6, <6>1
          <6>3. Kids(q, k)[i - 1] = Kids(p, k)[l]
            BY <4>3, <6>2
          <6> QED BY <2>2, <3>0, <3>2, <5>1, <6>2, <6>3 DEF l
        <5>4. /\ Kind(q, k) = "object" => Kind(q, c) = "field"
              /\ Kind(q, k) = "array" => Kind(q, c) = "element"
          <6>1. Kind(q, k) = Kind(p, Top(p)) /\ Kind(q, c) = type
            BY <1>3, <3>0, <4>4, <5>1
          <6> QED BY <1>5, <4>4, <6>1 DEF MayOpen, MayLeaf, WrapperType
        <5>5. ~(i < Len(Kids(q, k)))
          BY <4>2, <4>3, <4>6
        <5> QED BY <4>4, <5>1, <5>2, <5>3, <5>4, <5>5
      <4> QED BY <2>3, <4>2, <4>3, <4>5, <4>6
    <3> QED BY <3>1, <3>2
  <2> QED BY <1>3, <2>3 DEF Ordered
<1>13. Filled(q)
  <2>1. ASSUME NEW k \in 1 .. m, ~IsTop(p, k) PROVE Full(q, k)
    <3>1. Full(p, k)
      BY <1>2, <2>1 DEF Tree, Filled
    <3>2. Kind(q, k) = Kind(p, k) /\ Kids(q, k) = Kids(p, k)
      BY <1>3, <2>1
    <3> QED BY <3>1, <3>2 DEF Full
  <2>2. CASE MayLeaf(p, type) /\ q.open = p.open
    <3>1. \A k : IsTop(q, k) <=> IsTop(p, k)
      BY <2>2 DEF IsTop
    <3>2. Full(q, new)
      BY <1>3, <2>2 DEF MayLeaf, Full, WrapperType
    <3> QED BY <1>3, <1>4, <2>1, <3>1, <3>2 DEF Filled
  <2>3. CASE MayOpen(p, type) /\ Len(q.open) = h + 1 /\ DOMAIN q.open = 1 .. h + 1 /\ q.open[h + 1] = new
    <3>1. IsTop(q, new)
      <4>1. q.open # <<>>
        <5>1. Len(<<>>) = 0
          OBVIOUS
        <5> QED BY <1>2, <2>3, <5>1
      <4> QED BY <2>3, <4>1 DEF IsTop
    <3>2. ASSUME NEW k \in 1 .. m, IsTop(p, k) PROVE Full(q, k)
      <4>1. k = Top(p) /\ p.open # <<>>
        BY <1>7, <1>8, <3>2
      <4>2. Kind(q, k) = Kind(p, Top(p)) /\ Kids(q, k) = Append(Kids(p, k), new)
        BY <1>3, <3>2, <4>1
      <4>3. Len(Kids(q, k)) = Len(Kids(p, k)) + 1
        BY <1>2, <4>2
      <4>4. /\ Kind(p, k) = "field" => Len(Kids(p, k)) = 1
            /\ Kind(p, k) = "element" => Len(Kids(p, k)) = 0
        BY <2>3, <4>1 DEF MayOpen
      <4>5. Kind(q, k) = Kind(p, k)
        BY <1>3
      <4>6. ASSUME Kind(q, k) = "field" PROVE Len(Kids(q, k)) = 2
        <5>1. Len(Kids(p, k)) = 1
          BY <4>4, <4>5, <4>6
        <5>2. Len(Kids(q, k)) = 1 + 1
          BY <4>3, <5>1
        <5> QED BY <5>2
      <4>7. ASSUME Kind(q, k) = "element" PROVE Len(Kids(q, k)) = 1
        BY <4>3, <4>4, <4>5, <4>7
      <4> QED BY <4>6, <4>7 DEF Full
    <3> QED BY <1>3, <1>4, <2>1, <3>1, <3>2 DEF Filled
  <2> QED BY <1>5, <2>2, <2>3
<1>14. Anchored(q)
  <2>1. \A k \in 1 .. m : Marks(p, k) \subseteq 1 .. n
    BY <1>1, <1>10 DEF Marks
  <2>2. ASSUME NEW k \in 1 .. m PROVE Marks(q, k) = Marks(p, k)
    <3>1. Kind(q, k) = Kind(p, k) /\ Begins(q, k) = Begins(p, k) /\ Ends(q, k) = Ends(p, k)
          /\ (IsOpen(q, k) <=> IsOpen(p, k))
      BY <1>3, <1>6
    <3>2. CASE IsOpen(p, k)
      BY <3>1, <3>2 DEF Marks
    <3>3. CASE ~IsOpen(p, k)
      BY <3>1, <3>3 DEF Marks
    <3> QED BY <3>2, <3>3
  <2>3. Marks(q, new) = IF type \in WrapperType THEN {n + 1} ELSE {}
    BY <1>3 DEF Marks
  <2>4. ASSUME NEW i \in 1 .. n + 1
        PROVE  q.tokens[i] = Anchor <=> \E k \in 1 .. new : i \in Marks(q, k)
    <3>0. \A k \in 1 .. m : k \in 1 .. new
      BY <1>2, <1>4
    <3>1. CASE i \in 1 .. n
      <4>1. q.tokens[i] = Anchor <=> \E k \in 1 .. m : i \in Marks(p, k)
        BY <1>1, <1>2, <3>1 DEF Tree, Anchored
      <4>2. i \notin Marks(q, new)
        BY <1>1, <2>3, <3>1
      <4> QED BY <1>4, <2>2, <3>0, <4>1, <4>2
    <3>2. CASE i = n + 1
      <4>1. q.tokens[i] = t
        BY <1>1, <3>2
      <4>2. \A k \in 1 .. m : i \notin Marks(q, k)
        <5>1. i \notin 1 .. n
          BY <1>1, <3>2
        <5> QED BY <2>1, <2>2, <5>1
      <4>3. i \in Marks(q, new) <=> type \in WrapperType
        BY <2>3, <3>2
      <4>4. new \in 1 .. new
        BY <1>2, <1>4
      <4> QED BY <1>4, <4>1, <4>2, <4>3, <4>4
    <3> QED BY <1>1, <3>1, <3>2
  <2> QED BY <1>1, <1>3, <2>4 DEF Anchored
<1>15. p.open = <<>> => m = 0
  <2>1. p.open = <<>> => p.nodes = <<>>
    BY <1>5 DEF MayOpen, MayLeaf
  <2> QED BY <2>1 DEF m
<1>16. Housed(q)
  <2>1. ASSUME NEW k \in 1 .. new, k # 1
        PROVE  \E j \in 1 .. new : \E i \in DOMAIN Kids(q, j) : Kids(q, j)[i] = k
    <3>1. CASE k \in 1 .. m
      <4>1. PICK j \in 1 .. m : \E i \in DOMAIN Kids(p, j) : Kids(p, j)[i] = k
        BY <1>2, <2>1, <3>1 DEF Tree, Housed
      <4>2. PICK i \in DOMAIN Kids(p, j) : Kids(p, j)[i] = k
        BY <4>1
      <4>3. j \in 1 .. new /\ Kids(p, j) \in Seq(Nat) /\ new \in Nat
        BY <1>2, <1>4
      <4>4. i \in DOMAIN Kids(q, j) /\ Kids(q, j)[i] = k
        <5>1. Kids(q, j) = Append(Kids(p, j), new) \/ Kids(q, j) = Kids(p, j)
          BY <1>3
        <5> QED BY <4>2, <4>3, <5>1
      <4> QED BY <4>3, <4>4
    <3>2. CASE k = new
      <4>1. p.open # <<>>
        BY <1>4, <1>15, <2>1, <3>2
      <4>2. Top(p) \in 1 .. m /\ IsTop(p, Top(p)) /\ Top(p) \in 1 .. new /\ new \in Nat
        BY <1>2, <1>4, <1>7, <4>1
      <4>3. Kids(q, Top(p)) = Append(Kids(p, Top(p)), new) /\ Kids(p, Top(p)) \in Seq(Nat)
        BY <1>2, <1>3, <4>2
      <4>4. Len(Kids(p, Top(p))) + 1 \in DOMAIN Kids(q, Top(p)) /\ Kids(q, Top(p))[Len(Kids(p, Top(p))) + 1] = new
        BY <4>2, <4>3
      <4> QED BY <3>2, <4>2, <4>4
    <3> QED BY <1>4, <3>1, <3>2
  \* A child is an old one, or the new one at the end of the innermost open node.
  <2>2. ASSUME NEW j \in 1 .. new, NEW i \in DOMAIN Kids(q, j)
        PROVE  /\ j \in 1 .. m
               /\ \/ i \in DOMAIN Kids(p, j) /\ Kids(q, j)[i] = Kids(p, j)[i] /\ Kids(p, j)[i] \in 1 .. m
                  \/ i = Len(Kids(p, j)) + 1 /\ j = Top(p) /\ Kids(q, j)[i] = new
    <3>1. j \in 1 .. m
      BY <1>3, <1>4
    <3>2. Kids(p, j) \in Seq(Nat) /\ new \in Nat
      BY <1>2, <1>4, <3>1
    <3>3. \A l \in DOMAIN Kids(p, j) : Kids(p, j)[l] \in 1 .. m
      BY <1>2, <3>1 DEF Tree, Ordered
    <3>4. CASE IsTop(p, j)
      <4>1. j = Top(p)
        BY <3>4 DEF IsTop, Top
      <4>2. Kids(q, j) = Append(Kids(p, j), new)
        BY <1>3, <3>1, <3>4
      <4>3. \/ i \in DOMAIN Kids(p, j) /\ Kids(q, j)[i] = Kids(p, j)[i]
            \/ i = Len(Kids(p, j)) + 1 /\ Kids(q, j)[i] = new
        BY <3>2, <4>2
      <4> QED BY <3>1, <3>3, <4>1, <4>3
    <3>5. CASE ~IsTop(p, j)
      BY <1>3, <3>1, <3>3, <3>5
    <3> QED BY <3>4, <3>5
  <2>3. ASSUME NEW j \in 1 .. new, NEW k \in 1 .. new, NEW a \in DOMAIN Kids(q, j), NEW b \in DOMAIN Kids(q, k),
               Kids(q, j)[a] = Kids(q, k)[b]
        PROVE  j = k /\ a = b
    <3>1. CASE a \in DOMAIN Kids(p, j) /\ b \in DOMAIN Kids(p, k) /\ Kids(p, j)[a] = Kids(p, k)[b]
      <4>1. j \in DOMAIN p.nodes /\ k \in DOMAIN p.nodes
        BY <1>2, <2>2
      <4> QED BY <3>1, <4>1 DEF Tree, Housed
    <3> QED BY <1>4, <2>2, <2>3, <3>1
  <2> QED BY <1>3, <2>1, <2>3 DEF Housed
<1>17. Shaped(q)
  <2>1. ASSUME NEW k \in 1 .. m
        PROVE  /\ Kind(q, k) \notin ContainerType \union WrapperType =>
                    Kids(q, k) = <<>> /\ ~IsOpen(q, k) /\ Ends(q, k) = Begins(q, k)
               /\ Kind(q, k) \in ContainerType => Opening(q.tokens[Begins(q, k)])
               /\ Kind(q, k) \in WrapperType =>
                    k # 1 /\ \A i \in DOMAIN Kids(q, k) : Kind(q, Kids(q, k)[i]) \notin WrapperType
    <3>1. /\ Kind(q, k) = Kind(p, k) /\ Begins(q, k) = Begins(p, k) /\ Ends(q, k) = Ends(p, k)
          /\ Kids(q, k) = IF IsTop(p, k) THEN Append(Kids(p, k), new) ELSE Kids(p, k)
          /\ IsOpen(q, k) <=> IsOpen(p, k)
      BY <1>3, <1>6
    <3>2. q.tokens[Begins(q, k)] = p.tokens[Begins(p, k)]
      BY <1>1, <1>10, <3>1
    <3>3. /\ Kind(p, k) \notin ContainerType \union WrapperType =>
               Kids(p, k) = <<>> /\ ~IsOpen(p, k) /\ Ends(p, k) = Begins(p, k)
          /\ Kind(p, k) \in ContainerType => Opening(p.tokens[Begins(p, k)])
          /\ Kind(p, k) \in WrapperType =>
               k # 1 /\ \A i \in DOMAIN Kids(p, k) : Kind(p, Kids(p, k)[i]) \notin WrapperType
      BY <1>2 DEF Tree, Shaped
    <3>4. Kind(p, k) \notin ContainerType \union WrapperType => ~IsTop(p, k)
      BY <1>7, <1>8
    <3>5. ASSUME Kind(p, k) \in WrapperType, NEW i \in DOMAIN Kids(q, k)
          PROVE  Kind(q, Kids(q, k)[i]) \notin WrapperType
      <4>1. k \in 1 .. new
        BY <1>2, <1>4
      <4>2. CASE i \in DOMAIN Kids(p, k) /\ Kids(q, k)[i] = Kids(p, k)[i] /\ Kids(p, k)[i] \in 1 .. m
        BY <1>3, <3>3, <3>5, <4>2
      <4>3. CASE k = Top(p) /\ Kids(q, k)[i] = new /\ p.open # <<>>
        <5>1. type \notin WrapperType
          BY <1>5, <3>5, <4>3 DEF MayOpen, MayLeaf, ContainerType, WrapperType
        <5> QED BY <1>3, <4>3, <5>1
      <4>4. \/ i \in DOMAIN Kids(p, k) /\ Kids(q, k)[i] = Kids(p, k)[i]
            \/ k = Top(p) /\ Kids(q, k)[i] = new /\ p.open # <<>>
        <5>1. Kids(p, k) \in Seq(Nat) /\ new \in Nat
          BY <1>2, <1>4
        <5>2. IsTop(p, k) => k = Top(p) /\ p.open # <<>>
          BY <1>7, <1>8
        <5> QED BY <3>1, <5>1, <5>2
      <4>5. \A l \in DOMAIN Kids(p, k) : Kids(p, k)[l] \in 1 .. m
        BY <1>2 DEF Tree, Ordered
      <4> QED BY <4>2, <4>3, <4>4, <4>5
    <3> HIDE DEF Opening
    <3> QED BY <3>1, <3>2, <3>3, <3>4, <3>5
  <2>2. /\ type \notin ContainerType \union WrapperType => ~IsOpen(q, new)
        /\ type \in WrapperType => new # 1
    <3>1. type \notin ContainerType \union WrapperType => ~MayOpen(p, type)
      BY DEF MayOpen
    <3>2. ASSUME type \in WrapperType PROVE new # 1
      <4>1. p.open # <<>>
        BY <1>5, <3>2 DEF MayOpen, MayLeaf, ContainerType, WrapperType
      <4> QED BY <1>2, <1>4, <1>7, <4>1
    <3> QED BY <1>6, <3>1, <3>2
  <2>3. q.tokens[Begins(q, new)] = t
    BY <1>1, <1>3
  <2> HIDE DEF Opening
  <2> QED BY <1>3, <1>4, <2>1, <2>2, <2>3 DEF Shaped
<1>18. Wide(q)
  <2>1. Kind(q, new) \in ContainerType => IsOpen(q, new)
    BY <1>3, <1>5, <1>6 DEF MayLeaf, ContainerType, WrapperType
  <2>2. \A k \in 1 .. m : Kind(p, k) \in ContainerType /\ ~IsOpen(p, k) => Begins(p, k) < Ends(p, k)
    BY <1>2 DEF Tree, Wide
  <2>3. \A k \in 1 .. m : Kind(q, k) \in ContainerType /\ ~IsOpen(q, k) => Begins(q, k) < Ends(q, k)
    BY <1>3, <1>6, <2>2
  <2>4. DOMAIN q.nodes = 1 .. new
    BY <1>3
  <2> HIDE DEF ContainerType
  <2> QED BY <1>4, <2>1, <2>3, <2>4 DEF Wide
<1> QED BY <1>9, <1>11, <1>12, <1>13, <1>14, <1>16, <1>17, <1>18 DEF Tree

-----------------------------------------------------------------------------
(***************************************************************************)
(* What the parser does with a token, in these moves.                      *)
(***************************************************************************)
\* A value is expected, or just complete, in the innermost open node.
Wants(p) ==
  IF p.open = <<>> THEN p.nodes = <<>>
  ELSE \/ Kind(p, Top(p)) = "field" /\ Len(Kids(p, Top(p))) = 1
       \/ Kind(p, Top(p)) = "element" /\ Len(Kids(p, Top(p))) = 0

Has(p) ==
  IF p.open = <<>> THEN p.nodes # <<>>
  ELSE Kind(p, Top(p)) \in WrapperType /\ Full(p, Top(p))

\* What the parser is about to read next fits what is open.
Placed(p) ==
  /\ p.at = "value" => Wants(p)
  /\ p.at \in {"first element", "next element"} => p.open # <<>> /\ Kind(p, Top(p)) = "array"
  /\ p.at \in {"first member", "next member"} => p.open # <<>> /\ Kind(p, Top(p)) = "object"
  /\ p.at = "colon" => p.open # <<>> /\ Kind(p, Top(p)) = "field" /\ Len(Kids(p, Top(p))) = 1
  /\ p.at = "after" => p.open # <<>> /\ Kind(p, Top(p)) \in ContainerType
  /\ p.at = "end" => p.open = <<>> /\ p.nodes # <<>>

Good(p) == p \in Parser /\ (p.at # "error" => Tree(p) /\ Placed(p))

LEMMA AtIs ==
  ASSUME NEW p \in Parser, NEW a \in Place
  PROVE  LET q == [p EXCEPT !.at = a]
         IN  /\ q \in Parser /\ q.tokens = p.tokens /\ q.nodes = p.nodes /\ q.open = p.open /\ q.at = a
             /\ Tree(p) => Tree(q)
             /\ Top(q) = Top(p) /\ \A k : Kind(q, k) = Kind(p, k) /\ Kids(q, k) = Kids(p, k)
<1> DEFINE q == [p EXCEPT !.at = a]
<1>1. q \in Parser /\ q.tokens = p.tokens /\ q.nodes = p.nodes /\ q.open = p.open /\ q.at = a
  <2> HIDE DEF NodeRecord, Toks, Place
  <2> QED BY DEF Parser
<1> HIDE DEF q
<1>2. /\ \A k : Begins(q, k) = Begins(p, k) /\ Ends(q, k) = Ends(p, k)
      /\ \A k : Kind(q, k) = Kind(p, k) /\ Kids(q, k) = Kids(p, k)
      /\ Top(q) = Top(p)
  BY <1>1 DEF Begins, Ends, Kind, Kids, Top
<1>3. Tree(p) => Tree(q)
  <2>1. Nested(p) => Nested(q)
    BY <1>1, Zenon DEF Nested, Kind
  <2>2. Spans(p) => Spans(q)
    BY <1>1, ZenonT(30) DEF Spans, Begins, Ends, IsOpen
  <2>3. Ordered(p) => Ordered(q)
    BY <1>1 DEF Ordered, Begins, Ends, Kind, Kids, IsOpen
  <2>4. Filled(p) => Filled(q)
    BY <1>1, Zenon DEF Filled, Full, IsTop, Kind, Kids
  <2>5. Anchored(p) => Anchored(q)
    <3>1. \A k : Marks(q, k) = Marks(p, k)
      BY <1>1, Zenon DEF Marks, Begins, Ends, Kind, IsOpen
    <3> QED BY <1>1, <3>1, Zenon DEF Anchored
  <2>6. Housed(p) => Housed(q)
    BY <1>1, KidsSame
  <2>7. Shaped(p) => Shaped(q)
    BY <1>1, Zenon DEF Shaped, Begins, Ends, Kind, Kids, IsOpen
  <2>8. Wide(p) => Wide(q)
    BY <1>1, Zenon DEF Wide, Begins, Ends, Kind, IsOpen
  <2> QED BY <2>1, <2>2, <2>3, <2>4, <2>5, <2>6, <2>7, <2>8 DEF Tree
<1> QED BY <1>1, <1>2, <1>3 DEF q

LEMMA AnchorIs == Anchor \in Tok /\ Anchor.literal = <<>>
<1>1. <<>> \in Txt
  BY DEF Txt
<1> QED BY <1>1 DEF Anchor, Tok

LEMMA LexTokNoAnchor ==
  ASSUME NEW t \in LexTok
  PROVE  t \in Tok /\ t # Anchor
BY LexTokType, AnchorIs

\* What becomes the innermost open node when one is shut.
LEMMA Under ==
  ASSUME NEW p \in Parser, Tree(p), p.open # <<>>, NEW q \in Parser,
         q.open = SubSeq(p.open, 1, Len(p.open) - 1)
  PROVE  /\ q.open = <<>> => Kind(p, Top(p)) \in ContainerType
         /\ q.open # <<>> =>
              /\ Top(q) \in DOMAIN p.nodes /\ Full(p, Top(q))
              /\ Kind(p, Top(q)) \in ContainerType \union WrapperType
              /\ Kind(p, Top(p)) \in WrapperType <=> Kind(p, Top(q)) \in ContainerType
<1> DEFINE h == Len(p.open)
<1>1. p.open \in Seq(Nat) /\ h \in Nat /\ h # 0 /\ DOMAIN p.open = 1 .. h
  BY NodesType DEF Parser
<1>2. Len(q.open) = h - 1 /\ \A i \in 1 .. h - 1 : q.open[i] = p.open[i]
  BY <1>1
<1>3. q.open = <<>> <=> h - 1 = 0
  BY <1>1, <1>2, NodesType
<1>4. CASE q.open = <<>>
  <2>1. h = 1 /\ h \in 1 .. h
    BY <1>1, <1>3, <1>4
  <2> HIDE DEF h
  <2>2. Kind(p, p.open[h]) \in ContainerType
    BY <1>1, <2>1 DEF Tree, Nested
  <2> QED BY <1>4, <2>2 DEF Top, h
<1>5. CASE q.open # <<>>
  <2> HIDE DEF h
  <2>1. h > 1 /\ h \in 1 .. h /\ h - 1 \in 1 .. h /\ h - 1 \in 1 .. h - 1 /\ h - 1 < h
    BY <1>1, <1>3, <1>5
  <2>2. Top(q) = p.open[h - 1] /\ Top(p) = p.open[h]
    BY <1>2, <2>1 DEF Top, h
  <2>3. /\ p.open[h - 1] \in DOMAIN p.nodes
        /\ Kind(p, p.open[h - 1]) \in ContainerType \union WrapperType
        /\ Kind(p, p.open[h]) \in WrapperType <=> Kind(p, p.open[h - 1]) \in ContainerType
        /\ p.open[h - 1] < p.open[h]
    BY <1>1, <2>1 DEF Tree, Nested
  <2>4. p.open[h - 1] # p.open[h]
    <3>1. p.open[h - 1] \in Nat /\ p.open[h] \in Nat
      BY <1>1, <2>1
    <3> QED BY <2>3, <3>1
  <2>5. ~IsTop(p, Top(q))
    BY <2>2, <2>4 DEF IsTop, h
  <2>6. Full(p, Top(q))
    BY <2>2, <2>3, <2>5 DEF Tree, Filled
  <2> QED BY <1>5, <2>2, <2>3, <2>6
<1> QED BY <1>4, <1>5

LEMMA FinishOK ==
  ASSUME NEW p \in Parser, Tree(p), Has(p)
  PROVE  Good(Finish(p)) /\ Text(Finish(p).tokens) = Text(p.tokens)
<1>1. CASE p.open = <<>>
  <2>1. Finish(p) = [p EXCEPT !.at = "end"]
    BY <1>1 DEF Finish
  <2>2. "end" \in Place
    BY DEF Place
  <2> DEFINE q == Finish(p)
  <2>3. /\ q \in Parser /\ q.tokens = p.tokens /\ q.open = p.open /\ q.at = "end" /\ Tree(q)
        /\ q.nodes = p.nodes
    BY <2>1, <2>2, AtIs
  <2> QED BY <1>1, <2>3 DEF Good, Placed, Has
<1>2. CASE p.open # <<>>
  <2> DEFINE e == Shut(Emit(p, Anchor))
             q == [e EXCEPT !.at = "after"]
  <2>1. Finish(p) = q
    BY <1>2 DEF Finish
  <2>2. /\ e \in Parser /\ Tree(e) /\ e.tokens = Append(p.tokens, Anchor)
        /\ e.open = SubSeq(p.open, 1, Len(p.open) - 1)
        /\ \A k \in DOMAIN p.nodes :
             k \in DOMAIN e.nodes /\ Kind(e, k) = Kind(p, k) /\ Kids(e, k) = Kids(p, k)
    BY <1>2, AnchorIs, Shuts DEF Has
  <2> HIDE DEF e
  <2>3. Kind(p, Top(p)) \in WrapperType
    BY <1>2 DEF Has
  <2>4. e.open # <<>> /\ Kind(e, Top(e)) \in ContainerType
    <3>1. e.open # <<>>
      BY <1>2, <2>2, <2>3, Under DEF ContainerType, WrapperType
    <3>2. Top(e) \in DOMAIN p.nodes /\ Kind(p, Top(e)) \in ContainerType
      BY <1>2, <2>2, <2>3, <3>1, Under
    <3> QED BY <2>2, <3>1, <3>2
  <2>5. "after" \in Place
    BY DEF Place
  <2>6. /\ q \in Parser /\ q.tokens = e.tokens /\ q.open = e.open /\ q.at = "after" /\ Tree(q)
        /\ Top(q) = Top(e) /\ \A k : Kind(q, k) = Kind(e, k)
    BY <2>2, <2>5, AtIs
  <2> HIDE DEF q
  <2>7. Placed(q)
    BY <2>4, <2>6 DEF Placed
  <2>8. Text(q.tokens) = Text(p.tokens)
    <3>1. p.tokens \in Toks /\ Text(p.tokens) \in Seq(AnyLexeme)
      BY TextType DEF Parser, Txt
    <3>2. Text(q.tokens) = Text(p.tokens) \o <<>>
      BY <2>2, <2>6, <3>1, AnchorIs, TextAppend
    <3> QED BY <3>1, <3>2, ConcatEmpty
  <2> QED BY <2>1, <2>6, <2>7, <2>8 DEF Good
<1> QED BY <1>1, <1>2

LEMMA CloseOK ==
  ASSUME NEW p \in Parser, Tree(p), p.open # <<>>, Kind(p, Top(p)) \in ContainerType, NEW t \in LexTok
  PROVE  Good(Close(p, t)) /\ Text(Close(p, t).tokens) = Text(p.tokens) \o t.literal
<1> DEFINE e == Shut(Emit(p, t))
<1>0. t \in Tok /\ t # Anchor /\ p.tokens \in Toks
  BY LexTokNoAnchor DEF Parser
<1>1. /\ e \in Parser /\ Tree(e) /\ e.tokens = Append(p.tokens, t)
      /\ e.open = SubSeq(p.open, 1, Len(p.open) - 1)
      /\ \A k \in DOMAIN p.nodes :
           k \in DOMAIN e.nodes /\ Kind(e, k) = Kind(p, k) /\ Kids(e, k) = Kids(p, k)
  <2>1. Full(p, Top(p)) /\ Kind(p, Top(p)) \notin WrapperType
    BY DEF Full, ContainerType, WrapperType
  <2> QED BY <1>0, <2>1, Shuts
<1>2. Close(p, t) = Finish(e)
  BY DEF Close
<1> HIDE DEF e
<1>3. Has(e)
  <2>0. e.nodes # <<>>
    <3>1. Top(p) \in DOMAIN e.nodes
      BY <1>1, TopIs DEF Tree
    <3> QED BY <3>1
  <2>1. SUFFICES ASSUME e.open # <<>> PROVE Kind(e, Top(e)) \in WrapperType /\ Full(e, Top(e))
    BY <2>0 DEF Has
  <2>2. Kind(p, Top(p)) \notin WrapperType
    BY DEF ContainerType, WrapperType
  <2>3. /\ Top(e) \in DOMAIN p.nodes /\ Full(p, Top(e))
        /\ Kind(p, Top(e)) \in WrapperType
    BY <1>1, <2>1, <2>2, Under
  <2> QED BY <1>1, <2>3 DEF Full
<1>4. Text(e.tokens) = Text(p.tokens) \o t.literal
  BY <1>0, <1>1, TextAppend
<1> QED BY <1>1, <1>2, <1>3, <1>4, FinishOK

\* The states that a step may lead to, having read t.
Read(p, q, t) ==
  /\ Good(q)
  /\ q.at # "error" => Text(q.tokens) = Text(p.tokens) \o t.literal

LEMMA ErrorOK ==
  ASSUME NEW p \in Parser, NEW t
  PROVE  Read(p, Error(p), t)
<1>1. "error" \in Place
  BY DEF Place
<1>2. Error(p) \in Parser /\ Error(p).at = "error"
  BY <1>1, AtIs DEF Error
<1> QED BY <1>2 DEF Read, Good

\* The innermost open node after a node was added.
LEMMA TopAdded ==
  ASSUME NEW p \in Parser, Nested(p), NEW q \in Parser, NEW type, NEW t, Adds(p, q, type, t)
  PROVE  /\ q.open = p.open =>
              /\ Top(q) = Top(p)
              /\ p.open # <<>> => /\ Kind(q, Top(q)) = Kind(p, Top(p))
                                  /\ Len(Kids(q, Top(q))) = Len(Kids(p, Top(p))) + 1
         /\ q.open = Append(p.open, Len(p.nodes) + 1) =>
              /\ q.open # <<>> /\ Kind(q, Top(q)) = type /\ Len(Kids(q, Top(q))) = 0
<1> DEFINE new == Len(p.nodes) + 1
<1>1. /\ Len(p.nodes) \in Nat /\ new \in Nat /\ p.open \in Seq(Nat)
      /\ \A k \in DOMAIN p.nodes : Kids(p, k) \in Seq(Nat)
  BY NodesType DEF Parser
<1>2. ASSUME q.open = p.open
      PROVE  /\ Top(q) = Top(p)
             /\ p.open # <<>> => /\ Kind(q, Top(q)) = Kind(p, Top(p))
                                 /\ Len(Kids(q, Top(q))) = Len(Kids(p, Top(p))) + 1
  <2>1. Top(q) = Top(p)
    BY <1>2 DEF Top
  <2>2. SUFFICES ASSUME p.open # <<>>
                 PROVE  /\ Kind(q, Top(p)) = Kind(p, Top(p))
                        /\ Len(Kids(q, Top(p))) = Len(Kids(p, Top(p))) + 1
    BY <2>1
  <2>3. Top(p) \in DOMAIN p.nodes /\ IsTop(p, Top(p))
    BY <2>2, TopIs
  <2>4. Kind(q, Top(p)) = Kind(p, Top(p)) /\ Kids(q, Top(p)) = Append(Kids(p, Top(p)), new)
    BY <2>3 DEF Adds
  <2>5. Kids(p, Top(p)) \in Seq(Nat)
    BY <1>1, <2>3
  <2> HIDE DEF new
  <2> QED BY <1>1, <2>4, <2>5
<1>3. ASSUME q.open = Append(p.open, new)
      PROVE  q.open # <<>> /\ Kind(q, Top(q)) = type /\ Len(Kids(q, Top(q))) = 0
  <2>1. Kind(q, new) = type /\ Kids(q, new) = <<>>
    BY DEF Adds
  <2> HIDE DEF new
  <2>2. q.open # <<>> /\ Top(q) = new
    BY <1>1, <1>3 DEF Top
  <2> QED BY <2>1, <2>2
<1> QED BY <1>2, <1>3

LEMMA Brackets ==
  ASSUME NEW t \in LexTok, t.literal[1] \in {"{", "["}
  PROVE  Opening(t)
<1> DEFINE x == t.literal[1]
<1>1. TokenType(x) = "delim"
  BY PunctuationAssumption, Zenon DEF TokenType, Punctuation, Keyword
<1>2. t \in [type : LexType, literal : Txt] /\ t.type = "delim" /\ t.literal = <<x>>
  BY <1>1 DEF LexTok
<1>3. t = Token(x)
  BY <1>1, <1>2 DEF Token
<1> QED BY <1>3 DEF Opening

\* A key or a scalar.
LEMMA LeafOK ==
  ASSUME NEW p \in Parser, Tree(p), NEW t \in LexTok,
         NEW type \in {"string", "number", "bool", "null"},
         IF p.open = <<>> THEN p.nodes = <<>> ELSE Kind(p, Top(p)) \in WrapperType
  PROVE  LET q == Leaf(p, type, t)
         IN  /\ q \in Parser /\ Tree(q) /\ q.open = p.open /\ q.nodes # <<>>
             /\ Text(q.tokens) = Text(p.tokens) \o t.literal
             /\ p.open # <<>> => /\ Kind(q, Top(q)) = Kind(p, Top(p))
                                 /\ Len(Kids(q, Top(q))) = Len(Kids(p, Top(p))) + 1
<1> DEFINE q == Leaf(p, type, t)
<1>1. t \in Tok /\ t # Anchor /\ p.tokens \in Toks
  BY LexTokNoAnchor DEF Parser
<1>2. type \in NodeType /\ MayLeaf(p, type) /\ type \notin WrapperType /\ type \notin ContainerType
  BY DEF NodeType, MayLeaf, ContainerType, WrapperType
<1>3. q \in Parser /\ Adds(p, q, type, t) /\ q.open = p.open
  BY <1>1, <1>2, LeafIs
<1> HIDE DEF q
<1>4. Tree(q)
  BY <1>1, <1>2, <1>3, Grows
<1>5. Text(q.tokens) = Text(p.tokens) \o t.literal
  BY <1>1, <1>3, TextAppend DEF Adds
<1>6. p.open # <<>> => /\ Kind(q, Top(q)) = Kind(p, Top(p))
                       /\ Len(Kids(q, Top(q))) = Len(Kids(p, Top(p))) + 1
  BY <1>3, TopAdded DEF Tree
<1>7. q.nodes # <<>>
  <2>1. Len(p.nodes) + 1 \in DOMAIN q.nodes
    BY <1>3, NodesType DEF Adds
  <2> QED BY <2>1
<1> QED BY <1>3, <1>4, <1>5, <1>6, <1>7 DEF q

\* A node that stays open.
LEMMA OpenOK ==
  ASSUME NEW p \in Parser, Tree(p), NEW t \in Tok,
         NEW type, MayOpen(p, type), t = Anchor <=> type \in WrapperType,
         type \in ContainerType => Opening(t)
  PROVE  LET q == Emit(Open(p, type), t)
         IN  /\ q \in Parser /\ Tree(q)
             /\ Text(q.tokens) = Text(p.tokens) \o t.literal
             /\ q.open # <<>> /\ Kind(q, Top(q)) = type /\ Len(Kids(q, Top(q))) = 0
<1> DEFINE q == Emit(Open(p, type), t)
<1>1. type \in NodeType /\ p.tokens \in Toks
  BY DEF NodeType, MayOpen, Parser
<1>2. q \in Parser /\ Adds(p, q, type, t) /\ q.open = Append(p.open, Len(p.nodes) + 1)
  BY <1>1, OpenIs
<1> HIDE DEF q
<1>3. Tree(q)
  BY <1>1, <1>2, Grows
<1>4. Text(q.tokens) = Text(p.tokens) \o t.literal
  BY <1>1, <1>2, TextAppend DEF Adds
<1>5. q.open # <<>> /\ Kind(q, Top(q)) = type /\ Len(Kids(q, Top(q))) = 0
  BY <1>2, TopAdded DEF Tree
<1> QED BY <1>2, <1>3, <1>4, <1>5 DEF q

\* A field or an element, that has no text before its key or value.
LEMMA WrapOK ==
  ASSUME NEW p \in Parser, Tree(p), NEW type,
         p.open # <<>>,
         \/ type = "field" /\ Kind(p, Top(p)) = "object"
         \/ type = "element" /\ Kind(p, Top(p)) = "array"
  PROVE  LET q == Wrap(p, type)
         IN  /\ q \in Parser /\ Tree(q) /\ Text(q.tokens) = Text(p.tokens)
             /\ q.open # <<>> /\ Kind(q, Top(q)) = type /\ Len(Kids(q, Top(q))) = 0
<1> DEFINE q == Wrap(p, type)
<1>1. MayOpen(p, type) /\ type \in WrapperType /\ type \notin ContainerType
  BY DEF MayOpen, ContainerType, WrapperType
<1>2. /\ q \in Parser /\ Tree(q)
      /\ Text(q.tokens) = Text(p.tokens) \o <<>>
      /\ q.open # <<>> /\ Kind(q, Top(q)) = type /\ Len(Kids(q, Top(q))) = 0
  <2>1. PICK t \in Tok : t = Anchor
    BY AnchorIs
  <2>2. t.literal = <<>> /\ q = Emit(Open(p, type), t)
    BY <2>1, AnchorIs DEF Wrap
  <2> HIDE DEF q
  <2>3. t = Anchor <=> type \in WrapperType
    BY <1>1, <2>1
  <2> DEFINE o == Emit(Open(p, type), t)
  <2>4. /\ o \in Parser /\ Tree(o)
        /\ Text(o.tokens) = Text(p.tokens) \o t.literal
        /\ o.open # <<>> /\ Kind(o, Top(o)) = type /\ Len(Kids(o, Top(o))) = 0
    BY <1>1, <2>3, OpenOK
  <2> HIDE DEF o
  <2>5. Text(o.tokens) = Text(p.tokens) \o <<>>
    BY <2>2, <2>4
  <2>6. q = o
    BY <2>2 DEF o
  <2> QED BY <2>4, <2>5, <2>6
<1>3. Text(p.tokens) \in Seq(AnyLexeme)
  BY TextType DEF Parser, Txt
<1> QED BY <1>2, <1>3, ConcatEmpty

LEMMA ParseValueOK ==
  ASSUME NEW p \in Parser, Tree(p), Wants(p), NEW t \in LexTok
  PROVE  Read(p, ParseValue(p, t), t)
<1>1. ASSUME NEW type \in {"string", "number", "bool", "null"}
      PROVE  Read(p, Finish(Leaf(p, type, t)), t)
  <2> DEFINE q == Leaf(p, type, t)
  <2>1. IF p.open = <<>> THEN p.nodes = <<>> ELSE Kind(p, Top(p)) \in WrapperType
    BY DEF Wants, WrapperType
  <2>2. /\ q \in Parser /\ Tree(q) /\ q.open = p.open /\ q.nodes # <<>>
        /\ Text(q.tokens) = Text(p.tokens) \o t.literal
        /\ p.open # <<>> => /\ Kind(q, Top(q)) = Kind(p, Top(p))
                            /\ Len(Kids(q, Top(q))) = Len(Kids(p, Top(p))) + 1
    BY <2>1, LeafOK
  <2> HIDE DEF q
  <2>3. Has(q)
    <3>1. SUFFICES ASSUME q.open # <<>> PROVE Kind(q, Top(q)) \in WrapperType /\ Full(q, Top(q))
      BY <2>2 DEF Has
    <3>2. CASE Kind(p, Top(p)) = "field" /\ Len(Kids(p, Top(p))) = 1
      <4>1. Kind(q, Top(q)) = "field" /\ Len(Kids(q, Top(q))) = 1 + 1
        BY <2>2, <3>1, <3>2
      <4> QED BY <4>1 DEF Full, WrapperType
    <3>3. CASE Kind(p, Top(p)) = "element" /\ Len(Kids(p, Top(p))) = 0
      <4>1. Kind(q, Top(q)) = "element" /\ Len(Kids(q, Top(q))) = 0 + 1
        BY <2>2, <3>1, <3>3
      <4> QED BY <4>1 DEF Full, WrapperType
    <3> QED BY <2>2, <3>1, <3>2, <3>3 DEF Wants
  <2> QED BY <2>2, <2>3, FinishOK DEF Read, q
<1>2. ASSUME NEW type \in ContainerType, NEW a,
             \/ type = "object" /\ a = "first member"
             \/ type = "array" /\ a = "first element",
             t.literal[1] \in {"{", "["}
      PROVE  Read(p, [Emit(Open(p, type), t) EXCEPT !.at = a], t)
  <2> DEFINE o == Emit(Open(p, type), t)
             q == [o EXCEPT !.at = a]
  <2>1. t \in Tok /\ t # Anchor /\ type \notin WrapperType
    BY LexTokNoAnchor DEF ContainerType, WrapperType
  <2>2. MayOpen(p, type)
    BY DEF Wants, MayOpen, ContainerType, WrapperType
  <2>9. Opening(t)
    BY <1>2, Brackets
  <2>3. /\ o \in Parser /\ Tree(o)
        /\ Text(o.tokens) = Text(p.tokens) \o t.literal
        /\ o.open # <<>> /\ Kind(o, Top(o)) = type
    BY <2>1, <2>2, <2>9, OpenOK
  <2> HIDE DEF o
  <2>4. a \in Place
    BY <1>2 DEF Place
  <2>5. /\ q \in Parser /\ Tree(q) /\ q.tokens = o.tokens /\ q.open # <<>> /\ q.at = a
        /\ Kind(q, Top(q)) = type
    BY <2>3, <2>4, AtIs
  <2> HIDE DEF q
  <2>6. Placed(q)
    BY <1>2, <2>5 DEF Placed
  <2> QED BY <2>3, <2>5, <2>6 DEF Read, Good, q, o
<1> DEFINE string == Finish(Leaf(p, "string", t))
           number == Finish(Leaf(p, "number", t))
           bool == Finish(Leaf(p, "bool", t))
           null == Finish(Leaf(p, "null", t))
           object == [Emit(Open(p, "object"), t) EXCEPT !.at = "first member"]
           array == [Emit(Open(p, "array"), t) EXCEPT !.at = "first element"]
           error == Error(p)
<1>3. ParseValue(p, t) =
        CASE t.type = "string" -> string
          [] t.type = "number" -> number
          [] t.literal[1] \in {"true", "false"} -> bool
          [] t.literal[1] = "null" -> null
          [] t.literal[1] = "{" -> object
          [] t.literal[1] = "[" -> array
          [] OTHER -> error
  BY DEF ParseValue
<1>4. Read(p, string, t) /\ Read(p, number, t) /\ Read(p, bool, t) /\ Read(p, null, t)
  BY <1>1
<1>5. /\ t.literal[1] = "{" => Read(p, object, t)
      /\ t.literal[1] = "[" => Read(p, array, t)
  BY <1>2 DEF ContainerType
<1>6. Read(p, error, t)
  BY ErrorOK
<1> HIDE DEF string, number, bool, null, object, array, error
<1> QED BY <1>3, <1>4, <1>5, <1>6

LEMMA ParseKeyOK ==
  ASSUME NEW p \in Parser, Tree(p), p.open # <<>>, Kind(p, Top(p)) = "object", NEW t \in LexTok
  PROVE  Read(p, ParseKey(p, t), t)
<1> DEFINE w == Wrap(p, "field")
           l == Leaf(w, "string", t)
           q == [l EXCEPT !.at = "colon"]
<1>1. /\ w \in Parser /\ Tree(w) /\ Text(w.tokens) = Text(p.tokens)
      /\ w.open # <<>> /\ Kind(w, Top(w)) = "field" /\ Len(Kids(w, Top(w))) = 0
  BY WrapOK
<1> HIDE DEF w
<1>2. /\ l \in Parser /\ Tree(l) /\ l.open = w.open
      /\ Text(l.tokens) = Text(p.tokens) \o t.literal
      /\ Kind(l, Top(l)) = "field" /\ Len(Kids(l, Top(l))) = 0 + 1
  <2>1. IF w.open = <<>> THEN w.nodes = <<>> ELSE Kind(w, Top(w)) \in WrapperType
    BY <1>1 DEF WrapperType
  <2>2. "string" \in {"string", "number", "bool", "null"}
    OBVIOUS
  <2>3. /\ l \in Parser /\ Tree(l) /\ l.open = w.open
        /\ Text(l.tokens) = Text(w.tokens) \o t.literal
        /\ w.open # <<>> => /\ Kind(l, Top(l)) = Kind(w, Top(w))
                            /\ Len(Kids(l, Top(l))) = Len(Kids(w, Top(w))) + 1
    BY <1>1, <2>1, <2>2, LeafOK
  <2> HIDE DEF l
  <2> QED BY <1>1, <2>3
<1> HIDE DEF l
<1>3. "colon" \in Place
  BY DEF Place
<1>4. /\ q \in Parser /\ Tree(q) /\ q.tokens = l.tokens /\ q.open = l.open /\ q.at = "colon"
      /\ Kind(q, Top(q)) = "field" /\ Len(Kids(q, Top(q))) = 1
  BY <1>2, <1>3, AtIs
<1> HIDE DEF q
<1>5. Read(p, q, t)
  <2>1. Placed(q)
    BY <1>1, <1>2, <1>4 DEF Placed
  <2> QED BY <1>2, <1>4, <2>1 DEF Read, Good
<1>6. ParseKey(p, t) = q \/ ParseKey(p, t) = Error(p)
  BY DEF ParseKey, q, l, w
<1> QED BY <1>5, <1>6, ErrorOK

\* A token that is only passed.
LEMMA PassOK ==
  ASSUME NEW p \in Parser, Tree(p), NEW t \in LexTok, NEW a \in Place
  PROVE  LET q == [Emit(p, t) EXCEPT !.at = a]
         IN  /\ q \in Parser /\ Tree(q) /\ q.open = p.open /\ q.nodes = p.nodes /\ q.at = a
             /\ Text(q.tokens) = Text(p.tokens) \o t.literal
             /\ Top(q) = Top(p) /\ \A k : Kind(q, k) = Kind(p, k) /\ Kids(q, k) = Kids(p, k)
<1> DEFINE e == Emit(p, t)
<1>1. t \in Tok /\ p.tokens \in Toks
  BY LexTokNoAnchor DEF Parser
<1>2. e \in Parser /\ e.tokens = Append(p.tokens, t) /\ e.nodes = p.nodes /\ e.open = p.open
  BY <1>1, EmitIs
<1> HIDE DEF e
<1>3. Tree(e) /\ Text(e.tokens) = Text(p.tokens) \o t.literal
  BY <1>1, <1>2, Emits, TextAppend
<1>4. Top(e) = Top(p) /\ \A k : Kind(e, k) = Kind(p, k) /\ Kids(e, k) = Kids(p, k)
  BY <1>2 DEF Top, Kind, Kids
<1> DEFINE q == [e EXCEPT !.at = a]
<1>5. /\ q \in Parser /\ q.tokens = e.tokens /\ q.open = e.open /\ q.nodes = e.nodes /\ q.at = a
      /\ Tree(q) /\ Top(q) = Top(e) /\ \A k : Kind(q, k) = Kind(e, k) /\ Kids(q, k) = Kids(e, k)
  BY <1>2, <1>3, AtIs
<1> HIDE DEF q
<1>6. /\ q \in Parser /\ Tree(q) /\ q.open = p.open /\ q.nodes = p.nodes /\ q.at = a
      /\ Text(q.tokens) = Text(p.tokens) \o t.literal
      /\ Top(q) = Top(p) /\ \A k : Kind(q, k) = Kind(p, k) /\ Kids(q, k) = Kids(p, k)
  BY <1>2, <1>3, <1>4, <1>5
<1> QED BY <1>6 DEF q, e

LEMMA ParseAfterOK ==
  ASSUME NEW p \in Parser, Tree(p), p.open # <<>>, Kind(p, Top(p)) \in ContainerType, NEW t \in LexTok
  PROVE  Read(p, ParseAfter(p, t), t)
<1> DEFINE isObject == p.nodes[Last(p.open)].type = "object"
           a == IF isObject THEN "next member" ELSE "next element"
           comma == [Emit(p, t) EXCEPT !.at = a]
           close == Close(p, t)
           error == Error(p)
<1>1. isObject <=> Kind(p, Top(p)) = "object"
  BY DEF Kind, Top, Last
<1>2. \/ Kind(p, Top(p)) = "object" /\ a = "next member"
      \/ Kind(p, Top(p)) = "array" /\ a = "next element"
  BY <1>1 DEF ContainerType
<1>3. ParseAfter(p, t) =
        CASE t.type = "comma" -> comma
          [] t.type # "comma" /\ t.literal[1] = (IF isObject THEN "}" ELSE "]") -> close
          [] OTHER -> error
  BY DEF ParseAfter
<1>4. Read(p, comma, t)
  <2> HIDE DEF a
  <2>1. a \in Place
    BY <1>2 DEF Place
  <2>2. /\ comma \in Parser /\ Tree(comma) /\ comma.open = p.open /\ comma.at = a
        /\ Text(comma.tokens) = Text(p.tokens) \o t.literal
        /\ Top(comma) = Top(p) /\ \A k : Kind(comma, k) = Kind(p, k) /\ Kids(comma, k) = Kids(p, k)
    BY <2>1, PassOK, ZenonT(30)
  <2> HIDE DEF comma
  <2>3. Placed(comma)
    BY <1>2, <2>2 DEF Placed
  <2> QED BY <2>2, <2>3 DEF Read, Good
<1>5. Read(p, close, t) /\ Read(p, error, t)
  BY CloseOK, ErrorOK DEF Read
<1> HIDE DEF isObject, comma, close, error
<1> QED BY <1>3, <1>4, <1>5

LEMMA StepOK ==
  ASSUME NEW p, Good(p), NEW t \in LexTok
  PROVE  /\ Read(p, ParseStep(p, t), t)
         /\ ParseStep(p, t).at # "error" => p.at # "error"
<1>0. p \in Parser /\ p.at \in Place /\ (p.at # "error" => Tree(p) /\ Placed(p))
  BY DEF Good, Parser
<1>1. ASSUME p.at # "error", Trivia(t)
      PROVE  Read(p, ParseStep(p, t), t)
  <2> DEFINE q == [Emit(p, t) EXCEPT !.at = p.at]
  <2>1. /\ q \in Parser /\ Tree(q) /\ q.open = p.open /\ q.nodes = p.nodes /\ q.at = p.at
        /\ Text(q.tokens) = Text(p.tokens) \o t.literal
        /\ Top(q) = Top(p) /\ \A k : Kind(q, k) = Kind(p, k) /\ Kids(q, k) = Kids(p, k)
    BY <1>0, <1>1, PassOK
  <2>2. ParseStep(p, t) = q
    <3>1. Emit(p, t) \in Parser /\ Emit(p, t).at = p.at
      BY <1>0, LexTokNoAnchor, EmitIs
    <3>2. Emit(p, t) = q
      <4> DEFINE e == Emit(p, t)
      <4> HIDE DEF e, Toks, NodeRecord, Place
      <4>1. e \in Parser /\ e.at = p.at
        BY <3>1 DEF e
      <4>2. e = [e EXCEPT !.at = p.at]
        BY <4>1 DEF Parser
      <4> QED BY <4>2 DEF e
    <3> QED BY <1>1, <3>2 DEF ParseStep
  <2> HIDE DEF q
  <2>3. Placed(q)
    BY <1>0, <1>1, <2>1 DEF Placed, Wants
  <2> QED BY <2>1, <2>2, <2>3 DEF Read, Good
<1>2. ASSUME p.at = "value" PROVE Read(p, ParseValue(p, t), t)
  BY <1>0, <1>2, ParseValueOK DEF Placed
<1>3. ASSUME p.at \in {"first element", "next element"}
      PROVE  /\ Read(p, ParseValue(Wrap(p, "element"), t), t)
             /\ Read(p, Close(p, t), t)
  <2> DEFINE w == Wrap(p, "element")
  <2>0. Tree(p) /\ p.open # <<>> /\ Kind(p, Top(p)) = "array" /\ Kind(p, Top(p)) \in ContainerType
    BY <1>0, <1>3 DEF Placed, ContainerType
  <2>1. /\ w \in Parser /\ Tree(w) /\ Text(w.tokens) = Text(p.tokens)
        /\ w.open # <<>> /\ Kind(w, Top(w)) = "element" /\ Len(Kids(w, Top(w))) = 0
    BY <1>0, <2>0, WrapOK
  <2> HIDE DEF w
  <2>2. Read(w, ParseValue(w, t), t)
    BY <2>1, ParseValueOK DEF Wants
  <2>3. Read(p, ParseValue(w, t), t)
    BY <2>1, <2>2 DEF Read
  <2>4. Read(p, Close(p, t), t)
    BY <1>0, <2>0, CloseOK DEF Read
  <2> QED BY <2>3, <2>4 DEF w
<1>4. ASSUME p.at \in {"first member", "next member"}
      PROVE  Read(p, ParseKey(p, t), t) /\ Read(p, Close(p, t), t)
  <2>0. Tree(p) /\ p.open # <<>> /\ Kind(p, Top(p)) = "object" /\ Kind(p, Top(p)) \in ContainerType
    BY <1>0, <1>4 DEF Placed, ContainerType
  <2> QED BY <1>0, <2>0, ParseKeyOK, CloseOK DEF Read
<1>5. ASSUME p.at = "colon" PROVE Read(p, [Emit(p, t) EXCEPT !.at = "value"], t)
  <2> DEFINE q == [Emit(p, t) EXCEPT !.at = "value"]
  <2>0. Tree(p) /\ p.open # <<>> /\ Kind(p, Top(p)) = "field" /\ Len(Kids(p, Top(p))) = 1
    BY <1>0, <1>5 DEF Placed
  <2>1. "value" \in Place
    BY DEF Place
  <2>2. /\ q \in Parser /\ Tree(q) /\ q.open = p.open /\ q.at = "value"
        /\ Text(q.tokens) = Text(p.tokens) \o t.literal
        /\ Top(q) = Top(p) /\ \A k : Kind(q, k) = Kind(p, k) /\ Kids(q, k) = Kids(p, k)
    BY <1>0, <2>0, <2>1, PassOK, ZenonT(30)
  <2> HIDE DEF q
  <2>3. Placed(q)
    BY <2>0, <2>2 DEF Placed, Wants
  <2> QED BY <2>2, <2>3 DEF Read, Good, q
<1>6. ASSUME p.at = "after" PROVE Read(p, ParseAfter(p, t), t)
  BY <1>0, <1>6, ParseAfterOK DEF Placed
<1>7. Read(p, Error(p), t) /\ Error(p).at = "error"
  <2>1. "error" \in Place
    BY DEF Place
  <2> QED BY <1>0, <2>1, ErrorOK, AtIs DEF Error
<1>8. Read(p, ParseToken(p, t), t)
  <2>1. CASE p.at = "value"
    BY <1>2, <2>1, Zenon DEF ParseToken
  <2>2. CASE p.at \in {"first element", "next element"}
    <3>1. ParseToken(p, t) = IF t.literal[1] # "]" THEN ParseValue(Wrap(p, "element"), t)
                             ELSE IF MayClose(p, "first element") THEN Close(p, t) ELSE Error(p)
      BY <2>2 DEF ParseToken
    <3> QED BY <1>3, <1>7, <2>2, <3>1, Zenon
  <2>3. CASE p.at \in {"first member", "next member"}
    <3>1. ParseToken(p, t) = IF t.literal[1] # "}" THEN ParseKey(p, t)
                             ELSE IF MayClose(p, "first member") THEN Close(p, t) ELSE Error(p)
      BY <2>3 DEF ParseToken
    <3> QED BY <1>4, <1>7, <2>3, <3>1, Zenon
  <2>4. CASE p.at = "colon"
    <3>1. ParseToken(p, t) = IF t.type = "colon" THEN [Emit(p, t) EXCEPT !.at = "value"] ELSE Error(p)
      BY <2>4 DEF ParseToken
    <3> QED BY <1>5, <1>7, <2>4, <3>1, Zenon
  <2>5. CASE p.at = "after"
    <3>1. ParseToken(p, t) = ParseAfter(p, t)
      BY <2>5 DEF ParseToken
    <3> QED BY <1>6, <2>5, <3>1, Zenon
  <2>6. CASE p.at \in {"end", "error"}
    <3>1. ParseToken(p, t) = Error(p)
      BY <2>6 DEF ParseToken
    <3> QED BY <1>7, <3>1, Zenon
  <2> QED BY <1>0, <2>1, <2>2, <2>3, <2>4, <2>5, <2>6 DEF Place
<1>9. p.at = "error" => ParseStep(p, t) = Error(p)
  BY DEF ParseStep, ParseToken
<1>10. Read(p, ParseStep(p, t), t)
  BY <1>1, <1>8, Zenon DEF ParseStep
<1> QED BY <1>7, <1>9, <1>10

-----------------------------------------------------------------------------
(***************************************************************************)
(* Parsing a text.                                                         *)
(***************************************************************************)
Parses(f, ts) ==
  f[0] = Start /\ \A n \in 1 .. Len(ts) : f[n] = ParseStep(f[n - 1], ts[n])

GoodParser == {p \in Parser : Good(p)}

LEMMA StartOK == Start \in GoodParser
<1>1. Start \in Parser
  BY DEF Start, Parser, Toks, Place
<1>2. Tree(Start)
  BY DEF Start, Tree, Nested, Spans, Ordered, Filled, Anchored, Housed, Shaped, Wide
<1>3. Placed(Start)
  BY DEF Start, Placed, Wants
<1> QED BY <1>1, <1>2, <1>3 DEF GoodParser, Good

LEMMA DecodeIsFold ==
  ASSUME NEW x \in Txt
  PROVE  \E f \in [0 .. Len(Lex(x)) -> GoodParser] : Parses(f, Lex(x)) /\ Decode(x) = f[Len(Lex(x))]
<1> DEFINE ts == Lex(x)
           N == Len(ts)
           step == [p \in GoodParser \X (1 .. N) |-> ParseStep(p[1], ts[p[2]])]
<1>1. N \in Nat /\ \A n \in 1 .. N : ts[n] \in LexTok /\ n - 1 \in 0 .. N
  <2>1. ts \in Seq(LexTok)
    BY LexKeepsText DEF LexToks
  <2> HIDE DEF ts, LexTok
  <2> QED BY <2>1
<1> HIDE DEF N, ts
<1>2. step \in [GoodParser \X (1 .. N) -> GoodParser]
  <2>1. ASSUME NEW v \in GoodParser, NEW n \in 1 .. N PROVE ParseStep(v, ts[n]) \in GoodParser
    BY <1>1, StepOK DEF GoodParser, Read, Good
  <2> QED BY <2>1
<1>3. PICK f : f \in [0 .. N -> GoodParser] /\ IsFold(f, N, Start, step)
  <2> HIDE DEF step
  <2> QED BY <1>1, <1>2, StartOK, FoldExists
<1>4. f[0] = Start /\ \A n \in 1 .. N : f[n] = ParseStep(f[n - 1], ts[n])
  <2>1. ASSUME NEW n \in 1 .. N PROVE f[n] = ParseStep(f[n - 1], ts[n])
    <3>1. f[n - 1] \in GoodParser
      BY <1>1, <1>3
    <3>2. step[<<f[n - 1], n>>] = ParseStep(f[n - 1], ts[n])
      BY <3>1
    <3> QED BY <1>3, <3>2 DEF IsFold
  <2> QED BY <1>3, <2>1 DEF IsFold
<1> DEFINE Is(h) == h = [i \in 0 .. N |-> IF i = 0 THEN Start ELSE ParseStep(h[i - 1], ts[i])]
           g == CHOOSE h : Is(h)
<1>5. Is(f)
  <2>1. ASSUME NEW i \in 0 .. N PROVE f[i] = IF i = 0 THEN Start ELSE ParseStep(f[i - 1], ts[i])
    BY <1>1, <1>4
  <2> QED BY <1>3, <2>1
<1>6. Is(g)
  <2> HIDE DEF Is
  <2> QED BY <1>5
<1>7. Decode(x) = g[N]
  BY DEF Decode, N, ts
<1> HIDE DEF g
<1>8. \A n \in 0 .. N : g[n] = f[n]
  <2>1. g[0] = f[0] /\ N \in Nat
    BY <1>1, <1>4, <1>6
  <2>2. ASSUME NEW n \in 1 .. N, g[n - 1] = f[n - 1] PROVE g[n] = f[n]
    <3>1. g[n] = ParseStep(g[n - 1], ts[n])
      BY <1>1, <1>6
    <3> QED BY <1>4, <2>2, <3>1
  <2> HIDE DEF Is
  <2>3. Alike(g, f, N)
    BY <2>1, <2>2 DEF Alike
  <2> QED BY <2>1, <2>3, SameFold
<1> HIDE DEF Is
<1>9. Decode(x) = f[N]
  BY <1>1, <1>7, <1>8
<1> QED BY <1>3, <1>4, <1>9 DEF Parses, N, ts

\* What was decoded without an error is a tree over tokens that have the text.
LEMMA DecodeOK ==
  ASSUME NEW x \in Txt
  PROVE  Good(Decode(x)) /\ (Decode(x).at # "error" => Text(Decode(x).tokens) = x)
<1> DEFINE ts == Lex(x)
           N == Len(ts)
<1>1. ts \in Seq(LexTok) /\ ts \in LexToks /\ Text(ts) = x
  BY LexKeepsText DEF LexToks
<1>2. PICK f : f \in [0 .. N -> GoodParser] /\ Parses(f, ts) /\ Decode(x) = f[N]
  BY DecodeIsFold
<1> HIDE DEF ts
<1>3. N \in Nat /\ SubSeq(ts, 1, 0) = <<>> /\ SubSeq(ts, 1, N) = ts
  <2> HIDE DEF LexTok
  <2>1. N \in Nat
    BY <1>1
  <2> QED BY <1>1, <2>1, PrefixEnds
<1>4. f[0] = Start /\ \A n \in 1 .. N : f[n] = ParseStep(f[n - 1], ts[n])
  BY <1>2 DEF Parses
<1> DEFINE M == {n \in 0 .. N : f[n].at # "error" => Text(f[n].tokens) = Text(SubSeq(ts, 1, n))}
<1>5. 0 \in M
  <2>1. f[0].tokens = SubSeq(ts, 1, 0)
    BY <1>3, <1>4 DEF Start
  <2>2. Text(f[0].tokens) = Text(SubSeq(ts, 1, 0))
    BY <2>1, Zenon
  <2> HIDE DEF N
  <2> QED BY <1>3, <2>2
<1>6. ASSUME NEW n \in 1 .. N, n - 1 \in M PROVE n \in M
  <2> DEFINE before == SubSeq(ts, 1, n - 1)
  <2>1. /\ before \in LexToks /\ ts[n] \in LexTok
        /\ SubSeq(ts, 1, n) = Append(before, ts[n])
    <3> HIDE DEF LexTok
    <3> QED BY <1>1, PrefixStep DEF LexToks
  <2> HIDE DEF before
  <2>2. Text(SubSeq(ts, 1, n)) = Text(before) \o ts[n].literal
    BY <2>1, LexTokType, TextAppend
  <2> HIDE DEF N
  <2>3. Good(f[n - 1]) /\ n - 1 \in 0 .. N /\ n \in 0 .. N
    BY <1>2, <1>3 DEF GoodParser
  <2>4. /\ Read(f[n - 1], f[n], ts[n])
        /\ f[n].at # "error" => f[n - 1].at # "error"
    BY <1>4, <2>1, <2>3, StepOK
  <2>5. ASSUME f[n].at # "error" PROVE Text(f[n].tokens) = Text(SubSeq(ts, 1, n))
    <3>1. Text(f[n].tokens) = Text(f[n - 1].tokens) \o ts[n].literal
      BY <2>4, <2>5 DEF Read
    <3>2. Text(f[n - 1].tokens) = Text(before)
      BY <1>6, <2>4, <2>5 DEF before
    <3> QED BY <2>2, <3>1, <3>2
  <2> QED BY <2>3, <2>5
<1>7. \A n \in 0 .. N : n \in M
  <2> HIDE DEF M, N
  <2> QED BY <1>3, <1>5, <1>6, UpTo
<1>8. f[N] \in GoodParser /\ N \in M
  <2> HIDE DEF M, N
  <2>1. N \in 0 .. N
    BY <1>3
  <2> QED BY <1>2, <1>7, <2>1
<1>9. f[N].at # "error" => Text(f[N].tokens) = Text(SubSeq(ts, 1, N))
  BY <1>8
<1> QED BY <1>1, <1>2, <1>3, <1>8, <1>9 DEF GoodParser

-----------------------------------------------------------------------------
(***************************************************************************)
(* What stands between the nodes.  The outline of a text is the types of   *)
(* its tokens and the places where nodes begin and end.  Every token that  *)
(* is no trivia and no separator begins or ends a node, and a separator    *)
(* stands between the end of a node and the beginning of another, or the   *)
(* end of a container, with only trivia around it.                         *)
(***************************************************************************)
Blank == {"whitespace", "newline", "comment"}
Separator == {"comma", "colon"}

IsOutline(o) ==
  /\ o.n \in Nat
  /\ o.opens \subseteq 1 .. o.n /\ o.closes \subseteq 1 .. o.n /\ o.shuts \subseteq o.closes

Blanks(o, i, j) == \A m \in 1 .. o.n : i < m /\ m < j => o.type[m] \in Blank

\* Nodes begin and end with tokens of their own, which alone are not quiet.
Edged(o) ==
  \A i \in 1 .. o.n : (i \in o.opens \union o.closes) <=> (o.type[i] \notin Blank \union Separator)

Led(o, i) == \E m \in o.closes : m < i /\ Blanks(o, m, i)

Followed(o, i) ==
  \E m \in o.opens \union o.shuts :
    i < m /\ Blanks(o, i, m) /\ (o.type[i] = "colon" => m \in o.opens)

Parted(o) == \A i \in 1 .. o.n : o.type[i] \in Separator => Led(o, i) /\ Followed(o, i)

\* The same of a text that goes on: what follows its last separator comes later ...
Partial(o) ==
  \A i \in 1 .. o.n : o.type[i] \in Separator => Led(o, i) /\ (Followed(o, i) \/ Blanks(o, i, o.n + 1))

\* ... which is a comma.
Listing(o) ==
  \A i \in 1 .. o.n : o.type[i] \in Separator =>
    Led(o, i) /\ (Followed(o, i) \/ (o.type[i] = "comma" /\ Blanks(o, i, o.n + 1)))

\* A node has just ended.
Done(o) == \E m \in o.closes : Blanks(o, m, o.n + 1)

\* r is o with one more token.
Longer(o, r) ==
  /\ IsOutline(o) /\ IsOutline(r) /\ r.n = o.n + 1
  /\ \A i \in 1 .. o.n :
       /\ r.type[i] = o.type[i]
       /\ i \in r.opens <=> i \in o.opens
       /\ i \in r.closes <=> i \in o.closes
       /\ i \in r.shuts <=> i \in o.shuts
  /\ (r.n \in r.opens \union r.closes) <=> (r.type[r.n] \notin Blank \union Separator)

LEMMA LongerIs ==
  ASSUME NEW o, NEW r, Longer(o, r)
  PROVE  /\ o.n \in Nat /\ r.n = o.n + 1
         /\ \A i, j \in 0 .. o.n + 1 : Blanks(o, i, j) => Blanks(r, i, j)
         /\ \A i \in 1 .. o.n : Led(o, i) => Led(r, i)
         /\ \A i \in 1 .. o.n : Followed(o, i) => Followed(r, i)
         /\ r.type[r.n] \in Blank => \A i \in 0 .. o.n + 1 : Blanks(o, i, o.n + 1) => Blanks(r, i, r.n + 1)
         /\ Edged(o) => Edged(r)
         /\ \A i \in 1 .. r.n : (i \in 1 .. o.n /\ i < r.n /\ r.type[i] = o.type[i]) \/ i = r.n
<1>1. o.n \in Nat /\ r.n = o.n + 1
  BY DEF IsOutline, Longer
<1>2. \A i, j \in 0 .. o.n + 1 : Blanks(o, i, j) => Blanks(r, i, j)
  BY <1>1 DEF Longer, Blanks
<1>3. \A i \in 1 .. o.n : Led(o, i) => Led(r, i)
  <2>1. \A m \in o.closes : m \in 1 .. o.n /\ m \in r.closes
    BY DEF Longer, IsOutline
  <2>2. \A m \in 1 .. o.n : m \in 0 .. o.n + 1
    BY <1>1
  <2> QED BY <1>2, <2>1, <2>2 DEF Led
<1>4. \A i \in 1 .. o.n : Followed(o, i) => Followed(r, i)
  <2>1. \A m \in o.opens \union o.shuts :
          m \in 1 .. o.n /\ m \in r.opens \union r.shuts /\ (m \in o.opens => m \in r.opens)
    BY DEF Longer, IsOutline
  <2>2. \A m \in 1 .. o.n : m \in 0 .. o.n + 1 /\ r.type[m] = o.type[m]
    BY <1>1 DEF Longer
  <2> QED BY <1>2, <2>1, <2>2 DEF Followed
<1>5. r.type[r.n] \in Blank => \A i \in 0 .. o.n + 1 : Blanks(o, i, o.n + 1) => Blanks(r, i, r.n + 1)
  <2>1. \A m \in 1 .. o.n + 1 : m \in 1 .. o.n \/ m = o.n + 1
    BY <1>1
  <2>2. \A m \in 1 .. o.n : m < o.n + 1
    BY <1>1
  <2> QED BY <2>1, <2>2 DEF Longer, Blanks
<1>6. Edged(o) => Edged(r)
  <2>1. \A m \in 1 .. o.n + 1 : m \in 1 .. o.n \/ m = o.n + 1
    BY <1>1
  <2> QED BY <2>1 DEF Longer, Edged
<1>7. \A i \in 1 .. r.n : (i \in 1 .. o.n /\ i < r.n /\ r.type[i] = o.type[i]) \/ i = r.n
  BY <1>1 DEF Longer
<1> QED BY <1>1, <1>2, <1>3, <1>4, <1>5, <1>6, <1>7

\* A blank token changes nothing.
LEMMA BlankLonger ==
  ASSUME NEW o, NEW r, Longer(o, r), r.type[r.n] \in Blank
  PROVE  /\ Edged(o) => Edged(r)
         /\ Partial(o) => Partial(r)
         /\ Listing(o) => Listing(r)
         /\ Parted(o) => Parted(r)
         /\ Done(o) => Done(r)
<1>1. \A i \in 1 .. r.n : r.type[i] \in Separator => i \in 1 .. o.n /\ i \in 0 .. o.n + 1 /\ r.type[i] = o.type[i]
  BY LongerIs DEF Blank, Separator
<1>2. Done(o) => Done(r)
  BY LongerIs DEF Done, Longer, IsOutline
<1> QED BY LongerIs, <1>1, <1>2 DEF Partial, Listing, Parted

\* A node begins.
LEMMA OpenLonger ==
  ASSUME NEW o, NEW r, Longer(o, r), r.n \in r.opens, Edged(o), Partial(o)
  PROVE  Edged(r) /\ Parted(r) /\ (r.n \in r.closes => Done(r))
<1>1. r.type[r.n] \notin Separator
  BY DEF Longer
<1>2. \A i \in 1 .. r.n : r.type[i] \in Separator =>
        i \in 1 .. o.n /\ r.type[i] = o.type[i] /\ i < r.n /\ i \in 0 .. o.n + 1 /\ r.n \in 0 .. o.n + 1
  BY <1>1, LongerIs
<1>3. \A i \in 1 .. o.n : i < r.n /\ Blanks(r, i, r.n) => Followed(r, i)
  BY DEF Followed
<1>4. Blanks(r, r.n, r.n + 1)
  BY LongerIs DEF Blanks
<1> QED BY LongerIs, <1>2, <1>3, <1>4 DEF Partial, Parted, Done

\* A node ends.
LEMMA CloseLonger ==
  ASSUME NEW o, NEW r, Longer(o, r), r.n \in r.closes, Edged(o),
         Parted(o) \/ (Listing(o) /\ r.n \in r.shuts)
  PROVE  Edged(r) /\ Parted(r) /\ Done(r)
<1>1. r.type[r.n] \notin Separator
  BY DEF Longer
<1>2. \A i \in 1 .. r.n : r.type[i] \in Separator =>
        i \in 1 .. o.n /\ r.type[i] = o.type[i] /\ i < r.n /\ i \in 0 .. o.n + 1 /\ r.n \in 0 .. o.n + 1
  BY <1>1, LongerIs
<1>3. \A i \in 1 .. o.n : i < r.n /\ Blanks(r, i, r.n) /\ r.type[i] = "comma" /\ r.n \in r.shuts => Followed(r, i)
  BY DEF Followed
<1>4. Blanks(r, r.n, r.n + 1)
  BY LongerIs DEF Blanks
<1> QED BY LongerIs, <1>2, <1>3, <1>4 DEF Listing, Parted, Done

\* A separator, behind the end of a node.
LEMMA SeparatorLonger ==
  ASSUME NEW o, NEW r, Longer(o, r), r.type[r.n] \in Separator, Edged(o), Parted(o), Done(o)
  PROVE  Edged(r) /\ Partial(r) /\ (r.type[r.n] = "comma" => Listing(r))
<1>1. Led(r, r.n)
  <2>1. PICK m \in o.closes : Blanks(o, m, o.n + 1)
    BY DEF Done
  <2>2. m \in 0 .. o.n + 1 /\ m < r.n /\ m \in r.closes /\ o.n + 1 \in 0 .. o.n + 1
    BY LongerIs DEF IsOutline, Longer
  <2> QED BY LongerIs, <2>1, <2>2 DEF Led
<1>2. Blanks(r, r.n, r.n + 1)
  BY LongerIs DEF Blanks
<1> QED BY LongerIs, <1>1, <1>2 DEF Partial, Listing, Parted

-----------------------------------------------------------------------------
(***************************************************************************)
(* The outline of what the parser has read.                                *)
(***************************************************************************)
BeginsAt(p, i) == \E k \in DOMAIN p.nodes : Begins(p, k) = i
EndsAt(p, i) == \E k \in DOMAIN p.nodes : ~IsOpen(p, k) /\ Ends(p, k) = i
ShutsAt(p, i) ==
  \E k \in DOMAIN p.nodes : ~IsOpen(p, k) /\ Kind(p, k) \in ContainerType /\ Ends(p, k) = i

Outline(p) ==
  [n |-> Len(p.tokens),
   type |-> [i \in DOMAIN p.tokens |-> p.tokens[i].type],
   opens |-> {Begins(p, k) : k \in DOMAIN p.nodes},
   closes |-> {Ends(p, k) : k \in {m \in DOMAIN p.nodes : ~IsOpen(p, m)}},
   shuts |-> {Ends(p, k) : k \in {m \in DOMAIN p.nodes : ~IsOpen(p, m) /\ Kind(p, m) \in ContainerType}}]

LEMMA OutlineIs ==
  ASSUME NEW p \in Parser, Tree(p)
  PROVE  /\ IsOutline(Outline(p)) /\ Outline(p).n = Len(p.tokens)
         /\ \A i \in DOMAIN p.tokens : Outline(p).type[i] = p.tokens[i].type
         /\ \A i : i \in Outline(p).opens <=> BeginsAt(p, i)
         /\ \A i : i \in Outline(p).closes <=> EndsAt(p, i)
         /\ \A i : i \in Outline(p).shuts <=> ShutsAt(p, i)
<1>1. Len(p.tokens) \in Nat /\ DOMAIN p.tokens = 1 .. Len(p.tokens)
  BY DEF Parser, Toks
<1>2. /\ Outline(p).n = Len(p.tokens)
      /\ \A i \in DOMAIN p.tokens : Outline(p).type[i] = p.tokens[i].type
      /\ \A i : i \in Outline(p).opens <=> BeginsAt(p, i)
      /\ \A i : i \in Outline(p).closes <=> EndsAt(p, i)
      /\ \A i : i \in Outline(p).shuts <=> ShutsAt(p, i)
  BY DEF Outline, BeginsAt, EndsAt, ShutsAt
<1>3. \A k \in DOMAIN p.nodes : /\ Begins(p, k) \in 1 .. Len(p.tokens)
                                /\ ~IsOpen(p, k) => Ends(p, k) \in 1 .. Len(p.tokens)
  <2>1. \A k \in DOMAIN p.nodes : /\ Begins(p, k) \in 1 .. Len(p.tokens)
                                  /\ ~IsOpen(p, k) => Ends(p, k) \in Begins(p, k) .. Len(p.tokens)
    BY DEF Tree, Spans
  <2> QED BY ONLY <1>1, <2>1
<1> QED BY <1>1, <1>2, <1>3 DEF IsOutline, BeginsAt, EndsAt, ShutsAt

Loud(t) == t.type \notin Blank \union Separator

\* A token is read that begins and ends no node ...
LEMMA PassOutline ==
  ASSUME NEW p \in Parser, Tree(p), NEW t \in LexTok, ~Loud(t), NEW q \in Parser,
         q.tokens = Append(p.tokens, t), q.nodes = p.nodes, q.open = p.open
  PROVE  /\ Longer(Outline(p), Outline(q)) /\ Outline(q).n = Len(q.tokens)
         /\ Outline(q).type[Len(q.tokens)] = t.type
<1> DEFINE n == Len(p.tokens)
<1>1. Tree(q) /\ t \in Tok
  BY Emits, LexTokNoAnchor
<1>2. /\ n \in Nat /\ Len(q.tokens) = n + 1
      /\ DOMAIN p.tokens = 1 .. n /\ DOMAIN q.tokens = 1 .. n + 1
      /\ \A i \in DOMAIN p.tokens : q.tokens[i] = p.tokens[i]
      /\ q.tokens[n + 1] = t
  BY <1>1, TokensLonger
<1> HIDE DEF n
<1> DEFINE o == Outline(p)
           r == Outline(q)
<1>4. /\ IsOutline(o) /\ o.n = n /\ \A i \in 1 .. n : o.type[i] = p.tokens[i].type
      /\ \A i : i \in o.opens <=> BeginsAt(p, i)
      /\ \A i : i \in o.closes <=> EndsAt(p, i)
      /\ \A i : i \in o.shuts <=> ShutsAt(p, i)
  BY <1>2, OutlineIs DEF n
<1>5. /\ IsOutline(r) /\ r.n = n + 1 /\ \A i \in 1 .. n + 1 : r.type[i] = q.tokens[i].type
      /\ \A i : i \in r.opens <=> BeginsAt(q, i)
      /\ \A i : i \in r.closes <=> EndsAt(q, i)
      /\ \A i : i \in r.shuts <=> ShutsAt(q, i)
  BY <1>1, <1>2, OutlineIs
<1> HIDE DEF o, r
<1>6. \A i : /\ i \in r.opens <=> i \in o.opens
             /\ i \in r.closes <=> i \in o.closes
             /\ i \in r.shuts <=> i \in o.shuts
  <2>1. \A i : /\ BeginsAt(q, i) <=> BeginsAt(p, i)
               /\ EndsAt(q, i) <=> EndsAt(p, i)
               /\ ShutsAt(q, i) <=> ShutsAt(p, i)
    BY DEF BeginsAt, EndsAt, ShutsAt, Begins, Ends, Kind, IsOpen
  <2> QED BY <1>4, <1>5, <2>1
<1>7. \A i \in 1 .. n : r.type[i] = o.type[i]
  BY <1>2, <1>4, <1>5
<1>8. r.type[r.n] = t.type /\ r.n \notin r.opens \union r.closes
  BY <1>2, <1>4, <1>5, <1>6 DEF IsOutline
<1>9. Longer(o, r)
  BY <1>4, <1>5, <1>6, <1>7, <1>8 DEF Longer, Loud
<1> QED BY <1>2, <1>5, <1>8, <1>9 DEF o, r

\* ... the innermost open node ends with a token ...
LEMMA ShutOutline ==
  ASSUME NEW p \in Parser, Tree(p), p.open # <<>>, Full(p, Top(p)),
         NEW t \in Tok, t = Anchor <=> Kind(p, Top(p)) \in WrapperType, Loud(t)
  PROVE  LET r == Outline(Shut(Emit(p, t)))
         IN  /\ Longer(Outline(p), r) /\ r.n \in r.closes
             /\ Kind(p, Top(p)) \in ContainerType => r.n \in r.shuts
<1> DEFINE n == Len(p.tokens)
           e == Emit(p, t)
           q == Shut(e)
           o == Outline(p)
           r == Outline(q)
<1>1. /\ e \in Parser /\ e.tokens = Append(p.tokens, t) /\ e.nodes = p.nodes
      /\ e.open = p.open /\ e.at = p.at
  BY EmitIs
<1> HIDE DEF e
<1>2. /\ Top(p) \in DOMAIN p.nodes /\ IsOpen(p, Top(p))
      /\ \A k : (\E i \in 1 .. Len(p.open) - 1 : p.open[i] = k) <=> IsOpen(p, k) /\ k # Top(p)
  BY TopIs DEF Tree
<1>3. Top(e) = Top(p)
  BY <1>1 DEF Top
<1>4. /\ q \in Parser /\ q.tokens = e.tokens
      /\ q.open = SubSeq(p.open, 1, Len(p.open) - 1)
      /\ DOMAIN q.nodes = DOMAIN p.nodes
      /\ \A k \in DOMAIN p.nodes :
           /\ Kind(q, k) = Kind(p, k) /\ Begins(q, k) = Begins(p, k)
           /\ Ends(q, k) = IF k = Top(p) THEN Len(e.tokens) ELSE Ends(p, k)
  <2>1. e.open # <<>> /\ Top(e) \in DOMAIN e.nodes
    BY <1>1, <1>2, <1>3
  <2>2. \A k : /\ Kind(e, k) = Kind(p, k) /\ Begins(e, k) = Begins(p, k) /\ Ends(e, k) = Ends(p, k)
    BY <1>1 DEF Kind, Begins, Ends
  <2> HIDE DEF q
  <2>3. /\ q \in Parser /\ q.tokens = e.tokens
        /\ q.open = SubSeq(e.open, 1, Len(e.open) - 1)
        /\ DOMAIN q.nodes = DOMAIN e.nodes
        /\ \A k \in DOMAIN e.nodes :
             /\ Kind(q, k) = Kind(e, k) /\ Begins(q, k) = Begins(e, k)
             /\ Ends(q, k) = IF k = Top(e) THEN Len(e.tokens) ELSE Ends(e, k)
    BY <1>1, <2>1, ShutIs DEF q
  <2> QED BY <1>1, <1>3, <2>2, <2>3
<1>5. Tree(q)
  BY Shuts DEF q, e
<1>6. \A k : IsOpen(q, k) <=> IsOpen(p, k) /\ k # Top(p)
  <2>1. Len(p.open) \in Nat /\ p.open \in Seq(Nat) /\ Len(p.open) # 0
    BY NodesType DEF Parser
  <2> HIDE DEF q
  <2>2. DOMAIN q.open = 1 .. Len(p.open) - 1 /\ \A i \in 1 .. Len(p.open) - 1 : q.open[i] = p.open[i]
    BY <1>4, <2>1
  <2>3. \A k : IsOpen(q, k) <=> \E i \in 1 .. Len(p.open) - 1 : p.open[i] = k
    BY <2>2 DEF IsOpen
  <2> QED BY <1>2, <2>3
<1>7. /\ n \in Nat /\ Len(q.tokens) = n + 1
      /\ DOMAIN p.tokens = 1 .. n /\ DOMAIN q.tokens = 1 .. n + 1
      /\ \A i \in DOMAIN p.tokens : q.tokens[i] = p.tokens[i]
      /\ q.tokens[n + 1] = t
  BY <1>1, <1>4, TokensLonger
<1> HIDE DEF n, q
<1>8. /\ IsOutline(o) /\ o.n = n /\ \A i \in 1 .. n : o.type[i] = p.tokens[i].type
      /\ \A i : i \in o.opens <=> BeginsAt(p, i)
      /\ \A i : i \in o.closes <=> EndsAt(p, i)
      /\ \A i : i \in o.shuts <=> ShutsAt(p, i)
  BY <1>7, OutlineIs DEF n
<1>9. /\ IsOutline(r) /\ r.n = n + 1 /\ \A i \in 1 .. n + 1 : r.type[i] = q.tokens[i].type
      /\ \A i : i \in r.opens <=> BeginsAt(q, i)
      /\ \A i : i \in r.closes <=> EndsAt(q, i)
      /\ \A i : i \in r.shuts <=> ShutsAt(q, i)
  BY <1>4, <1>5, <1>7, OutlineIs
<1> HIDE DEF o, r
<1>10. n + 1 \in 1 .. n + 1 /\ \A i \in 1 .. n : i # n + 1 /\ i \in 1 .. n + 1
  BY <1>7
<1>11. ASSUME NEW i \in 1 .. n
       PROVE  /\ i \in r.opens <=> i \in o.opens
              /\ i \in r.closes <=> i \in o.closes
              /\ i \in r.shuts <=> i \in o.shuts
  <2>1. \A k \in DOMAIN p.nodes : k # Top(p) => Ends(q, k) = Ends(p, k)
    BY <1>4
  <2>2. Ends(q, Top(p)) # i
    BY <1>2, <1>4, <1>7, <1>10
  <2>3. BeginsAt(q, i) <=> BeginsAt(p, i)
    BY <1>4 DEF BeginsAt
  <2>4. EndsAt(q, i) <=> EndsAt(p, i)
    BY <1>2, <1>4, <1>6, <2>1, <2>2, Zenon DEF EndsAt
  <2>5. ShutsAt(q, i) <=> ShutsAt(p, i)
    BY <1>2, <1>4, <1>6, <2>1, <2>2, Zenon DEF ShutsAt
  <2> QED BY <1>8, <1>9, <2>3, <2>4, <2>5
<1>12. r.n \in r.closes /\ (Kind(p, Top(p)) \in ContainerType => r.n \in r.shuts)
  <2>1. Top(p) \in DOMAIN q.nodes /\ ~IsOpen(q, Top(p)) /\ Ends(q, Top(p)) = r.n /\ Kind(q, Top(p)) = Kind(p, Top(p))
    BY <1>2, <1>4, <1>6, <1>7, <1>9
  <2> QED BY <1>9, <2>1 DEF EndsAt, ShutsAt
<1>13. \A i \in 1 .. n : r.type[i] = o.type[i]
  <2> SUFFICES ASSUME NEW i \in 1 .. n PROVE r.type[i] = o.type[i]
    OBVIOUS
  <2>1. i \in 1 .. n + 1 /\ q.tokens[i] = p.tokens[i]
    BY <1>7, <1>10
  <2>2. r.type[i] = q.tokens[i].type /\ o.type[i] = p.tokens[i].type
    BY <1>8, <1>9, <2>1
  <2> QED BY <2>1, <2>2
<1>14. r.type[r.n] = t.type
  BY <1>7, <1>9, <1>10
<1>15. Longer(o, r)
  BY <1>8, <1>9, <1>11, <1>12, <1>13, <1>14 DEF Longer, Loud
<1> QED BY <1>12, <1>15 DEF o, r, q, e

\* ... or a node begins with a token.
LEMMA AddsOutline ==
  ASSUME NEW p \in Parser, Tree(p), NEW q \in Parser, Tree(q), NEW type, NEW t \in Tok, Loud(t),
         Adds(p, q, type, t),
         q.open = Append(p.open, Len(p.nodes) + 1) \/ (q.open = p.open /\ type \notin ContainerType)
  PROVE  LET r == Outline(q)
         IN  /\ Longer(Outline(p), r) /\ r.n \in r.opens
             /\ q.open = p.open => r.n \in r.closes
<1> DEFINE n == Len(p.tokens)
           new == Len(p.nodes) + 1
           o == Outline(p)
           r == Outline(q)
<1>1. /\ n \in Nat /\ Len(q.tokens) = n + 1
      /\ DOMAIN p.tokens = 1 .. n /\ DOMAIN q.tokens = 1 .. n + 1
      /\ \A i \in DOMAIN p.tokens : q.tokens[i] = p.tokens[i]
      /\ q.tokens[n + 1] = t
  BY TokensLonger DEF Adds
<1>2. /\ DOMAIN q.nodes = DOMAIN p.nodes \union {new} /\ new \notin DOMAIN p.nodes
      /\ Begins(q, new) = n + 1 /\ Ends(q, new) = n + 1 /\ Kind(q, new) = type
      /\ \A k \in DOMAIN p.nodes :
           /\ Kind(q, k) = Kind(p, k) /\ Begins(q, k) = Begins(p, k) /\ Ends(q, k) = Ends(p, k)
  <2>1. Len(p.nodes) \in Nat /\ DOMAIN p.nodes = 1 .. Len(p.nodes)
    BY NodesType
  <2>2. DOMAIN q.nodes = 1 .. new
    BY DEF Adds
  <2>3. /\ Begins(q, new) = n + 1 /\ Ends(q, new) = n + 1 /\ Kind(q, new) = type
        /\ \A k \in DOMAIN p.nodes :
             /\ Kind(q, k) = Kind(p, k) /\ Begins(q, k) = Begins(p, k) /\ Ends(q, k) = Ends(p, k)
    BY DEF Adds
  <2>4. DOMAIN q.nodes = DOMAIN p.nodes \union {new} /\ new \notin DOMAIN p.nodes
    BY ONLY <2>1, <2>2 DEF new
  <2> QED BY <2>3, <2>4
<1>3. /\ \A k \in DOMAIN p.nodes : IsOpen(q, k) <=> IsOpen(p, k)
      /\ ~IsOpen(p, new)
      /\ q.open = p.open => ~IsOpen(q, new)
      /\ q.open # p.open => IsOpen(q, new)
  <2>1. Len(p.open) \in Nat /\ p.open \in Seq(Nat) /\ DOMAIN p.open = 1 .. Len(p.open) /\ new \in Nat
    BY NodesType DEF Parser
  <2>2. ~IsOpen(p, new)
    BY <1>2 DEF IsOpen, Tree, Nested
  <2>3. CASE q.open = p.open
    BY <2>2, <2>3 DEF IsOpen
  <2>4. CASE q.open = Append(p.open, new)
    <3> HIDE DEF new
    <3>1. /\ DOMAIN q.open = 1 .. Len(p.open) + 1
          /\ \A i \in 1 .. Len(p.open) : q.open[i] = p.open[i]
          /\ q.open[Len(p.open) + 1] = new
      BY <2>1, <2>4
    <3>2. \A i \in 1 .. Len(p.open) + 1 : i \in 1 .. Len(p.open) \/ i = Len(p.open) + 1
      BY <2>1
    <3>3. Len(p.open) + 1 \in 1 .. Len(p.open) + 1 /\ 1 .. Len(p.open) \subseteq 1 .. Len(p.open) + 1
      BY <2>1
    <3>4. IsOpen(q, new)
      BY <3>1, <3>3 DEF IsOpen
    <3>5. \A k \in DOMAIN p.nodes : IsOpen(q, k) <=> IsOpen(p, k)
      BY <1>2, <2>1, <3>1, <3>2, <3>3 DEF IsOpen
    <3>6. q.open # p.open
      BY <2>2, <3>4 DEF IsOpen
    <3> QED BY <2>2, <3>4, <3>5, <3>6
  <2> QED BY <2>3, <2>4
<1> HIDE DEF n, new
<1>4. /\ IsOutline(o) /\ o.n = n /\ \A i \in 1 .. n : o.type[i] = p.tokens[i].type
      /\ \A i : i \in o.opens <=> BeginsAt(p, i)
      /\ \A i : i \in o.closes <=> EndsAt(p, i)
      /\ \A i : i \in o.shuts <=> ShutsAt(p, i)
  BY <1>1, OutlineIs DEF n
<1>5. /\ IsOutline(r) /\ r.n = n + 1 /\ \A i \in 1 .. n + 1 : r.type[i] = q.tokens[i].type
      /\ \A i : i \in r.opens <=> BeginsAt(q, i)
      /\ \A i : i \in r.closes <=> EndsAt(q, i)
      /\ \A i : i \in r.shuts <=> ShutsAt(q, i)
  BY <1>1, OutlineIs
<1> HIDE DEF o, r
<1>6. n + 1 \in 1 .. n + 1 /\ \A i \in 1 .. n : i # n + 1 /\ i \in 1 .. n + 1
  BY <1>1
<1>7. ASSUME NEW i \in 1 .. n
      PROVE  /\ i \in r.opens <=> i \in o.opens
             /\ i \in r.closes <=> i \in o.closes
             /\ i \in r.shuts <=> i \in o.shuts
  <2>1. Begins(q, new) # i /\ Ends(q, new) # i
    BY <1>2, <1>6
  <2>2. BeginsAt(q, i) <=> BeginsAt(p, i)
    BY <1>2, <2>1 DEF BeginsAt
  <2>3. EndsAt(q, i) <=> EndsAt(p, i)
    BY <1>2, <1>3, <2>1 DEF EndsAt
  <2>4. ShutsAt(q, i) <=> ShutsAt(p, i)
    BY <1>2, <1>3, <2>1 DEF ShutsAt
  <2> QED BY <1>4, <1>5, <2>2, <2>3, <2>4
<1>8. r.n \in r.opens /\ (q.open = p.open => r.n \in r.closes)
  BY <1>2, <1>3, <1>5 DEF BeginsAt, EndsAt
<1>9. \A i \in 1 .. n : r.type[i] = o.type[i]
  BY <1>1, <1>4, <1>5, <1>6
<1>10. r.type[r.n] = t.type
  BY <1>1, <1>5, <1>6
<1>11. Longer(o, r)
  BY <1>4, <1>5, <1>7, <1>8, <1>9, <1>10 DEF Longer, Loud
<1> QED BY <1>8, <1>11 DEF o, r

-----------------------------------------------------------------------------
(***************************************************************************)
(* The outline at each place of the parser.                                *)
(***************************************************************************)
Punctuated(p) == Edged(Outline(p)) /\ Parted(Outline(p))

Lined(p) ==
  /\ Edged(Outline(p)) /\ Partial(Outline(p))
  /\ p.at # "value" => Listing(Outline(p))
  /\ p.at \notin {"value", "next member", "next element"} => Parted(Outline(p))
  /\ p.at \in {"colon", "after"} => Done(Outline(p))

LEMMA PartedIs ==
  ASSUME NEW o, Parted(o)
  PROVE  Listing(o) /\ Partial(o)
BY DEF Parted, Listing, Partial

LEMMA SameOutline ==
  ASSUME NEW p, NEW q, q.tokens = p.tokens, q.nodes = p.nodes, q.open = p.open
  PROVE  Outline(q) = Outline(p)
BY Zenon DEF Outline, Begins, Ends, Kind, IsOpen

LEMMA AtOutline ==
  ASSUME NEW p \in Parser, NEW a \in Place
  PROVE  LET q == [p EXCEPT !.at = a] IN q.at = a /\ Outline(q) = Outline(p)
BY AtIs, SameOutline

LEMMA LoudTokens ==
  /\ Loud(Anchor)
  /\ \A t \in LexTok : t.type \in {"string", "number", "identifier"} => Loud(t)
  /\ \A t \in LexTok : t.literal[1] \in Keyword \union {"{", "}", "[", "]"} => Loud(t)
<1>1. Loud(Anchor)
  BY DEF Loud, Anchor, Blank, Separator
<1>2. ASSUME NEW t \in LexTok, t.literal[1] \in Keyword PROVE Loud(t)
  <2> DEFINE x == t.literal[1]
  <2>1. /\ x \notin LineComment \union BlockComment /\ x \notin {"{", "}", "[", "]"}
        /\ x # "," /\ x # ":" /\ x # " " /\ x # "\n"
    BY <1>2, CommentAssumption DEF Keyword
  <2>2. t.type = TokenType(x)
    BY DEF LexTok
  <2>3. TokenType(x) =
          CASE x = "," -> "comma"
            [] x = ":" -> "colon"
            [] x \in {"{", "}", "[", "]"} -> "delim"
            [] x = " " -> "whitespace"
            [] x = "\n" -> "newline"
            [] x \in LineComment \union BlockComment -> "comment"
            [] x \in Number -> "number"
            [] x \in Quoted -> "string"
            [] x \in Identifier \union Keyword -> "identifier"
    BY DEF TokenType
  <2>4. x \in Identifier \union Keyword
    BY <1>2
  <2> HIDE DEF x
  <2>5. TokenType(x) \in {"number", "string", "identifier"}
    BY <2>1, <2>3, <2>4
  <2> QED BY <2>2, <2>5 DEF Loud, Blank, Separator
<1>3. ASSUME NEW t \in LexTok, t.literal[1] \in {"{", "}", "[", "]"} PROVE Loud(t)
  <2>1. TokenType(t.literal[1]) = "delim"
    BY <1>3, PunctuationAssumption, Zenon DEF TokenType, Punctuation, Keyword
  <2>2. t.type = "delim"
    BY <2>1 DEF LexTok
  <2> QED BY <2>2 DEF Loud, Blank, Separator
<1> QED BY <1>1, <1>2, <1>3 DEF Loud, Blank, Separator

\* A value is complete.
LEMMA FinishLined ==
  ASSUME NEW p \in Parser, Tree(p), Has(p), Punctuated(p)
  PROVE  Lined(Finish(p))
<1>1. CASE p.open = <<>>
  <2>1. "end" \in Place
    BY DEF Place
  <2>2. Outline(Finish(p)) = Outline(p) /\ Finish(p).at = "end"
    BY <1>1, <2>1, AtOutline DEF Finish
  <2> QED BY <2>2, PartedIs DEF Lined, Punctuated
<1>2. CASE p.open # <<>>
  <2> DEFINE e == Shut(Emit(p, Anchor))
  <2>1. Full(p, Top(p)) /\ Kind(p, Top(p)) \in WrapperType /\ Anchor \in Tok
    BY <1>2, AnchorIs DEF Has
  <2>2. /\ Longer(Outline(p), Outline(e)) /\ Outline(e).n \in Outline(e).closes
    BY <1>2, <2>1, LoudTokens, ShutOutline
  <2>3. e \in Parser
    BY <1>2, <2>1, Shuts
  <2> HIDE DEF e
  <2>4. Edged(Outline(e)) /\ Parted(Outline(e)) /\ Done(Outline(e))
    BY <2>2, CloseLonger DEF Punctuated
  <2>5. "after" \in Place
    BY DEF Place
  <2>6. Outline([e EXCEPT !.at = "after"]) = Outline(e) /\ [e EXCEPT !.at = "after"].at = "after"
    BY <2>3, <2>5, AtOutline
  <2>7. Finish(p) = [e EXCEPT !.at = "after"]
    BY <1>2 DEF Finish, e
  <2> QED BY <2>4, <2>6, <2>7, PartedIs DEF Lined
<1> QED BY <1>1, <1>2

LEMMA CloseLined ==
  ASSUME NEW p \in Parser, Tree(p), p.open # <<>>, Kind(p, Top(p)) \in ContainerType,
         NEW t \in LexTok, Loud(t), Edged(Outline(p)), Listing(Outline(p))
  PROVE  Lined(Close(p, t))
<1> DEFINE e == Shut(Emit(p, t))
<1>0. t \in Tok /\ t # Anchor
  BY LexTokNoAnchor
<1>1. Full(p, Top(p)) /\ Kind(p, Top(p)) \notin WrapperType
  BY DEF Full, ContainerType, WrapperType
<1>2. /\ e \in Parser /\ Tree(e)
      /\ e.open = SubSeq(p.open, 1, Len(p.open) - 1)
      /\ \A k \in DOMAIN p.nodes :
           k \in DOMAIN e.nodes /\ Kind(e, k) = Kind(p, k) /\ Kids(e, k) = Kids(p, k)
  BY <1>0, <1>1, Shuts
<1>3. Longer(Outline(p), Outline(e)) /\ Outline(e).n \in Outline(e).closes /\ Outline(e).n \in Outline(e).shuts
  BY <1>0, <1>1, ShutOutline
<1>4. Close(p, t) = Finish(e)
  BY DEF Close
<1> HIDE DEF e
<1>5. Has(e)
  <2>0. e.nodes # <<>>
    <3>1. Top(p) \in DOMAIN e.nodes
      BY <1>2, TopIs DEF Tree
    <3> QED BY <3>1
  <2>1. SUFFICES ASSUME e.open # <<>> PROVE Kind(e, Top(e)) \in WrapperType /\ Full(e, Top(e))
    BY <2>0 DEF Has
  <2>2. /\ Top(e) \in DOMAIN p.nodes /\ Full(p, Top(e))
        /\ Kind(p, Top(e)) \in WrapperType
    BY <1>1, <1>2, <2>1, Under
  <2> QED BY <1>2, <2>2 DEF Full
<1>6. Punctuated(e)
  BY <1>3, CloseLonger DEF Punctuated
<1> QED BY <1>2, <1>4, <1>5, <1>6, FinishLined

\* A node that stays open, and a leaf.
LEMMA OpenLined ==
  ASSUME NEW p \in Parser, Tree(p), NEW t \in Tok, Loud(t), NEW type, MayOpen(p, type),
         t = Anchor <=> type \in WrapperType, type \in ContainerType => Opening(t),
         Edged(Outline(p)), Partial(Outline(p))
  PROVE  Punctuated(Emit(Open(p, type), t))
<1> DEFINE q == Emit(Open(p, type), t)
<1>1. type \in NodeType
  BY DEF NodeType, MayOpen
<1>2. q \in Parser /\ Adds(p, q, type, t) /\ q.open = Append(p.open, Len(p.nodes) + 1)
  BY <1>1, OpenIs
<1>3. Tree(q)
  BY OpenOK
<1> HIDE DEF q
<1>4. Longer(Outline(p), Outline(q)) /\ Outline(q).n \in Outline(q).opens
  BY <1>2, <1>3, AddsOutline
<1>5. Punctuated(q)
  BY <1>4, OpenLonger DEF Punctuated
<1> QED BY <1>5 DEF q

LEMMA LeafLined ==
  ASSUME NEW p \in Parser, Tree(p), NEW t \in LexTok, Loud(t),
         NEW type \in {"string", "number", "bool", "null"},
         IF p.open = <<>> THEN p.nodes = <<>> ELSE Kind(p, Top(p)) \in WrapperType,
         Edged(Outline(p)), Partial(Outline(p))
  PROVE  LET q == Leaf(p, type, t) IN Punctuated(q) /\ Done(Outline(q))
<1> DEFINE q == Leaf(p, type, t)
<1>1. t \in Tok /\ type \in NodeType /\ type \notin ContainerType
  BY LexTokNoAnchor DEF NodeType, ContainerType
<1>2. q \in Parser /\ Adds(p, q, type, t) /\ q.open = p.open
  BY <1>1, LeafIs
<1>3. Tree(q)
  BY LeafOK
<1> HIDE DEF q
<1>4. Longer(Outline(p), Outline(q)) /\ Outline(q).n \in Outline(q).opens /\ Outline(q).n \in Outline(q).closes
  BY <1>1, <1>2, <1>3, AddsOutline
<1>5. Punctuated(q) /\ Done(Outline(q))
  BY <1>4, OpenLonger DEF Punctuated
<1> QED BY <1>5 DEF q

LEMMA ValueLined ==
  ASSUME NEW p \in Parser, Tree(p), Wants(p), NEW t \in LexTok, Edged(Outline(p)), Partial(Outline(p))
  PROVE  ParseValue(p, t).at # "error" => Lined(ParseValue(p, t))
<1>1. ASSUME NEW type \in {"string", "number", "bool", "null"}, Loud(t)
      PROVE  Lined(Finish(Leaf(p, type, t)))
  <2> DEFINE q == Leaf(p, type, t)
  <2>1. IF p.open = <<>> THEN p.nodes = <<>> ELSE Kind(p, Top(p)) \in WrapperType
    BY DEF Wants, WrapperType
  <2>2. /\ q \in Parser /\ Tree(q) /\ q.open = p.open /\ q.nodes # <<>>
        /\ p.open # <<>> => /\ Kind(q, Top(q)) = Kind(p, Top(p))
                            /\ Len(Kids(q, Top(q))) = Len(Kids(p, Top(p))) + 1
    BY <2>1, LeafOK
  <2>3. Punctuated(q)
    BY <1>1, <2>1, LeafLined
  <2> HIDE DEF q
  <2>4. Has(q)
    <3>1. SUFFICES ASSUME q.open # <<>> PROVE Kind(q, Top(q)) \in WrapperType /\ Full(q, Top(q))
      BY <2>2 DEF Has
    <3>2. CASE Kind(p, Top(p)) = "field" /\ Len(Kids(p, Top(p))) = 1
      <4>1. Kind(q, Top(q)) = "field" /\ Len(Kids(q, Top(q))) = 1 + 1
        BY <2>2, <3>1, <3>2
      <4> QED BY <4>1 DEF Full, WrapperType
    <3>3. CASE Kind(p, Top(p)) = "element" /\ Len(Kids(p, Top(p))) = 0
      <4>1. Kind(q, Top(q)) = "element" /\ Len(Kids(q, Top(q))) = 0 + 1
        BY <2>2, <3>1, <3>3
      <4> QED BY <4>1 DEF Full, WrapperType
    <3> QED BY <2>2, <3>1, <3>2, <3>3 DEF Wants
  <2>5. Lined(Finish(q))
    BY <2>2, <2>3, <2>4, FinishLined
  <2> QED BY <2>5 DEF q
<1>2. ASSUME NEW type \in ContainerType, NEW a \in {"first member", "first element"}, t.literal[1] \in {"{", "["}
      PROVE  Lined([Emit(Open(p, type), t) EXCEPT !.at = a])
  <2> DEFINE o == Emit(Open(p, type), t)
  <2>1. t \in Tok /\ t # Anchor /\ type \notin WrapperType
    BY LexTokNoAnchor DEF ContainerType, WrapperType
  <2>2. MayOpen(p, type) /\ Opening(t) /\ Loud(t)
    BY <1>2, Brackets, LoudTokens DEF Wants, MayOpen, ContainerType, WrapperType
  <2>3. o \in Parser /\ Punctuated(o)
    BY <2>1, <2>2, OpenOK, OpenLined
  <2> HIDE DEF o
  <2>4. a \in Place /\ a \notin {"value", "next member", "next element", "colon", "after"}
    BY <1>2 DEF Place
  <2>5. Outline([o EXCEPT !.at = a]) = Outline(o) /\ [o EXCEPT !.at = a].at = a
    BY <2>3, <2>4, AtOutline
  <2>6. Lined([o EXCEPT !.at = a])
    BY <2>3, <2>4, <2>5, PartedIs DEF Lined, Punctuated
  <2> QED BY <2>6 DEF o
<1> DEFINE string == Finish(Leaf(p, "string", t))
           number == Finish(Leaf(p, "number", t))
           bool == Finish(Leaf(p, "bool", t))
           null == Finish(Leaf(p, "null", t))
           object == [Emit(Open(p, "object"), t) EXCEPT !.at = "first member"]
           array == [Emit(Open(p, "array"), t) EXCEPT !.at = "first element"]
           error == Error(p)
<1>3. ParseValue(p, t) =
        CASE t.type = "string" -> string
          [] t.type = "number" -> number
          [] t.literal[1] \in {"true", "false"} -> bool
          [] t.literal[1] = "null" -> null
          [] t.literal[1] = "{" -> object
          [] t.literal[1] = "[" -> array
          [] OTHER -> error
  BY DEF ParseValue
<1>4. /\ t.type = "string" => Lined(string)
      /\ t.type = "number" => Lined(number)
      /\ t.literal[1] \in {"true", "false"} => Lined(bool)
      /\ t.literal[1] = "null" => Lined(null)
  <2>1. \/ t.type = "string" \/ t.type = "number" \/ t.literal[1] \in {"true", "false"} \/ t.literal[1] = "null"
        => Loud(t)
    BY LoudTokens DEF Keyword
  <2> QED BY <1>1, <2>1
<1>5. /\ t.literal[1] = "{" => Lined(object)
      /\ t.literal[1] = "[" => Lined(array)
  BY <1>2 DEF ContainerType
<1>6. error.at = "error"
  BY AtIs DEF Error, Place
<1> HIDE DEF string, number, bool, null, object, array, error
<1> QED BY <1>3, <1>4, <1>5, <1>6

LEMMA KeyLined ==
  ASSUME NEW p \in Parser, Tree(p), p.open # <<>>, Kind(p, Top(p)) = "object", NEW t \in LexTok,
         Edged(Outline(p)), Partial(Outline(p))
  PROVE  ParseKey(p, t).at # "error" => Lined(ParseKey(p, t))
<1> DEFINE w == Wrap(p, "field")
           l == Leaf(w, "string", t)
           q == [l EXCEPT !.at = "colon"]
<1>1. SUFFICES ASSUME ParseKey(p, t).at # "error" PROVE Lined(ParseKey(p, t))
  OBVIOUS
<1>2. Error(p).at = "error"
  BY AtIs DEF Error, Place
<1>3. ParseKey(p, t) = q /\ IsKey(t)
  BY <1>1, <1>2 DEF ParseKey
<1>4. Loud(t)
  BY <1>3, LoudTokens DEF IsKey
<1>5. /\ w \in Parser /\ Tree(w)
      /\ w.open # <<>> /\ Kind(w, Top(w)) = "field"
  BY WrapOK
<1>6. Punctuated(w)
  <2>1. MayOpen(p, "field") /\ "field" \in WrapperType /\ "field" \notin ContainerType
    BY DEF MayOpen, ContainerType, WrapperType
  <2> QED BY <2>1, AnchorIs, LoudTokens, OpenLined DEF Wrap
<1> HIDE DEF w
<1>7. l \in Parser /\ Punctuated(l) /\ Done(Outline(l))
  <2>1. IF w.open = <<>> THEN w.nodes = <<>> ELSE Kind(w, Top(w)) \in WrapperType
    BY <1>5 DEF WrapperType
  <2> QED BY <1>4, <1>5, <1>6, <2>1, LeafOK, LeafLined, PartedIs DEF Punctuated
<1> HIDE DEF l
<1>8. "colon" \in Place
  BY DEF Place
<1>9. Outline(q) = Outline(l) /\ q.at = "colon"
  BY <1>7, <1>8, AtOutline
<1> QED BY <1>3, <1>7, <1>9, PartedIs DEF Lined, Punctuated

\* A token that is only passed.
LEMMA PassLined ==
  ASSUME NEW p \in Parser, Tree(p), NEW t \in LexTok, ~Loud(t), NEW a \in Place
  PROVE  LET q == [Emit(p, t) EXCEPT !.at = a]
         IN  /\ q.at = a /\ Longer(Outline(p), Outline(q))
             /\ Outline(q).type[Outline(q).n] = t.type
<1> DEFINE e == Emit(p, t)
           q == [e EXCEPT !.at = a]
<1>1. t \in Tok
  BY LexTokNoAnchor
<1>2. e \in Parser /\ e.tokens = Append(p.tokens, t) /\ e.nodes = p.nodes /\ e.open = p.open
  BY <1>1, EmitIs
<1> HIDE DEF e
<1>3. Longer(Outline(p), Outline(e)) /\ Outline(e).type[Outline(e).n] = t.type
  BY <1>2, PassOutline
<1>4. Outline(q) = Outline(e) /\ q.at = a
  BY <1>2, AtOutline
<1> HIDE DEF q
<1> QED BY <1>3, <1>4 DEF q, e

LEMMA AfterLined ==
  ASSUME NEW p \in Parser, Tree(p), p.open # <<>>, Kind(p, Top(p)) \in ContainerType, NEW t \in LexTok,
         Edged(Outline(p)), Parted(Outline(p)), Done(Outline(p))
  PROVE  ParseAfter(p, t).at # "error" => Lined(ParseAfter(p, t))
<1> DEFINE isObject == p.nodes[Last(p.open)].type = "object"
           a == IF isObject THEN "next member" ELSE "next element"
           b == IF isObject THEN "}" ELSE "]"
           comma == [Emit(p, t) EXCEPT !.at = a]
           close == Close(p, t)
           error == Error(p)
<1>3. ParseAfter(p, t) =
        CASE t.type = "comma" -> comma
          [] t.type # "comma" /\ t.literal[1] = b -> close
          [] OTHER -> error
  BY DEF ParseAfter
<1>4. t.type = "comma" => Lined(comma)
  <2>1. SUFFICES ASSUME t.type = "comma" PROVE Lined(comma)
    OBVIOUS
  <2>2. a \in Place /\ a \in {"next member", "next element"}
    BY DEF Place
  <2> HIDE DEF a
  <2>3. ~Loud(t) /\ t.type \in Separator
    BY <2>1 DEF Loud, Separator
  <2>4. comma.at = a /\ Longer(Outline(p), Outline(comma)) /\ Outline(comma).type[Outline(comma).n] = "comma"
    BY <2>1, <2>2, <2>3, PassLined, ZenonT(30)
  <2> HIDE DEF comma
  <2>5. Edged(Outline(comma)) /\ Partial(Outline(comma)) /\ Listing(Outline(comma))
    BY <2>1, <2>3, <2>4, SeparatorLonger
  <2> QED BY <2>2, <2>4, <2>5 DEF Lined
<1>5. t.literal[1] = b => Lined(close)
  BY LoudTokens, CloseLined, PartedIs
<1>6. error.at = "error"
  BY AtIs DEF Error, Place
<1> HIDE DEF isObject, b, comma, close, error
<1> QED BY <1>3, <1>4, <1>5, <1>6

LEMMA StepLined ==
  ASSUME NEW p, Good(p), p.at # "error" => Lined(p), NEW t \in LexTok
  PROVE  ParseStep(p, t).at # "error" => Lined(ParseStep(p, t))
<1> DEFINE q == ParseStep(p, t)
           Fine(r) == r.at # "error" => Lined(r)
<1>0. p \in Parser /\ p.at \in Place /\ (p.at # "error" => Tree(p) /\ Placed(p) /\ Lined(p))
  BY DEF Good, Parser
<1>1. ASSUME p.at # "error", Trivia(t) PROVE Fine(q)
  <2> DEFINE e == [Emit(p, t) EXCEPT !.at = p.at]
  <2>1. q = e
    <3>1. Emit(p, t) \in Parser /\ Emit(p, t).at = p.at
      BY <1>0, LexTokNoAnchor, EmitIs
    <3>2. Emit(p, t) = e
      <4> DEFINE u == Emit(p, t)
      <4> HIDE DEF u, Toks, NodeRecord, Place
      <4>1. u \in Parser /\ u.at = p.at
        BY <3>1 DEF u
      <4>2. u = [u EXCEPT !.at = p.at]
        BY <4>1 DEF Parser
      <4> QED BY <4>2 DEF u
    <3> QED BY <1>1, <3>2 DEF ParseStep
  <2>2. t.type \in Blank /\ ~Loud(t)
    BY <1>1 DEF Trivia, Blank, Loud
  <2>3. e.at = p.at /\ Longer(Outline(p), Outline(e)) /\ Outline(e).type[Outline(e).n] = t.type
    BY <1>0, <1>1, <2>2, PassLined, ZenonT(30)
  <2> HIDE DEF e, q
  <2>4. Lined(e)
    BY <1>0, <1>1, <2>2, <2>3, BlankLonger DEF Lined
  <2> QED BY <2>1, <2>4
<1>2. ASSUME p.at = "value" PROVE Fine(ParseValue(p, t))
  BY <1>0, <1>2, ValueLined DEF Placed, Lined
<1>3. ASSUME p.at \in {"first element", "next element"}
      PROVE  /\ Fine(ParseValue(Wrap(p, "element"), t))
             /\ t.literal[1] = "]" => Fine(Close(p, t))
  <2> DEFINE w == Wrap(p, "element")
  <2>0. /\ Tree(p) /\ p.open # <<>> /\ Kind(p, Top(p)) = "array" /\ Kind(p, Top(p)) \in ContainerType
        /\ Edged(Outline(p)) /\ Partial(Outline(p)) /\ Listing(Outline(p))
    BY <1>0, <1>3 DEF Placed, ContainerType, Lined
  <2>1. /\ w \in Parser /\ Tree(w)
        /\ w.open # <<>> /\ Kind(w, Top(w)) = "element" /\ Len(Kids(w, Top(w))) = 0
    BY <1>0, <2>0, WrapOK
  <2>2. Punctuated(w)
    <3>1. MayOpen(p, "element") /\ "element" \in WrapperType /\ "element" \notin ContainerType
      BY <2>0 DEF MayOpen, ContainerType, WrapperType
    <3> QED BY <1>0, <2>0, <3>1, AnchorIs, LoudTokens, OpenLined DEF Wrap
  <2> HIDE DEF w
  <2>3. Fine(ParseValue(w, t))
    BY <2>1, <2>2, ValueLined, PartedIs DEF Wants, Punctuated
  <2>4. t.literal[1] = "]" => Fine(Close(p, t))
    BY <1>0, <2>0, LoudTokens, CloseLined
  <2> QED BY <2>3, <2>4 DEF w
<1>4. ASSUME p.at \in {"first member", "next member"}
      PROVE  /\ Fine(ParseKey(p, t))
             /\ t.literal[1] = "}" => Fine(Close(p, t))
  <2>0. /\ Tree(p) /\ p.open # <<>> /\ Kind(p, Top(p)) = "object" /\ Kind(p, Top(p)) \in ContainerType
        /\ Edged(Outline(p)) /\ Partial(Outline(p)) /\ Listing(Outline(p))
    BY <1>0, <1>4 DEF Placed, ContainerType, Lined
  <2>1. Fine(ParseKey(p, t))
    BY <1>0, <2>0, KeyLined
  <2>2. t.literal[1] = "}" => Fine(Close(p, t))
    BY <1>0, <2>0, LoudTokens, CloseLined
  <2> QED BY <2>1, <2>2
<1>5. ASSUME p.at = "colon", t.type = "colon" PROVE Fine([Emit(p, t) EXCEPT !.at = "value"])
  <2> DEFINE e == [Emit(p, t) EXCEPT !.at = "value"]
  <2>0. Tree(p) /\ Edged(Outline(p)) /\ Parted(Outline(p)) /\ Done(Outline(p))
    BY <1>0, <1>5 DEF Lined
  <2>1. "value" \in Place /\ ~Loud(t) /\ t.type \in Separator
    BY <1>5 DEF Place, Loud, Separator
  <2>2. e.at = "value" /\ Longer(Outline(p), Outline(e)) /\ Outline(e).type[Outline(e).n] = t.type
    BY <1>0, <2>0, <2>1, PassLined, ZenonT(30)
  <2> HIDE DEF e
  <2>3. Edged(Outline(e)) /\ Partial(Outline(e))
    BY <2>0, <2>1, <2>2, SeparatorLonger
  <2>4. Lined(e)
    BY <2>2, <2>3 DEF Lined
  <2> QED BY <2>4 DEF e
<1>6. ASSUME p.at = "after" PROVE Fine(ParseAfter(p, t))
  BY <1>0, <1>6, AfterLined DEF Placed, Lined
<1>7. Fine(Error(p))
  BY <1>0, AtIs DEF Error, Place
<1> HIDE DEF Fine, q
<1>8. Fine(ParseToken(p, t))
  <2>1. CASE p.at = "value"
    BY <1>2, <2>1, Zenon DEF ParseToken
  <2>2. CASE p.at \in {"first element", "next element"}
    <3>1. ParseToken(p, t) = IF t.literal[1] # "]" THEN ParseValue(Wrap(p, "element"), t)
                             ELSE IF MayClose(p, "first element") THEN Close(p, t) ELSE Error(p)
      BY <2>2 DEF ParseToken
    <3> QED BY <1>3, <1>7, <2>2, <3>1, Zenon
  <2>3. CASE p.at \in {"first member", "next member"}
    <3>1. ParseToken(p, t) = IF t.literal[1] # "}" THEN ParseKey(p, t)
                             ELSE IF MayClose(p, "first member") THEN Close(p, t) ELSE Error(p)
      BY <2>3 DEF ParseToken
    <3> QED BY <1>4, <1>7, <2>3, <3>1, Zenon
  <2>4. CASE p.at = "colon"
    <3>1. ParseToken(p, t) = IF t.type = "colon" THEN [Emit(p, t) EXCEPT !.at = "value"] ELSE Error(p)
      BY <2>4 DEF ParseToken
    <3> QED BY <1>5, <1>7, <2>4, <3>1, Zenon
  <2>5. CASE p.at = "after"
    <3>1. ParseToken(p, t) = ParseAfter(p, t)
      BY <2>5 DEF ParseToken
    <3> QED BY <1>6, <2>5, <3>1, Zenon
  <2>6. CASE p.at \in {"end", "error"}
    <3>1. ParseToken(p, t) = Error(p)
      BY <2>6 DEF ParseToken
    <3> QED BY <1>7, <3>1, Zenon
  <2> QED BY <1>0, <2>1, <2>2, <2>3, <2>4, <2>5, <2>6 DEF Place
<1>9. Fine(q)
  BY <1>1, <1>8, Zenon DEF ParseStep, q
<1> QED BY <1>9 DEF Fine, q

LEMMA StartLined == Lined(Start)
<1>1. Outline(Start).n = 0
  BY DEF Outline, Start
<1> HIDE DEF Outline
<1>2. /\ Edged(Outline(Start)) /\ Partial(Outline(Start))
  BY <1>1 DEF Edged, Partial
<1>3. Start.at = "value"
  BY DEF Start
<1> QED BY <1>2, <1>3 DEF Lined

\* Every separator of a text that was decoded has its place.
LEMMA DecodeLined ==
  ASSUME NEW x \in Txt, Decode(x).at # "error"
  PROVE  Lined(Decode(x))
<1> DEFINE ts == Lex(x)
           N == Len(ts)
<1>1. N \in Nat /\ \A n \in 1 .. N : ts[n] \in LexTok /\ n - 1 \in 0 .. N
  <2>1. ts \in Seq(LexTok)
    BY LexKeepsText DEF LexToks
  <2> HIDE DEF ts, LexTok
  <2>2. N \in Nat /\ \A n \in 1 .. N : ts[n] \in LexTok
    BY <2>1
  <2> HIDE DEF N
  <2> QED BY <2>2
<1>2. PICK f : f \in [0 .. N -> GoodParser] /\ Parses(f, ts) /\ Decode(x) = f[N]
  BY DecodeIsFold
<1> HIDE DEF ts, N
<1>3. f[0] = Start /\ \A n \in 1 .. N : f[n] = ParseStep(f[n - 1], ts[n])
  BY <1>2 DEF Parses, N
<1> DEFINE M == {n \in 0 .. N : f[n].at # "error" => Lined(f[n])}
<1>4. 0 \in M
  BY <1>1, <1>3, StartLined
<1>5. ASSUME NEW n \in 1 .. N, n - 1 \in M PROVE n \in M
  <2>1. Good(f[n - 1]) /\ n \in 0 .. N /\ (f[n - 1].at # "error" => Lined(f[n - 1]))
    BY <1>1, <1>2, <1>5 DEF GoodParser
  <2>2. f[n].at # "error" => Lined(f[n])
    BY <1>1, <1>3, <2>1, StepLined
  <2> QED BY <2>1, <2>2
<1>6. \A n \in 0 .. N : n \in M
  <2> HIDE DEF M
  <2> QED BY <1>1, <1>4, <1>5, UpTo
<1>7. N \in M
  <2> HIDE DEF M
  <2> QED BY <1>1, <1>6
<1> QED BY <1>2, <1>7
=============================================================================
