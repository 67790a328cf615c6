------------------------------ MODULE Document ------------------------------
(***************************************************************************)
(* json/meta.go: editing a parsed document through node handles.           *)
(*                                                                         *)
(* Tokens and nodes are named by the order in which they are allocated and *)
(* never reused.  A handle is the name of a node: whoever got it keeps it, *)
(* so every node ever allocated may be the receiver of a call, the removed *)
(* ones included.  A token that is not in `list' was removed from it, and  *)
(* then has no neighbours (LinkedList!Loose).                              *)
(*                                                                         *)
(* The last call and the value are history: no action depends on them.     *)
(*                                                                         *)
(* Indentation is layout and is left out: an encoded value has the text    *)
(* that Input gives it wherever it goes.                                   *)
(***************************************************************************)
EXTENDS Syntax

CONSTANTS Source,    \* the texts that may be parsed into the document
          Input,     \* the texts of the values that callers insert
          Name,      \* the field names that callers use
          QuoteOf,   \* the string lexeme that encodes a name
          Body,      \* the texts that callers put into comments
          LineOf,    \* what `//' and a body are to the lexer, empty if the body is refused
          BlockOf,   \* what `/*', a body and `*/' are to the lexer, likewise
          HandleKind, \* the kinds of nodes that callers replace and copy, besides values
          MaxEdits   \* bound: the calls that change the document

\* Only a text that decodes becomes a document; an encoded value is text.  What is
\* written begins with a comment, but a block may end before the body does.
ASSUME DocumentAssumption ==
  /\ \A text \in Source : text \in Seq(AnyLexeme) /\ Valid(text)
  /\ \A text \in Input : text \in Seq(AnyLexeme)
  /\ \A name \in Name : QuoteOf[name] \in Quoted
  /\ \A body \in Body :
       /\ LineOf[body] \in Seq(LineComment) /\ Len(LineOf[body]) <= 1
       /\ BlockOf[body] \in Seq(AnyLexeme)
       /\ BlockOf[body] # <<>> => BlockOf[body][1] \in BlockComment
  /\ MaxEdits \in Nat

VARIABLES token,     \* the tokens, in the order they were allocated
          node,      \* the nodes, likewise
          list,      \* the token list of the document: m.SST.Tokens
          root,      \* the root node: m.SST.Root
          edits,     \* how many calls changed the document
          call,      \* the last call, with its result
          value      \* the JSON value of the bytes of the document

doc == <<token, node, list, root>>
vars == <<token, node, list, root, edits, call, value>>

Node == DOMAIN node
Nil == 0
Child(n, i) == node[n].children[i]
Size(n) == Len(node[n].children)
Is(n, type) == node[n].type = type

-----------------------------------------------------------------------------
(***************************************************************************)
(* Walking the token list.                                                 *)
(***************************************************************************)
In(e) == \E i \in DOMAIN list : list[i] = e
At(e) == CHOOSE i \in DOMAIN list : list[i] = e

NextOf(e) == IF In(e) /\ At(e) < Len(list) THEN list[At(e) + 1] ELSE Nil
PrevOf(e) == IF In(e) /\ At(e) > 1 THEN list[At(e) - 1] ELSE Nil
InOrder(first, last) == In(first) /\ In(last) /\ At(first) <= At(last)

\* The part of s before the first token that passes the test.
Before(s, Test(_)) ==
  LET k == SelectInSeq(s, Test) IN IF k = 0 THEN s ELSE SubSeq(s, 1, k - 1)

\* What a loop sees that starts after e and stops at f.
Between(e, f) ==
  IF In(e) THEN Before(SubSeq(list, At(e) + 1, Len(list)), LAMBDA x : x = f) ELSE <<>>

\* The tokens of a node.  The loop ends early where the first token was removed.
Span(n) ==
  IF In(node[n].start) THEN <<node[n].start>> \o Between(node[n].start, NextOf(node[n].end))
                       ELSE <<node[n].start>>

Values(s) == [i \in DOMAIN s |-> token[s[i]]]
Bytes(n) == Text(Values(Span(n)))

Space == {"whitespace", "newline"}

GapTokens(e, f) ==
  Values(Before(Between(e, f), LAMBDA x : token[x].type \notin Space))

\* The space before child i that a new neighbour repeats: what follows the last
\* comma, comment or newline, with that newline.
LeadingGap(n, i) ==
  LET from == IF i = 1 THEN node[n].start ELSE node[Child(n, i - 1)].end
      s == Before(Between(from, node[Child(n, i)].start),
                  LAMBDA x : token[x].type \notin Space \union {"comma", "comment"})
      k == SelectLastInSeq(s, LAMBDA x : token[x].type # "whitespace")
  IN  Values(SubSeq(s, IF k # 0 /\ token[s[k]].type = "newline" THEN k ELSE k + 1, Len(s)))

Field(n, i) == Child(Child(n, i), 2)
Element(n, i) == Child(Child(n, i), 1)
KeyNode(n, i) == Child(Child(n, i), 1)

\* A fault: the literal is compared with the quotes around it.
KeyNameQuoted(n, i) == token[node[KeyNode(n, i)].start].literal[1]

KeyName(n, i) == NameOf[token[node[KeyNode(n, i)].start].literal[1]]

\* A fault: the search starts behind the first field.
FieldIndexAfterFirst(n, name) == {i \in 2 .. Size(n) : KeyName(n, i) = name}

FieldIndex(n, name) == {i \in 1 .. Size(n) : KeyName(n, i) = name}
First(found) == CHOOSE i \in found : \A k \in found : i <= k

\* What stands between the colon and the value of the first field, as one literal.
FieldValuePrefix(n) ==
  IF Size(n) = 0 THEN <<>>
  ELSE LET s == Between(node[KeyNode(n, 1)].end, node[Field(n, 1)].start)
           k == SelectInSeq(s, LAMBDA x : token[x].type = "colon")
       IN  Text(Values(SubSeq(s, k + 1, Len(s))))

-----------------------------------------------------------------------------
(***************************************************************************)
(* The comments a node reports: those before it and after it, up to other  *)
(* text, and those that its last child does not report.                    *)
(***************************************************************************)
Skipped == Space \union {"anchor"}

CommentsIn(s) == {e \in ToSet(s) : token[e].type = "comment"}

Adjacent(s) == CommentsIn(Before(s, LAMBDA x : token[x].type \notin Skipped \union {"comment"}))

Leading(n) == Adjacent(Reverse(SubSeq(list, 1, At(node[n].start) - 1)))
Trailing(n) == Adjacent(SubSeq(list, At(node[n].end) + 1, Len(list)))

\* A fault: only an empty container has comments of its own.
DanglingWhenEmpty(n) ==
  IF (Is(n, "object") \/ Is(n, "array")) /\ Size(n) = 0
  THEN CommentsIn(Between(node[n].start, node[n].end)) ELSE {}

Dangling(n) ==
  LET inside == IF Size(n) = 0 THEN Between(node[n].start, node[n].end)
                               ELSE Between(node[Child(n, Size(n))].end, node[n].end)
      comma == SelectInSeq(inside, LAMBDA x : token[x].type = "comma")
  IN  IF ~(Is(n, "object") \/ Is(n, "array")) THEN {}
      ELSE IF Size(n) = 0 THEN CommentsIn(inside)
      ELSE IF comma = 0 THEN {} ELSE CommentsIn(SubSeq(inside, comma + 1, Len(inside)))

Comments(n) == Leading(n) \union Trailing(n) \union Dangling(n)

-----------------------------------------------------------------------------
(***************************************************************************)
(* A fragment: tokens that are in no list yet and the nodes over them, the *)
(* top one first, which refer to the tokens and to each other by position. *)
(***************************************************************************)
Shift(ns, dt, dn) ==
  [i \in DOMAIN ns |-> [ns[i] EXCEPT !.start = @ + dt, !.end = @ + dt,
                                     !.children = [k \in DOMAIN @ |-> @[k] + dn]]]

Prefixed(ts, f) == [f EXCEPT !.tokens = ts \o @, !.nodes = Shift(@, Len(ts), 0)]

\* An encoded Go value, or the clone of a foreign document.
Encoded(text) ==
  LET d == Decode(text) IN [ok |-> d.at = "end", tokens |-> d.tokens, nodes |-> d.nodes]

\* The nodes of a subtree, each before its children.
Walk(n) ==
  LET walk[k \in Node] == <<k>> \o FlattenSeq([i \in 1 .. Size(k) |-> walk[Child(k, i)]])
  IN  walk[n]

Subtree(n) == ToSet(Walk(n))

(***************************************************************************)
(* The clone of a node of this document, once its text was found valid by  *)
(* itself.  Of the removed nodes only scalars pass: the others have lost   *)
(* all but their first token.                                              *)
(***************************************************************************)
Cloned(n) ==
  LET ts == Span(n)
      ks == Walk(n)
      TokenIndex(e) == SelectInSeq(ts, LAMBDA x : x = e)
      NodeIndex(k) == SelectInSeq(ks, LAMBDA x : x = k)
  IN  IF Valid(Bytes(n))
      THEN [ok |-> TRUE, tokens |-> Values(ts),
            nodes |-> [i \in DOMAIN ks |->
              LET k == ks[i]
              IN  [type |-> node[k].type, start |-> TokenIndex(node[k].start),
                   end |-> TokenIndex(node[k].end),
                   children |-> [j \in 1 .. Size(k) |-> NodeIndex(Child(k, j))]]]]
      ELSE [ok |-> FALSE, tokens |-> <<>>, nodes |-> <<>>]

\* A fault: the wrapper ends with its value, without an anchor of its own.
WrapperUnanchored(type, f, ts, ns) ==
  LET inner == Prefixed(<<Anchor>> \o ts, f)
  IN  [f EXCEPT
         !.tokens = inner.tokens,
         !.nodes = <<[type |-> type, start |-> 1, end |-> Len(inner.tokens),
                      children |-> [k \in 1 .. Len(ns) + 1 |-> k + 1]]>>
                   \o ns \o Shift(inner.nodes, 0, Len(ns) + 1)]

Wrapper(type, f, ts, ns) ==
  LET inner == Prefixed(<<Anchor>> \o ts, f)
  IN  [f EXCEPT
         !.tokens = Append(inner.tokens, Anchor),
         !.nodes = <<[type |-> type, start |-> 1, end |-> Len(inner.tokens) + 1,
                      children |-> [k \in 1 .. Len(ns) + 1 |-> k + 1]]>>
                   \o ns \o Shift(inner.nodes, 0, Len(ns) + 1)]

NewElement(f) == Wrapper("element", f, <<>>, <<>>)

NewField(name, prefix, f) ==
  LET ts == <<Token(QuoteOf[name]), Token(":")>>
            \o IF prefix = <<>> THEN <<>> ELSE <<[type |-> "whitespace", literal |-> prefix]>>
  IN  Wrapper("field", f, ts, <<[type |-> "string", start |-> 2, end |-> 2, children |-> <<>>]>>)

-----------------------------------------------------------------------------
(***************************************************************************)
(* The JSON value that a tree stands for, and where a node is in it: the   *)
(* steps from the root, one for each object or array on the way.           *)
(***************************************************************************)
Invalid == [type |-> "invalid", literal |-> "", names |-> <<>>, items |-> <<>>]

Reading(f) ==
  LET Lexeme(k) == f.tokens[f.nodes[k].start].literal[1]
      Kid(k, i) == f.nodes[k].children[i]
      reading[k \in DOMAIN f.nodes] ==
        LET type == f.nodes[k].type
            count == Len(f.nodes[k].children)
        IN  [type |-> type,
             literal |-> CASE type = "string" -> NameOf[Lexeme(k)]
                           [] type \in {"number", "bool", "null"} -> Lexeme(k)
                           [] OTHER -> "",
             names |-> IF type = "object"
                       THEN [i \in 1 .. count |-> NameOf[Lexeme(Kid(Kid(k, i), 1))]] ELSE <<>>,
             items |-> CASE type = "object" -> [i \in 1 .. count |-> reading[Kid(Kid(k, i), 2)]]
                         [] type = "array" -> [i \in 1 .. count |-> reading[Kid(Kid(k, i), 1)]]
                         [] OTHER -> <<>>]
  IN  reading[1]

\* What MarshalMeta's reader reads, from the tokens of the root.
Meaning(ts) ==
  LET d == Decode(Text(ts)) IN IF d.at = "end" THEN Reading(d) ELSE Invalid

Attached == Subtree(root)

NoPath == <<0>>

PathTo(n) ==
  LET holders == SelectSeq(Walk(root), LAMBDA m : Is(m, "object") \/ Is(m, "array"))
      above == SelectSeq(holders, LAMBDA m : m # n /\ n \in Subtree(m))
  IN  [d \in DOMAIN above |->
         CHOOSE i \in 1 .. Size(above[d]) : n \in Subtree(Child(above[d], i))]

Wrappers == {n \in Node : node[n].type \in {"field", "element"}}
Keys == {Child(n, 1) : n \in {m \in Node : Is(m, "field")}}
Value == Node \ (Wrappers \union Keys)

-----------------------------------------------------------------------------
(***************************************************************************)
(* A call: the receiver by its path, the arguments, the result, and the    *)
(* node whose text an accepted call changes.                               *)
(***************************************************************************)
Call(op, n, name, to, index, f, result, target) ==
  call' = [op |-> op, target |-> target,
           path |-> IF n \in Attached \cap Value THEN PathTo(n) ELSE NoPath,
           name |-> name, to |-> to, index |-> index,
           given |-> IF f.ok THEN Reading(f) ELSE Invalid,
           result |-> result]

\* No argument of the kind.
NoName == ""
NoIndex == -1
NoFragment == [ok |-> FALSE, tokens |-> <<>>, nodes |-> <<>>]

Unchanged == UNCHANGED <<token, node, list, root, edits>>

\* The list after the tokens from first to last made room for k new ones.
Spliced(first, last, k) ==
  SubSeq(list, 1, At(first) - 1) \o [i \in 1 .. k |-> Len(token) + i]
  \o SubSeq(list, At(last) + 1, Len(list))

Edit(tokens, nodes, tokenList) ==
  /\ token' = token \o tokens
  /\ node' = nodes
  /\ list' = tokenList
  /\ edits' = edits + 1
  /\ UNCHANGED root

(***************************************************************************)
(* The bodies of the mutating methods, once their arguments were accepted. *)
(* Each ends with the token list refusing tokens it does not own: ok says  *)
(* whether the call got past that, and the tree changes only then.         *)
(***************************************************************************)
ReplaceResult(n, f) ==
  IF ~f.ok THEN "invalid"
  ELSE IF InOrder(node[n].start, node[n].end) THEN "ok" ELSE "panic"

\* The node keeps its name and takes over the content of the top of the fragment.
ReplaceBody(n, f) ==
  LET ns == Shift(f.nodes, Len(token), Len(node) - 1)
  IN  Edit(f.tokens, [node EXCEPT ![n] = ns[1]] \o Tail(ns),
           Spliced(node[n].start, node[n].end, Len(f.tokens)))

\* The fragment goes behind token e and its top becomes child i of n.
InsertBody(n, i, e, f) ==
  LET ns == Shift(f.nodes, Len(token), Len(node))
  IN  Edit(f.tokens, [node EXCEPT ![n].children = InsertAt(@, i, Len(node) + 1)] \o ns,
           SubSeq(list, 1, At(e)) \o [k \in DOMAIN f.tokens |-> Len(token) + k]
           \o SubSeq(list, At(e) + 1, Len(list)))

Comma == Token(",")

\* A fault: the new child goes behind the first token of its neighbour.
InsertMarkInside(n, i) == IF i = 1 THEN node[n].start ELSE node[Child(n, i - 1)].start

\* Where a new child i goes, and its tokens with the gap and the comma.
InsertMark(n, i) == IF i = 1 THEN node[n].start ELSE node[Child(n, i - 1)].end

Spaced(n, i, f) ==
  CASE Size(n) = 0 -> Prefixed(GapTokens(node[n].start, node[n].end), f)
    [] Size(n) # 0 /\ i = 1 ->
         [Prefixed(GapTokens(node[n].start, node[Child(n, 1)].start), f) EXCEPT
            !.tokens = Append(@, Comma)]
    [] i > 1 ->
         Prefixed(<<Comma>> \o LeadingGap(n, IF i > Size(n) THEN Size(n) ELSE i), f)

InsertResult(n, i, f) ==
  IF ~f.ok THEN "invalid" ELSE IF In(InsertMark(n, i)) THEN "ok" ELSE "panic"

\* A fault: the last child leaves the comma before it.
RemoveRangeLeavesComma(n, i) ==
  <<node[Child(n, i)].start,
    IF i < Size(n) THEN PrevOf(node[Child(n, i + 1)].start) ELSE node[Child(n, i)].end>>

\* A fault: with an only child goes all that is behind its comma.
RemoveRangeToTheEnd(n, i) ==
  IF Size(n) = 1 THEN <<node[Child(n, 1)].start, PrevOf(node[n].end)>>
  ELSE IF i < Size(n) THEN <<node[Child(n, i)].start, PrevOf(node[Child(n, i + 1)].start)>>
  ELSE <<NextOf(node[Child(n, i - 1)].end), node[Child(n, i)].end>>

\* The tokens that go with child i: the gap to its neighbour, or a comma after it.
RemoveRange(n, i) ==
  LET first == node[Child(n, i)].start
      last == node[Child(n, i)].end
      rest == Between(last, node[n].end)
      comma == SelectInSeq(rest, LAMBDA x : token[x].type = "comma")
  IN  CASE Size(n) = 1 -> <<first, IF comma = 0 THEN last ELSE rest[comma]>>
        [] Size(n) > 1 /\ i < Size(n) -> <<first, PrevOf(node[Child(n, i + 1)].start)>>
        [] Size(n) > 1 /\ i = Size(n) -> <<NextOf(node[Child(n, i - 1)].end), last>>

RemoveResult(n, i) ==
  LET r == RemoveRange(n, i) IN IF InOrder(r[1], r[2]) THEN "ok" ELSE "panic"

RemoveBody(n, i) ==
  LET r == RemoveRange(n, i)
  IN  Edit(<<>>, [node EXCEPT ![n].children = RemoveAt(@, i)], Spliced(r[1], r[2], 0))

-----------------------------------------------------------------------------
(***************************************************************************)
(* The methods of Node.  Each names its result first; the document changes *)
(* exactly when that is "ok".                                              *)
(***************************************************************************)
Replace(n, f) ==
  LET result == ReplaceResult(n, f)
  IN  /\ Call("replace", n, NoName, NoName, NoIndex, f, result, n)
      /\ IF result = "ok" THEN ReplaceBody(n, f) ELSE Unchanged

ReplaceObjectField(n, name, f) ==
  LET found == FieldIndex(n, name)
      old == Field(n, First(found))
      result == IF ~Is(n, "object") THEN "wrong type"
                ELSE IF found = {} THEN "not found" ELSE ReplaceResult(old, f)
  IN  /\ Call("replace field", n, name, NoName, NoIndex, f, result, IF result = "ok" THEN old ELSE n)
      /\ IF result = "ok" THEN ReplaceBody(old, f) ELSE Unchanged

\* The prefix is looked up before a Go value is encoded, but after a node is found
\* valid: through a stale handle, either may be what the call trips over.
PrefixLost(n) == Size(n) > 0 /\ ~In(node[KeyNode(n, 1)].end)

InsertObjectField(n, name, f) ==
  LET i == Size(n) + 1
      results == IF ~Is(n, "object") THEN {"wrong type"}
                 ELSE IF FieldIndex(n, name) # {} THEN {"exists"}
                 ELSE {InsertResult(n, i, f)} \union IF PrefixLost(n) THEN {"panic"} ELSE {}
      field == NewField(name, FieldValuePrefix(n), f)
  IN  \E result \in results :
        /\ Call("insert field", n, name, NoName, NoIndex, f, result, n)
        /\ IF result = "ok" THEN InsertBody(n, i, InsertMark(n, i), Spaced(n, i, field))
                            ELSE Unchanged

RemoveObjectField(n, name) ==
  LET found == FieldIndex(n, name)
      i == First(found)
      result == IF ~Is(n, "object") THEN "wrong type"
                ELSE IF found = {} THEN "not found" ELSE RemoveResult(n, i)
  IN  /\ Call("remove field", n, name, NoName, NoIndex, NoFragment, result, n)
      /\ IF result = "ok" THEN RemoveBody(n, i) ELSE Unchanged

RenameObjectField(n, name, to) ==
  LET found == FieldIndex(n, name)
      key == KeyNode(n, First(found))
      f == Encoded(<<QuoteOf[to]>>)
      result == IF ~Is(n, "object") THEN "wrong type"
                ELSE IF found = {} THEN "not found"
                ELSE IF name # to /\ FieldIndex(n, to) # {} THEN "exists"
                ELSE ReplaceResult(key, f)
  IN  /\ Call("rename field", n, name, to, NoIndex, NoFragment, result, IF result = "ok" THEN key ELSE n)
      /\ IF result = "ok" THEN ReplaceBody(key, f) ELSE Unchanged

ReplaceArrayValue(n, i, f) ==
  LET old == Element(n, i)
      result == IF ~Is(n, "array") THEN "wrong type"
                ELSE IF i \notin 1 .. Size(n) THEN "out of range" ELSE ReplaceResult(old, f)
  IN  /\ Call("replace value", n, NoName, NoName, i, f, result, IF result = "ok" THEN old ELSE n)
      /\ IF result = "ok" THEN ReplaceBody(old, f) ELSE Unchanged

InsertArrayValue(n, i, f) ==
  LET result == IF ~Is(n, "array") THEN "wrong type"
                ELSE IF i \notin 1 .. Size(n) + 1 THEN "out of range" ELSE InsertResult(n, i, f)
  IN  /\ Call("insert value", n, NoName, NoName, i, f, result, n)
      /\ IF result = "ok" THEN InsertBody(n, i, InsertMark(n, i), Spaced(n, i, NewElement(f)))
                          ELSE Unchanged

RemoveArrayValue(n, i) ==
  LET result == IF ~Is(n, "array") THEN "wrong type"
                ELSE IF i \notin 1 .. Size(n) THEN "out of range" ELSE RemoveResult(n, i)
  IN  /\ Call("remove value", n, NoName, NoName, i, NoFragment, result, n)
      /\ IF result = "ok" THEN RemoveBody(n, i) ELSE Unchanged

\* The comment keeps its style.  Only an end of line and `*/' are looked for in the
\* body: one that begins with a slash ends a block with its own opening.
commentLiteralText(literal, body) ==
  IF literal[1] \in LineComment THEN LineOf[body] ELSE BlockOf[body]

\* Any comment ever read may be written to, also after it was removed.
ReplaceText(c, body) ==
  LET literal == commentLiteralText(token[c].literal, body)
      accepted == literal # <<>>
  IN  /\ Call("comment", Nil, NoName, NoName, NoIndex, NoFragment,
              IF accepted THEN "ok" ELSE "invalid", Nil)
      /\ IF ~accepted THEN Unchanged
         ELSE /\ edits' = edits + 1
              /\ token' = [token EXCEPT ![c].literal = literal]
              /\ UNCHANGED <<node, list, root>>

-----------------------------------------------------------------------------
Init ==
  /\ \E text \in Source :
       LET d == Decode(text)
       IN  token = d.tokens /\ node = d.nodes /\ list = [i \in DOMAIN d.tokens |-> i]
  /\ root = 1
  /\ edits = 0
  /\ call = [op |-> "decode", target |-> Nil, path |-> NoPath, name |-> NoName,
             to |-> NoName, index |-> NoIndex, given |-> Invalid, result |-> "ok"]
  /\ value = Meaning(Values(Span(root)))

Handle ==
  Value \union (IF "wrapper" \in HandleKind THEN Wrappers ELSE {})
        \union (IF "key" \in HandleKind THEN Keys ELSE {})

Given == {Encoded(text) : text \in Input} \union {Cloned(n) : n \in Handle}

Marshaled ==
  LET from == CHOOSE i \in DOMAIN list' : list'[i] = node'[root].start
      to == CHOOSE i \in DOMAIN list' : list'[i] = node'[root].end
  IN  Meaning([i \in 1 .. to - from + 1 |-> token'[list'[from + i - 1]]])

Next ==
  /\ edits < MaxEdits
  /\ \/ \E f \in Given :
          \/ \E n \in Handle : Replace(n, f)
          \/ \E n \in Value, name \in Name :
               ReplaceObjectField(n, name, f) \/ InsertObjectField(n, name, f)
          \/ \E n \in Value : \E i \in 0 .. Size(n) + 2 :
               ReplaceArrayValue(n, i, f) \/ InsertArrayValue(n, i, f)
     \/ \E n \in Value, name \in Name :
          RemoveObjectField(n, name) \/ \E to \in Name : RenameObjectField(n, name, to)
     \/ \E n \in Value : \E i \in 0 .. Size(n) + 1 : RemoveArrayValue(n, i)
     \/ \E c \in DOMAIN token, body \in Body :
          token[c].type = "comment" /\ ReplaceText(c, body)
  /\ value' = IF call'.result = "ok" THEN Marshaled ELSE value

Spec == Init /\ [][Next]_vars

-----------------------------------------------------------------------------
\* The list holds allocated tokens, each once, and the tree is over allocated nodes.
TypeOK ==
  /\ \A t \in DOMAIN token : token[t].type \in {"anchor", "comma", "colon", "delim", "whitespace",
                                 "newline", "comment", "number", "string", "identifier"}
  /\ \A n \in Node :
       /\ node[n].type \in {"object", "field", "array", "element",
                            "string", "number", "bool", "null"}
       /\ {node[n].start, node[n].end} \subseteq DOMAIN token
       /\ \A i \in 1 .. Size(n) : Child(n, i) \in Node
  /\ \A i, j \in DOMAIN list : list[i] \in DOMAIN token /\ (list[i] = list[j] => i = j)
  /\ root \in Node
  /\ edits \in 0 .. MaxEdits

(***************************************************************************)
(* Every comment that is written, and every space, which may be one copied *)
(* with comments, is read again as comments and space.  ReplaceText does   *)
(* not see to it: with a body that begins with a slash, the rest of a      *)
(* block comment becomes text of the document.                             *)
(***************************************************************************)
CommentsWhole ==
  \A i \in At(node[root].start) .. At(node[root].end) :
    token[list[i]].type \in Space \union {"comment"} =>
      \A t \in ToSet(Lex(token[list[i]].literal)) : t.type \in Space \union {"comment"}

(***************************************************************************)
(* As long as comments are whole - and again, once a broken one is gone -  *)
(* MarshalMeta never fails and loses nothing of the tree: the bytes of the *)
(* root parse, and into the very tree that the handles see - the same      *)
(* nodes over the same text.  No edit leaves a missing or doubled comma, a *)
(* duplicate key, or a node whose first or last token is not its own.      *)
(***************************************************************************)
SameTree(d) ==
  LET w == Walk(root)
  IN  /\ Len(w) = Len(d.nodes)
      /\ \A k \in DOMAIN w :
           /\ node[w[k]].type = d.nodes[k].type
           /\ node[w[k]].children = [i \in DOMAIN d.nodes[k].children |-> w[d.nodes[k].children[i]]]
           /\ Bytes(w[k]) = Text(SubSeq(d.tokens, d.nodes[k].start, d.nodes[k].end))

RoundTrips ==
  CommentsWhole => LET d == Decode(Bytes(root)) IN d.at = "end" /\ SameTree(d)

(***************************************************************************)
(* The anchors in the list are the ends of the fields and elements of the  *)
(* tree: an edit that forgot one would stop the walks of later edits.      *)
(***************************************************************************)
AnchorsMatch ==
  {e \in DOMAIN token : In(e) /\ token[e].type = "anchor"}
    = UNION {{node[n].start, node[n].end} : n \in Attached \cap Wrappers}

(***************************************************************************)
(* No comment is out of the reach of the comment handles: wherever edits   *)
(* leave it, some node of the document reports it.                         *)
(***************************************************************************)
EveryCommentFound ==
  CommentsIn(list) \subseteq UNION {Comments(n) : n \in Attached}

(***************************************************************************)
(* An edit changes its target and what contains it, and no other node that *)
(* stays in the document: that node keeps its children, and its tokens are *)
(* the same ones, unchanged and still in one piece.                        *)
(***************************************************************************)
InOnePiece(s, l) == \E i \in 1 .. Len(l) - Len(s) + 1 : SubSeq(l, i, i + Len(s) - 1) = s

OthersUntouched ==
  [][call'.op # "comment" /\ call'.result = "ok" =>
       \A m \in Attached :
         LET s == Span(m)
         IN  call'.target \notin Subtree(m) /\ s[1] \in ToSet(list') =>
               /\ node'[m] = node[m]
               /\ InOnePiece(s, list')
               /\ \A e \in ToSet(s) : token'[e] = token[e]]_vars

(***************************************************************************)
(* An edit loses a comment only with the value that holds it, or when it   *)
(* stands between a removed child and the next one, or the one before when *)
(* the child is the last, or in front of the comma behind an only child.   *)
(* The other comments stay in their order.                                 *)
(***************************************************************************)
GapOf(n, i) ==
  CASE i < Size(n) -> Between(node[Child(n, i)].end, node[Child(n, i + 1)].start)
    [] i = Size(n) /\ i > 1 -> Between(node[Child(n, i - 1)].end, node[Child(n, i)].start)
    [] i = 1 /\ i = Size(n) ->
         Before(Between(node[Child(n, i)].end, node[n].end), LAMBDA e : token[e].type = "comma")

MayGo(c) ==
  CASE c.op \in {"replace", "replace field", "replace value", "rename field"} -> ToSet(Span(c.target))
    [] c.op \in {"remove field", "remove value"} ->
         LET n == c.target
             i == IF c.op = "remove value" THEN c.index ELSE First(FieldIndex(n, c.name))
         IN  ToSet(Span(Child(n, i))) \union ToSet(GapOf(n, i))
    [] OTHER -> {}

CommentsKept ==
  [][call'.result = "ok" =>
       \A c, d \in CommentsIn(list) \ MayGo(call') :
         In(c)' /\ (At(c) < At(d) => At(c)' < At(d)')]_vars

(***************************************************************************)
(* The document is a JSON value, and every method does to it what its name *)
(* says, at the place its receiver is, or refuses for the reason it gives. *)
(* Only an accepted body of a comment can break one.  While one is broken, *)
(* nothing is promised but that a refused call changes nothing; once it is *)
(* gone or has another body, methods again do what they say.               *)
(***************************************************************************)
Abs == INSTANCE JSONValue WITH whole <- CommentsWhole

ImplementsJSONValue == Abs!Spec
=============================================================================
