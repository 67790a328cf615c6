------------------------------- MODULE Syntax -------------------------------
(***************************************************************************)
(* How source text becomes tokens and a tree: json/lexer.go as far as the  *)
(* parser can tell lexemes apart, and json/decoder.go.                     *)
(*                                                                         *)
(* A text is a sequence of lexemes.  A token has a type and a literal,     *)
(* which is again a text: one lexeme when it comes from the lexer, none    *)
(* for an anchor.  A tree is a sequence of nodes, the root first; a node   *)
(* has its type, the positions of its first and last token, and its        *)
(* children.  As in the code, the fields of an object and the elements of  *)
(* an array are wrapper nodes delimited by anchors.                        *)
(***************************************************************************)
EXTENDS Integers, Sequences, SequencesExt

CONSTANTS Options,        \* the syntax extensions that are switched on
          Number,         \* number lexemes
          Quoted,         \* string lexemes
          Identifier,     \* identifier lexemes other than the keywords
          LineComment,    \* lexemes //...
          BlockComment,   \* lexemes /*...*/
          NameOf          \* the name a string, identifier or keyword stands for as a key

Keyword == {"true", "false", "null"}
Punctuation == {",", ":", "{", "}", "[", "]", " ", "\n"}

\* A lexeme of another class is not mistaken for punctuation.
ASSUME PunctuationAssumption ==
  Punctuation \cap (Number \union Quoted \union Identifier \union LineComment \union BlockComment) = {}

\* A comment is mistaken for no other lexeme.
ASSUME CommentAssumption ==
  (LineComment \union BlockComment) \cap (Keyword \union Number \union Quoted \union Identifier) = {}

AnyLexeme ==
  Punctuation \union Keyword \union Number \union Quoted \union Identifier
    \union LineComment \union BlockComment

TokenType(x) ==
  CASE x = "," -> "comma"
    [] x = ":" -> "colon"
    [] x \in {"{", "}", "[", "]"} -> "delim"
    [] x = " " -> "whitespace"
    [] x = "\n" -> "newline"
    [] x \in LineComment \union BlockComment -> "comment"
    [] x \in Number -> "number"
    [] x \in Quoted -> "string"
    [] x \in Identifier \union Keyword -> "identifier"

Token(x) == [type |-> TokenType(x), literal |-> <<x>>]
Anchor == [type |-> "anchor", literal |-> <<>>]

(***************************************************************************)
(* Lexing.  A line comment runs to the end of its line, whatever is there. *)
(***************************************************************************)
Swallows(ts, x) ==
  ts # <<>> /\ Last(ts).type = "comment" /\ Last(ts).literal[1] \in LineComment /\ x # "\n"

Scan(ts, x) ==
  IF Swallows(ts, x) THEN [ts EXCEPT ![Len(ts)].literal = Append(@, x)]
                     ELSE Append(ts, Token(x))

Lex(text) ==
  LET lexed[i \in 0 .. Len(text)] == IF i = 0 THEN <<>> ELSE Scan(lexed[i - 1], text[i])
  IN  lexed[Len(text)]

Text(ts) == FlattenSeq([i \in DOMAIN ts |-> ts[i].literal])

-----------------------------------------------------------------------------
(***************************************************************************)
(* Parsing, one token at a time.  The parser has the tokens kept so far,   *)
(* the tree built so far, the nodes still open, innermost last (the calls  *)
(* of parse, parseObject and parseArray that have not returned), and the   *)
(* place in the innermost call where the next token is looked at.  The     *)
(* anchors that the code inserts around a field or element once it is      *)
(* parsed are emitted in passing.                                          *)
(***************************************************************************)
Start == [tokens |-> <<>>, nodes |-> <<>>, open |-> <<>>, at |-> "value"]

Error(p) == [p EXCEPT !.at = "error"]
Emit(p, t) == [p EXCEPT !.tokens = Append(@, t)]

\* A node of the given type opens with the next token, inside the innermost open node.
Open(p, type) ==
  LET new == Len(p.nodes) + 1
      adopted == [i \in DOMAIN p.nodes |->
                    IF p.open # <<>> /\ i = Last(p.open)
                    THEN [p.nodes[i] EXCEPT !.children = Append(@, new)] ELSE p.nodes[i]]
      next == Len(p.tokens) + 1
  IN  [p EXCEPT !.open = Append(@, new),
                !.nodes = Append(adopted, [type |-> type, start |-> next, end |-> next,
                                           children |-> <<>>])]

\* A fault: the node ends with the token that is looked at, the one after its last.
ShutLate(p) == [p EXCEPT !.nodes[Last(p.open)].end = Len(p.tokens) + 1, !.open = Front(@)]

\* The innermost open node ends with the last token.
Shut(p) == [p EXCEPT !.nodes[Last(p.open)].end = Len(p.tokens), !.open = Front(@)]

\* A fault: the field or element ends where its value does, without an anchor.
FinishUnanchored(p) ==
  IF p.open = <<>> THEN [p EXCEPT !.at = "end"] ELSE [Shut(p) EXCEPT !.at = "after"]

\* A value is complete, and with it the field or element it is in.
Finish(p) ==
  IF p.open = <<>> THEN [p EXCEPT !.at = "end"]
  ELSE [Shut(Emit(p, Anchor)) EXCEPT !.at = "after"]

Wrap(p, type) == Emit(Open(p, type), Anchor)
Leaf(p, type, t) == Shut(Emit(Open(p, type), t))

ParseValue(p, t) ==
  CASE t.type = "string" -> Finish(Leaf(p, "string", t))
    [] t.type = "number" -> Finish(Leaf(p, "number", t))
    [] t.literal[1] \in {"true", "false"} -> Finish(Leaf(p, "bool", t))
    [] t.literal[1] = "null" -> Finish(Leaf(p, "null", t))
    [] t.literal[1] = "{" -> [Emit(Open(p, "object"), t) EXCEPT !.at = "first member"]
    [] t.literal[1] = "[" -> [Emit(Open(p, "array"), t) EXCEPT !.at = "first element"]
    [] OTHER -> Error(p)

\* The container that is open ends here.
Close(p, t) == Finish(Shut(Emit(p, t)))

\* A fault: trailing commas are accepted without being asked for.
MayCloseAnywhere(p, first) == TRUE

\* A container may close at the place where a member is expected: before the
\* first, and after a comma if the syntax has trailing commas.
MayClose(p, first) == p.at = first \/ "TrailingCommas" \in Options

Names(p) ==
  LET fields == p.nodes[Last(p.open)].children
  IN  {NameOf[p.tokens[p.nodes[p.nodes[fields[i]].children[1]].start].literal[1]] :
         i \in DOMAIN fields}

\* A fault: a bare identifier is no key in any syntax.
IsKeyQuoted(t) == t.type = "string"

IsKey(t) == t.type = "string" \/ ("ECMAScriptIdentifiers" \in Options /\ t.type = "identifier")

ParseKey(p, t) ==
  IF IsKey(t) /\ NameOf[t.literal[1]] \notin Names(p)
  THEN [Leaf(Wrap(p, "field"), "string", t) EXCEPT !.at = "colon"]
  ELSE Error(p)

ParseAfter(p, t) ==
  LET object == p.nodes[Last(p.open)].type = "object"
  IN  CASE t.type = "comma" ->
             [Emit(p, t) EXCEPT !.at = IF object THEN "next member" ELSE "next element"]
        [] t.type # "comma" /\ t.literal[1] = (IF object THEN "}" ELSE "]") -> Close(p, t)
        [] OTHER -> Error(p)

CommentAllowed(t) ==
  IF t.literal[1] \in LineComment THEN "SingleLineComments" \in Options
                                  ELSE "MultilineComments" \in Options

Trivia(t) == t.type \in {"whitespace", "newline"} \/ (t.type = "comment" /\ CommentAllowed(t))

ParseToken(p, t) ==
  CASE p.at = "value" -> ParseValue(p, t)
    [] p.at \in {"first element", "next element"} ->
         IF t.literal[1] # "]" THEN ParseValue(Wrap(p, "element"), t)
         ELSE IF MayClose(p, "first element") THEN Close(p, t) ELSE Error(p)
    [] p.at \in {"first member", "next member"} ->
         IF t.literal[1] # "}" THEN ParseKey(p, t)
         ELSE IF MayClose(p, "first member") THEN Close(p, t) ELSE Error(p)
    [] p.at = "colon" -> IF t.type = "colon" THEN [Emit(p, t) EXCEPT !.at = "value"] ELSE Error(p)
    [] p.at = "after" -> ParseAfter(p, t)
    [] p.at \in {"end", "error"} -> Error(p)

\* A fault: spaces and comments are skipped instead of kept.
ParseStepSkipsTrivia(p, t) == IF p.at # "error" /\ Trivia(t) THEN p ELSE ParseToken(p, t)

ParseStep(p, t) == IF p.at # "error" /\ Trivia(t) THEN Emit(p, t) ELSE ParseToken(p, t)

\* DecodeMeta: a text is valid when the parser is at the end of a value.
Decode(text) ==
  LET ts == Lex(text)
      parsed[i \in 0 .. Len(ts)] == IF i = 0 THEN Start ELSE ParseStep(parsed[i - 1], ts[i])
  IN  parsed[Len(ts)]

Valid(text) == Decode(text).at = "end"
=============================================================================
