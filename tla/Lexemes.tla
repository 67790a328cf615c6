------------------------------ MODULE Lexemes ------------------------------
(***************************************************************************)
(* The characters that the lexer tells apart (json/util.go), positions     *)
(* (internal/cursor), and what the parser of module Syntax looks at in a   *)
(* token.                                                                  *)
(*                                                                         *)
(* A token of the lexer has a type, its text and the position where it     *)
(* begins.                                                                 *)
(***************************************************************************)
EXTENDS Strings, Syntax

HorizontalSpace == {" ", "\t", "\f", "VT", "NBSP"}
Newline == {"\n", "\r", "LS", "PS"}
StrictSpace == {" ", "\t", "\n", "\r"}

Letter == ToSet(SubSeq(Printable, 34, 59)) \union ToSet(SubSeq(Printable, 66, 91))
IdentifierStart == Letter \union {"_", "$"}
IdentifierPart == IdentifierStart \union ToSet(Digits)
NumberStart == ToSet(Digits) \union Sign \union {"."}
NumberDelimiter == {",", "]", "}", ":", "[", "{", "/"} \union HorizontalSpace \union Newline
Quote == {"\"", "'"}
Single == {":", ",", "{", "}", "[", "]"}

SingleType(c) == CASE c = ":" -> "colon" [] c = "," -> "comma" [] OTHER -> "delim"

-----------------------------------------------------------------------------
(***************************************************************************)
(* Positions.                                                              *)
(***************************************************************************)
Origin == [line |-> 1, column |-> 1, offset |-> 0]

Size(c) == CASE CodeOf[c] < 128 -> 1 [] CodeOf[c] \in 128 .. 2047 -> 2 [] OTHER -> 3

\* The position behind the character c.
Advanced(p, c) ==
  [line |-> IF c = "\n" THEN p.line + 1 ELSE p.line,
   column |-> IF c \in {"\n", "\r"} THEN 1 ELSE p.column + 1,
   offset |-> p.offset + Size(c)]

-----------------------------------------------------------------------------
(***************************************************************************)
(* What the parser sees.  Of a comment its style, of a space whether it is *)
(* one of strict JSON, of a number and a string whether it is valid.       *)
(***************************************************************************)
\* The characters as one lexeme.
Spelling(text) == FoldLeft(LAMBDA word, c : word \o c, "", text)

IsSpace(t) == t.type \in {"whitespace", "newline"}

validStrictSpace(text) == ToSet(text) \subseteq StrictSpace

Comment(text) == IF text[2] = "/" THEN "//" ELSE "/**/"

Refused == [type |-> "illegal", literal |-> <<"illegal">>]

IsRefused(t) ==
  \/ t.type = "illegal"
  \/ IsSpace(t) /\ "AdditionalWhitespace" \notin Options /\ ~validStrictSpace(t.text)
  \/ t.type = "number" /\ ~validNumberWithOptions(t.text, Options)
  \/ t.type = "string" /\ ~unquoteStringOptions(t.text, Options).ok

Seen(t) ==
  CASE IsRefused(t) -> Refused
    [] t.type = "comment" -> [type |-> "comment", literal |-> <<Comment(t.text)>>]
    [] OTHER -> [type |-> t.type, literal |-> <<Spelling(t.text)>>]

\* Trivia as consume and More skip it, before consume looks at the space itself.
IsTrivia(t) == IsSpace(t) \/ (t.type = "comment" /\ CommentAllowed(Seen(t)))

\* A key is read before its name is compared with those before it.
IsRepeatedKey(p, t) ==
  p.at \in {"first member", "next member"} /\ IsKey(Seen(t)) /\ NameOf[Seen(t).literal[1]] \in Names(p)
=============================================================================
