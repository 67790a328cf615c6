------------------------------- MODULE Layout -------------------------------
(***************************************************************************)
(* The two layouts of a text (json/format.go): without any space, and      *)
(* indented; and what json/indent.go takes the indentation of a document   *)
(* to be, with which an edit lays out what it adds.                        *)
(*                                                                         *)
(* A space of several characters is one token for the lexer and several    *)
(* for module Syntax: here the whole run counts.                           *)
(***************************************************************************)
EXTENDS Grammar

CONSTANT Indentation    \* what a line may be indented by, per level

IsSpace(t) == t.type \in {"whitespace", "newline"}
IsLineComment(t) == t.type = "comment" /\ t.literal[1] \in LineComment
Unspaced(ts) == SelectSeq(ts, LAMBDA t : ~IsSpace(t))

\* A fault: nothing ends a line comment.
EndedByNothing(t) == <<>>

\* What follows a token without any space.
EndOf(t) == IF IsLineComment(t) THEN <<"\n">> ELSE <<>>

Compact(ts) ==
  LET kept == Unspaced(ts) IN FlattenSeq([i \in DOMAIN kept |-> kept[i].literal \o EndOf(kept[i])])

-----------------------------------------------------------------------------
IsOpen(t) == t.literal # <<>> /\ t.literal[1] \in {"{", "["}
IsClose(t) == t.literal # <<>> /\ t.literal[1] \in {"}", "]"}

Repeat(indent, n) == FlattenSeq([i \in 1 .. n |-> indent])

\* A fault: closing brackets do not count.
formatDepthRising(ts, i) == Cardinality({j \in 1 .. i - 1 : IsOpen(ts[j])})

formatDepth(ts, i) ==
  Cardinality({j \in 1 .. i - 1 : IsOpen(ts[j])}) - Cardinality({j \in 1 .. i - 1 : IsClose(ts[j])})

\* The i-th of the tokens, which are no spaces, with the space around it.
Laid(ts, i, indent) ==
  LET t == ts[i]
      Line(depth) == <<"\n">> \o Repeat(indent, depth)
      depth == formatDepth(ts, i)
  IN  CASE IsOpen(t) -> t.literal \o IF i < Len(ts) /\ ~IsClose(ts[i + 1]) THEN Line(depth + 1) ELSE <<>>
        [] IsClose(t) -> (IF i > 1 /\ ~IsOpen(ts[i - 1]) THEN Line(depth - 1) ELSE <<>>) \o t.literal
        [] t.type = "colon" -> <<":", " ">>
        [] t.type = "comma" ->
             <<",">> \o IF i < Len(ts) /\ ts[i + 1].type = "comment" THEN <<" ">>
                        ELSE IF i < Len(ts) /\ IsClose(ts[i + 1]) THEN <<>> ELSE Line(depth)
        [] IsLineComment(t) -> t.literal \o Line(depth)
        [] OTHER -> t.literal

trailingJSONSpace(source) ==
  LET last == SelectLastInSeq(source, LAMBDA x : x \notin {" ", "\n"})
  IN  SubSeq(source, last + 1, Len(source))

Indent(ts, indent, source) ==
  LET kept == Unspaced(ts)
  IN  FlattenSeq([i \in DOMAIN kept |-> Laid(kept, i, indent)]) \o trailingJSONSpace(source)

-----------------------------------------------------------------------------
(***************************************************************************)
(* The indentation of a parsed document.  Wrapper nodes are no level.      *)
(***************************************************************************)
transparentNodeDepth(n) == n.type \in {"field", "element"}

Depths(nodes) ==
  LET depth[k \in DOMAIN nodes] ==
        IF k = 1 THEN 0
        ELSE LET p == CHOOSE p \in 1 .. k - 1 : k \in ToSet(nodes[p].children)
             IN  depth[p] + IF transparentNodeDepth(nodes[p]) THEN 0 ELSE 1
  IN  depth

\* The space from the beginning of the line to the token at i, as a set: empty
\* when something else is there.
lineIndent(ts, i) ==
  LET last == SelectLastInSeq(SubSeq(ts, 1, i - 1), LAMBDA t : t.type # "whitespace")
  IN  IF last > 0 /\ ts[last].type = "newline" THEN {Text(SubSeq(ts, last + 1, i - 1))} ELSE {}

\* What one level adds, as a set.
PerLevel(indent, depth) ==
  LET one == SubSeq(indent, 1, Len(indent) \div depth)
  IN  IF Repeat(one, depth) = indent THEN {one} ELSE {}

detectIndent(d) ==
  LET depth == Depths(d.nodes)
      indented == {k \in DOMAIN d.nodes : depth[k] > 0 /\ lineIndent(d.tokens, d.nodes[k].start) \ {<<>>} # {}}
      PerLevelAt(k) == PerLevel(CHOOSE s \in lineIndent(d.tokens, d.nodes[k].start) : TRUE, depth[k])
      found == {PerLevelAt(k) : k \in indented}
  IN  IF Cardinality(found) = 1 /\ found # {{}} THEN CHOOSE s \in UNION found : TRUE ELSE <<>>

-----------------------------------------------------------------------------
(***************************************************************************)
(* Either layout of an accepted text has the same tokens and comments as   *)
(* the text, so that no comment has come to an end earlier or later and    *)
(* nothing is part of one that was not, and the compact one of the inden-  *)
(* ted text is that of the text.                                           *)
(***************************************************************************)
LayoutsKeepText ==
  LET d == Decode(text)
      Same(layout) == Unspaced(Lex(layout)) = Unspaced(Lex(text)) /\ Valid(layout)
  IN  d.at = "end" =>
        /\ Same(Compact(d.tokens))
        /\ \A indent \in Indentation :
             /\ Same(Indent(d.tokens, indent, text))
             /\ Compact(Lex(Indent(d.tokens, indent, text))) = Compact(d.tokens)

(***************************************************************************)
(* In what Indent has laid out, the indentation is found again, and no     *)
(* other one: it can be missed only where comments stand before the        *)
(* values, or where there is no value inside another.                      *)
(***************************************************************************)
IndentationFound ==
  LET d == Decode(text)
      nested == Len(d.nodes) > 1
      commented == \E t \in ToSet(d.tokens) : t.type = "comment"
  IN  d.at = "end" =>
        \A indent \in Indentation :
          LET found == detectIndent(Decode(Indent(d.tokens, indent, text)))
          IN  found = indent \/ (found = <<>> /\ (commented \/ ~nested))
=============================================================================
