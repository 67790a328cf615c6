------------------------------ MODULE Grammar ------------------------------
(***************************************************************************)
(* The grammar of JSON with the extensions that SyntaxOptions names, as    *)
(* the set of its sentences, and a writer who types a text one lexeme at a *)
(* time: what the parser of module Syntax makes of each text is compared   *)
(* with the grammar.                                                       *)
(***************************************************************************)
EXTENDS Syntax

CONSTANTS Lexeme,      \* what may be typed
          MaxTokens,   \* bound: the lexemes of a sentence, in which there is no trivia
          MaxText      \* bound: the lexemes of a text

ASSUME LexemeAssumption == Lexeme \subseteq AnyLexeme

VARIABLE text

-----------------------------------------------------------------------------
(***************************************************************************)
(* The sentences.  A list of elements or members comes with the names in   *)
(* it, which must differ; elements have none.                              *)
(***************************************************************************)
Lists(Item) ==
  LET Fit(l, x) == l.names \cap x.names = {} /\ Len(l.text) + Len(x.text) < MaxTokens
      ofAtMost[n \in 1 .. MaxTokens] ==
        IF n = 1 THEN Item
        ELSE LET shorter == ofAtMost[n - 1]
             IN  shorter \union
                 {[names |-> p[1].names \union p[2].names, text |-> p[1].text \o <<",">> \o p[2].text] :
                    p \in {q \in shorter \X Item : Fit(q[1], q[2])}}
  IN  {l.text : l \in ofAtMost[(MaxTokens + 1) \div 2]}

Bracketed(open, Contents, close) ==
  LET Ending == {<<>>} \union IF "TrailingCommas" \in Options THEN {<<",">>} ELSE {}
  IN  {<<open, close>>} \union {<<open>> \o s \o e \o <<close>> : s \in Contents, e \in Ending}

Scalar == Lexeme \cap (Number \union Quoted \union Keyword)

Key == Lexeme \cap (Quoted \union IF "ECMAScriptIdentifiers" \in Options
                                  THEN Identifier \union Keyword ELSE {})

Sentences ==
  LET nested[d \in 0 .. MaxTokens \div 2] ==
        IF d = 0 THEN {<<x>> : x \in Scalar}
        ELSE LET inner == {v \in nested[d - 1] : Len(v) <= MaxTokens - 2}
                 elements == {[names |-> {}, text |-> v] : v \in inner}
                 members == {[names |-> {NameOf[k]}, text |-> <<k, ":">> \o v] : k \in Key, v \in inner}
             IN  nested[d - 1] \union Bracketed("[", Lists(elements), "]")
                               \union Bracketed("{", Lists(members), "}")
  IN  {v \in nested[MaxTokens \div 2] : Len(v) <= MaxTokens}

Beginnings == UNION {{SubSeq(s, 1, n) : n \in 0 .. Len(s)} : s \in Sentences}

-----------------------------------------------------------------------------
IsTrivia(t) == t.type \in {"whitespace", "newline", "comment"}

\* The text without its trivia, and whether the trivia is of an allowed kind.
Significant(x) == Text(SelectSeq(Lex(x), LAMBDA t : ~IsTrivia(t)))

CommentsAllowed ==
  \A t \in ToSet(Lex(text)) :
    /\ IsTrivia(t) /\ t.literal[1] \in LineComment => "SingleLineComments" \in Options
    /\ IsTrivia(t) /\ t.literal[1] \in BlockComment => "MultilineComments" \in Options

Init == text = <<>>

\* Two words in a row would be one lexeme, another one.
Word == Number \union Identifier \union Keyword
RunsInto(x) == x \in Word /\ text # <<>> /\ Last(text) \in Word

\* Nothing is typed after an error: it would change nothing.
Type(x) ==
  /\ Len(text) < MaxText
  /\ ~RunsInto(x)
  /\ Decode(text).at # "error"
  /\ Len(Significant(Append(text, x))) <= MaxTokens
  /\ text' = Append(text, x)

Next == \E x \in Lexeme : Type(x)

Spec == Init /\ [][Next]_text

-----------------------------------------------------------------------------
(***************************************************************************)
(* DecodeMeta accepts exactly the sentences, with allowed trivia anywhere  *)
(* between their tokens, and reports an error no later and no earlier than *)
(* at the first token with which no sentence goes on.  What is too long    *)
(* for a bounded sentence is left aside.                                   *)
(***************************************************************************)
AcceptsGrammar ==
  LET at == Decode(text).at
  IN  /\ at = "end" <=> CommentsAllowed /\ Significant(text) \in Sentences
      /\ CommentsAllowed /\ Significant(text) \in Beginnings => at # "error"

(***************************************************************************)
(* What is parsed can be written back: an accepted text is the text of the *)
(* tokens that were kept.                                                  *)
(***************************************************************************)
KeepsText ==
  LET d == Decode(text) IN d.at = "end" => Text(d.tokens) = text

(***************************************************************************)
(* The tree of an accepted text is what the edits assume: siblings follow  *)
(* each other within their parent, fields and elements begin and end with  *)
(* an anchor of their own, and nothing else does.                          *)
(***************************************************************************)
TreeFits ==
  LET d == Decode(text)
      From(k) == d.nodes[k].start
      To(k) == d.nodes[k].end
      Wrapped == {k \in DOMAIN d.nodes : d.nodes[k].type \in {"field", "element"}}
  IN  d.at = "end" =>
        /\ \A k \in DOMAIN d.nodes :
             LET kids == d.nodes[k].children
             IN  /\ From(k) <= To(k)
                 /\ \A i \in DOMAIN kids :
                      /\ From(k) < From(kids[i]) /\ To(kids[i]) < To(k)
                      /\ i > 1 => To(kids[i - 1]) < From(kids[i])
                 /\ d.nodes[k].type = "object" => \A i \in DOMAIN kids : d.nodes[kids[i]].type = "field"
                 /\ d.nodes[k].type = "array" => \A i \in DOMAIN kids : d.nodes[kids[i]].type = "element"
                 /\ d.nodes[k].type = "field" => Len(kids) = 2
                 /\ d.nodes[k].type = "element" => Len(kids) = 1
        /\ {i \in DOMAIN d.tokens : d.tokens[i] = Anchor} = UNION {{From(k), To(k)} : k \in Wrapped}
        /\ \A j, k \in Wrapped : j # k => {From(j), To(j)} \cap {From(k), To(k)} = {}
=============================================================================
