---------------------------- MODULE GrammarProofs ----------------------------
(***************************************************************************)
(* The parser loses nothing of a text that it accepts, and the tree that   *)
(* it builds is what the edits assume: for every text over any lexemes,    *)
(* under any options.                                                      *)
(***************************************************************************)
EXTENDS Grammar, SyntaxProofs

-----------------------------------------------------------------------------
(***************************************************************************)
(* The text is made of lexemes.                                            *)
(***************************************************************************)
LEMMA AlwaysText == Spec => [](text \in Txt)
<1>1. Init => text \in Txt
  BY DEF Init, Txt
<1>2. text \in Txt /\ [Next]_text => (text \in Txt)'
  <2> SUFFICES ASSUME text \in Txt, [Next]_text PROVE text' \in Txt
    OBVIOUS
  <2>1. CASE Next
    <3>1. PICK x \in Lexeme : text' = Append(text, x)
      BY <2>1 DEF Next, Type
    <3> QED BY <3>1, LexemeAssumption DEF Txt
  <2>2. CASE UNCHANGED text
    BY <2>2
  <2> QED BY <2>1, <2>2
<1> QED BY <1>1, <1>2, PTL DEF Spec

\* An accepted text can be written back: the kept tokens are its text
\* (Meta.String and Meta.Bytes of what DecodeMeta returned).
THEOREM TextIsKept == Spec => []KeepsText
<1>1. text \in Txt => KeepsText
  BY DecodeOK DEF KeepsText
<1> QED BY <1>1, AlwaysText, PTL

\* The tree of an accepted text nests, and the anchors are the ends of its
\* fields and elements: what every edit of a document relies on.
THEOREM TreesFit == Spec => []TreeFits
<1>1. ASSUME text \in Txt PROVE TreeFits
  <2> DEFINE d == Decode(text)
             Wrapped == {k \in DOMAIN d.nodes : d.nodes[k].type \in {"field", "element"}}
  <2>1. d \in Parser /\ (d.at = "end" => Tree(d) /\ d.open = <<>>)
    BY <1>1, DecodeOK DEF Good, Placed
  <2>2. SUFFICES ASSUME d.at = "end" PROVE TreeFits
    BY DEF TreeFits
  <2> HIDE DEF d
  <2>3. Tree(d) /\ (\A k : ~IsOpen(d, k)) /\ (\A k : ~IsTop(d, k))
    BY <2>1, <2>2 DEF IsOpen, IsTop
  <2>4. /\ \A k \in DOMAIN d.nodes :
             /\ Begins(d, k) \in Nat /\ Ends(d, k) \in Nat
             /\ DOMAIN Kids(d, k) = 1 .. Len(Kids(d, k)) /\ Len(Kids(d, k)) \in Nat
        /\ DOMAIN d.tokens = 1 .. Len(d.tokens) /\ Len(d.tokens) \in Nat
    <3>1. d.tokens \in Seq(Tok)
      BY <2>1 DEF Parser, Toks
    <3>2. DOMAIN d.tokens = 1 .. Len(d.tokens) /\ Len(d.tokens) \in Nat
      <4> HIDE DEF Tok
      <4> QED BY <3>1
    <3> QED BY <2>1, <3>2, NodesType
  <2>5. \A k \in DOMAIN d.nodes :
          /\ Begins(d, k) \in 1 .. Len(d.tokens) /\ Ends(d, k) \in Begins(d, k) .. Len(d.tokens)
          /\ Ends(d, k) \in 1 .. Len(d.tokens)
    BY <2>3, <2>4 DEF Tree, Spans
  <2>6. ASSUME NEW k \in DOMAIN d.nodes
        PROVE  /\ Begins(d, k) <= Ends(d, k)
               /\ \A i \in DOMAIN Kids(d, k) :
                    /\ Begins(d, k) < Begins(d, Kids(d, k)[i]) /\ Ends(d, Kids(d, k)[i]) < Ends(d, k)
                    /\ i > 1 => Ends(d, Kids(d, k)[i - 1]) < Begins(d, Kids(d, k)[i])
               /\ Kind(d, k) = "object" => \A i \in DOMAIN Kids(d, k) : Kind(d, Kids(d, k)[i]) = "field"
               /\ Kind(d, k) = "array" => \A i \in DOMAIN Kids(d, k) : Kind(d, Kids(d, k)[i]) = "element"
               /\ Kind(d, k) = "field" => Len(Kids(d, k)) = 2
               /\ Kind(d, k) = "element" => Len(Kids(d, k)) = 1
    <3>1. Begins(d, k) <= Ends(d, k)
      BY <2>4, <2>5
    <3>2. ASSUME NEW i \in DOMAIN Kids(d, k)
          PROVE  /\ Begins(d, k) < Begins(d, Kids(d, k)[i]) /\ Ends(d, Kids(d, k)[i]) < Ends(d, k)
                 /\ i > 1 => Ends(d, Kids(d, k)[i - 1]) < Begins(d, Kids(d, k)[i])
                 /\ Kind(d, k) = "object" => Kind(d, Kids(d, k)[i]) = "field"
                 /\ Kind(d, k) = "array" => Kind(d, Kids(d, k)[i]) = "element"
      BY <2>3 DEF Tree, Ordered
    <3>3. Full(d, k)
      BY <2>3 DEF Tree, Filled
    <3> QED BY <3>1, <3>2, <3>3 DEF Full
  <2>7. \A i \in DOMAIN d.tokens :
          d.tokens[i] = Anchor <=> \E k \in Wrapped : i \in {Begins(d, k), Ends(d, k)}
    <3>1. \A k : Marks(d, k) = IF Kind(d, k) \in WrapperType THEN {Begins(d, k), Ends(d, k)} ELSE {}
      BY <2>3 DEF Marks
    <3> QED BY <2>3, <3>1 DEF Tree, Anchored, Kind, WrapperType
  <2>8. {i \in DOMAIN d.tokens : d.tokens[i] = Anchor} = UNION {{Begins(d, k), Ends(d, k)} : k \in Wrapped}
    <3>1. \A k \in Wrapped : Begins(d, k) \in DOMAIN d.tokens /\ Ends(d, k) \in DOMAIN d.tokens
      BY <2>4, <2>5
    <3> HIDE DEF Wrapped
    <3> QED BY <2>7, <3>1
  <2>9. \A j, k \in Wrapped : j # k => {Begins(d, j), Ends(d, j)} \cap {Begins(d, k), Ends(d, k)} = {}
    <3>1. ASSUME NEW j \in DOMAIN d.nodes, NEW k \in DOMAIN d.nodes, j # k
          PROVE  /\ Begins(d, j) # Begins(d, k) /\ Ends(d, j) # Begins(d, k)
                 /\ Ends(d, k) # Begins(d, j) /\ Ends(d, j) # Ends(d, k)
      BY <2>3, <3>1 DEF Tree, Spans
    <3> QED BY <3>1
  <2> QED BY <2>6, <2>8, <2>9 DEF TreeFits, d, Begins, Ends, Kind, Kids
<1> QED BY <1>1, AlwaysText, PTL
=============================================================================
