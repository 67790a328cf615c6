------------------------------- MODULE Texts -------------------------------
(***************************************************************************)
(* Texts, typed character by character, and what Pointer, Number and       *)
(* Strings read in them, against the grammars they are written in: either  *)
(* two texts for pointers and numbers, or one for a string.                *)
(***************************************************************************)
EXTENDS Pointer, Strings

CONSTANTS Character,        \* what is typed
          MaxPath, MaxFrom, \* bounds: the lengths of the texts
          MaxBoth,          \* bound: their length together
          Piece,            \* what is typed of a string: texts of a few characters
          MaxPieces         \* bound: the pieces of a string

VARIABLES path, from, pieces

vars == <<path, from, pieces>>

Init == path = <<>> /\ from = <<>> /\ pieces = <<>>

Room == Len(path) + Len(from) < MaxBoth /\ pieces = <<>>

TypePath(c) == Room /\ Len(path) < MaxPath /\ path' = Append(path, c) /\ UNCHANGED <<from, pieces>>
TypeFrom(c) == Room /\ Len(from) < MaxFrom /\ from' = Append(from, c) /\ UNCHANGED <<path, pieces>>

TypePiece(p) ==
  /\ path = <<>> /\ from = <<>>
  /\ Len(pieces) < MaxPieces
  /\ pieces' = Append(pieces, p)
  /\ UNCHANGED <<path, from>>

Next ==
  \/ \E c \in Character : TypePath(c) \/ TypeFrom(c)
  \/ \E p \in Piece : TypePiece(p)

Spec == Init /\ [][Next]_vars

-----------------------------------------------------------------------------
(***************************************************************************)
(* RFC 6901 writes a token with ~0 for a tilde and ~1 for a slash, and a   *)
(* slash in front of each token.                                           *)
(***************************************************************************)
Escaped(token) ==
  FlattenSeq([i \in DOMAIN token |->
    CASE token[i] = "~" -> <<"~", "0">> [] token[i] = "/" -> <<"~", "1">> [] OTHER -> <<token[i]>>])

Written(tokens) == FlattenSeq([k \in DOMAIN tokens |-> <<"/">> \o Escaped(tokens[k])])

(***************************************************************************)
(* parseJSONPointer is the inverse of writing: it reads every list of      *)
(* tokens back, and what it accepts is the way to write what it returns.   *)
(* So one place has one spelling, but for array indexes, and the patches   *)
(* may compare pointers as texts.                                          *)
(***************************************************************************)
PointersRoundTrip ==
  /\ parseJSONPointer(Written(<<path, from>>)) = [result |-> "ok", tokens |-> <<path, from>>]
  /\ LET p == parseJSONPointer(path) IN p.result = "ok" => Written(p.tokens) = path

(***************************************************************************)
(* patchMove refuses to move a value into itself by a look at the texts    *)
(* of the two pointers: that is a look at their tokens, no matter how they *)
(* are escaped and where one name is the beginning of another.             *)
(***************************************************************************)
BelowIsAncestor ==
  LET p == parseJSONPointer(path)
      f == parseJSONPointer(from)
  IN  p.result = "ok" /\ f.result = "ok" => Below(path, from) = IsStrictPrefix(f.tokens, p.tokens)

-----------------------------------------------------------------------------
(***************************************************************************)
(* Number literals by their grammar: a sign, digits, a point and digits,   *)
(* an exponent.  The options allow more signs, less digits, and hex.       *)
(***************************************************************************)
Options == {"LeadingPlusSigns", "LeadingOrTrailingDecimalPoints", "HexadecimalNumbers"}

IsSign(s, options) ==
  s \in {<<>>, <<"-">>} \union IF "LeadingPlusSigns" \in options THEN {<<"+">>} ELSE {}

IsWhole(s) == s # <<>> /\ AllDigits(s) /\ (s[1] = "0" => Len(s) = 1)

IsFraction(s) == s # <<>> /\ s[1] = "." /\ AllDigits(Tail(s))

IsExponent(s) ==
  s # <<>> /\ s[1] = "e" /\ \E i \in 1 .. 2 :
    i < Len(s) /\ SubSeq(s, 2, i) \in {<<>>, <<"+">>, <<"-">>} /\ AllDigits(SubSeq(s, i + 1, Len(s)))

IsDecimal(s, options) ==
  \E i \in 0 .. 1, j, k \in 0 .. Len(s) :
    LET whole == SubSeq(s, i + 1, j)
        fraction == SubSeq(s, j + 1, k)
        exponent == SubSeq(s, k + 1, Len(s))
    IN  /\ i <= j /\ j <= k
        /\ IsSign(SubSeq(s, 1, i), options)
        /\ exponent = <<>> \/ IsExponent(exponent)
        /\ \/ IsWhole(whole) /\ (fraction # <<>> => IsFraction(fraction) /\ Len(fraction) > 1)
           \/ /\ "LeadingOrTrailingDecimalPoints" \in options
              /\ IF whole = <<>> THEN Len(fraction) > 1 ELSE IsWhole(whole)
              /\ IsFraction(fraction)

IsHexadecimal(s, options) ==
  "HexadecimalNumbers" \in options /\ \E i \in 0 .. 1 :
    Len(s) > i + 2 /\ IsSign(SubSeq(s, 1, i), options)
      /\ SubSeq(s, i + 1, i + 2) = <<"0", "x">> /\ ToSet(SubSeq(s, i + 3, Len(s))) \subseteq HexDigits

\* A number of JSON5 has one sign, but the decoder takes +-1.
TwoSigns(s) == At(s, 1, Sign) /\ At(s, 2, Sign)

(***************************************************************************)
(* The decoder takes exactly the number literals of JSON with the          *)
(* extensions that are switched on, each by itself and in any combination, *)
(* but that it takes a plus in front of any number of JSON, be it -1.      *)
(* One text is enough for this.                                            *)
(***************************************************************************)
IsPlusAndNumber(s, options) ==
  "LeadingPlusSigns" \in options /\ At(s, 1, {"+"}) /\ IsDecimal(Tail(s), {})

NumbersValid ==
  from = <<>> => \A options \in SUBSET Options :
    validNumberWithOptions(path, options) =
      (IsDecimal(path, options) \/ IsHexadecimal(path, options) \/ IsPlusAndNumber(path, options))

(***************************************************************************)
(* The value of a decimal literal: its digits that are not zero, each with *)
(* the power of ten that its place stands for, and the sign.               *)
(***************************************************************************)
MantissaOf(s) ==
  LET e == SelectInSeq(s, LAMBDA c : c = "e") IN IF e = 0 THEN s ELSE SubSeq(s, 1, e - 1)

ExponentOf(s) ==
  LET e == SelectInSeq(s, LAMBDA c : c = "e")
      d == SelectSeq(SubSeq(s, e + 1, Len(s)), LAMBDA c : c \notin Sign)
  IN  IF e = 0 THEN 0 ELSE IF s[e + 1] = "-" THEN -Numeral(d) ELSE Numeral(d)

Weight(m, i) ==
  LET dot == IF Contains(m, ".") THEN SelectInSeq(m, LAMBDA c : c = ".") ELSE Len(m) + 1
  IN  IF i < dot THEN dot - i - 1 ELSE dot - i

Denotation(s) ==
  LET m == MantissaOf(s)
      digits == {<<Weight(m, i) + ExponentOf(s), m[i]>> :
                   i \in {k \in DOMAIN m : m[k] \in ToSet(Digits) \ {"0"}}}
  IN  [digits |-> digits, negative |-> digits # {} /\ s[1] = "-"]

\* A decimal literal whose exponent fits an int.
IsRational(s) == IsDecimal(s, Options) /\ ExponentOf(s) \in -MaxInt - 1 .. MaxInt

(***************************************************************************)
(* The test operation finds two decimal literals equal exactly when they   *)
(* denote the same number, however they are written, as long as their      *)
(* exponents fit an int; other literals, hexadecimal ones among them, only *)
(* when they are the same text.                                            *)
(***************************************************************************)
NumbersCompareByValue ==
  (\A s \in {path, from} : validNumberWithOptions(s, Options) /\ ~TwoSigns(s)) =>
    jsonNumbersEqual(path, from) =
      IF IsRational(path) /\ IsRational(from) THEN Denotation(path) = Denotation(from)
                                             ELSE path = from

-----------------------------------------------------------------------------
(***************************************************************************)
(* What a piece of a string literal stands for, as a set: empty when it    *)
(* stands for nothing.  A surrogate without its mate is replaced.          *)
(***************************************************************************)
StringOptions == {"SingleQuotedStrings", "StringCharacterEscapes", "MultilineStrings"}

String == FlattenSeq(pieces)

Escapes(options) ==
  [c \in {"b", "f", "n", "r", "t", "\"", "\\", "/"}
           \union IF "StringCharacterEscapes" \in options THEN {"v", "'", "0"} ELSE {} |->
     CASE c = "b" -> 8 [] c = "f" -> 12 [] c = "n" -> 10 [] c = "r" -> 13 [] c = "t" -> 9
       [] c = "v" -> 11 [] c = "0" -> 0 [] OTHER -> CodeOf[c]]

Continuations(options) ==
  IF "MultilineStrings" \in options THEN {<<"\n">>, <<"\r">>, <<"\r", "\n">>, <<"LS">>, <<"PS">>} ELSE {}

IsUnicode(p) == Len(p) = 6 /\ SubSeq(p, 1, 2) = <<"\\", "u">> /\ ToSet(SubSeq(p, 3, 6)) \subseteq HexDigits
UnicodeOf(p) == Hex(p, 3, 4)

StandsFor(p, options) ==
  CASE p[1] # "\\" -> {<<CodeOf[c]>> : c \in {c \in ToSet(p) : Len(p) = 1 /\ CodeOf[c] >= 32}}
    [] p[1] = "\\" /\ Tail(p) \in Continuations(options) -> {<<>>}
    [] Len(p) = 2 /\ p[2] \in DOMAIN Escapes(options) -> {<<Escapes(options)[p[2]]>>}
    [] IsUnicode(p) -> {<<IF UnicodeOf(p) \in 55296 .. 57343 THEN Replacement ELSE UnicodeOf(p)>>}
    [] Len(p) = 4 /\ SubSeq(p, 1, 2) = <<"\\", "x">> /\ "StringCharacterEscapes" \in options ->
         IF ToSet(SubSeq(p, 3, 4)) \subseteq HexDigits THEN {<<Hex(p, 3, 2)>>} ELSE {}
    [] Len(p) = 12 /\ IsUnicode(SubSeq(p, 1, 6)) /\ IsUnicode(SubSeq(p, 7, 12)) ->
         LET high == UnicodeOf(SubSeq(p, 1, 6))
             low == UnicodeOf(SubSeq(p, 7, 12))
         IN  IF IsHigh(high) /\ IsLow(low) THEN {<<Paired(high, low)>>} ELSE {}
    [] OTHER -> {}

\* A string is cut into pieces that stand for something, the longest first.
Values(s, options) ==
  LET rest[i \in 1 .. Len(s) + 1] ==
        LET long == {n \in 1 .. 12 : i + n <= Len(s) + 1 /\ StandsFor(SubSeq(s, i, i + n - 1), options) # {}}
            n == CHOOSE n \in long : \A m \in long : m <= n
        IN  IF i = Len(s) + 1 THEN {<<>>}
            ELSE IF long = {} THEN {}
            ELSE {a \o b : a \in StandsFor(SubSeq(s, i, i + n - 1), options), b \in rest[i + n]}
  IN  rest[1]

Literal(quote) == <<quote>> \o String \o <<quote>>

\* There is one string for all the states in which paths are typed.
StringTyped == path = <<>> /\ from = <<>>

(***************************************************************************)
(* The decoder takes exactly the string literals of JSON with the          *)
(* extensions that are switched on, each by itself and in any combination, *)
(* and reads in them what they stand for: a pair of surrogates, a lone one *)
(* in front of another escape, an escape or a continued line cut off by    *)
(* the end.  That the quotes inside are escaped is up to the lexer.        *)
(***************************************************************************)
StringsUnquoted ==
  StringTyped => \A options \in SUBSET StringOptions, quote \in {"\"", "'"} :
    LET r == unquoteStringOptions(Literal(quote), options)
        values == IF quote = "\"" \/ "SingleQuotedStrings" \in options THEN Values(String, options) ELSE {}
    IN  IF r.ok THEN values = {r.reads} ELSE values = {}

(***************************************************************************)
(* What the encoder writes for a string is a strict literal that reads     *)
(* back as the string, with or without escapes for HTML, and so does a     *)
(* strict literal through HTMLEscape; with these escapes nothing in it     *)
(* means anything to HTML or ends a line of JavaScript.  Not so in JSON5,  *)
(* where HTMLEscape breaks a continued line.                               *)
(***************************************************************************)
QuotedReadBack ==
  StringTyped =>
  LET Reading(s) == {r.reads : r \in {r \in {unquoteStringOptions(s, {})} : r.ok}}
      Harmless(s) == ToSet(s) \cap {"<", ">", "&", "LS", "PS"} = {}
  IN  /\ \A html \in BOOLEAN : Reading(appendString(String, html)) = {CodesOf(String)}
      /\ Harmless(appendString(String, TRUE))
      /\ Harmless(HTMLEscape(String))
      /\ Reading(Literal("\"")) \subseteq Reading(HTMLEscape(Literal("\"")))
=============================================================================
