------------------------------ MODULE Strings ------------------------------
(***************************************************************************)
(* Strings and their literals: json/unmarshal.go, which reads a literal,   *)
(* json/encoder.go, which writes one, and HTMLEscape of json/format.go.    *)
(*                                                                         *)
(* A text is a sequence of characters.  What a literal stands for is a     *)
(* sequence of code points: the same character may be written in several   *)
(* ways.                                                                   *)
(***************************************************************************)
EXTENDS Number, TLC

Printable ==   \* the ASCII characters from the space on
  <<" ", "!", "\"", "#", "$", "%", "&", "'", "(", ")", "*", "+", ",", "-", ".", "/",
    "0", "1", "2", "3", "4", "5", "6", "7", "8", "9", ":", ";", "<", "=", ">", "?",
    "@", "A", "B", "C", "D", "E", "F", "G", "H", "I", "J", "K", "L", "M", "N", "O",
    "P", "Q", "R", "S", "T", "U", "V", "W", "X", "Y", "Z", "[", "\\", "]", "^", "_",
    "backtick", "a", "b", "c", "d", "e", "f", "g", "h", "i", "j", "k", "l", "m", "n", "o",
    "p", "q", "r", "s", "t", "u", "v", "w", "x", "y", "z", "{", "|", "}", "~">>

BadByte == "an invalid byte"
Replacement == 65533

CodeOf ==
  [c \in ToSet(Printable) |-> SelectInSeq(Printable, LAMBDA d : d = c) + 31]
    @@ [NUL |-> 0, BS |-> 8, VT |-> 11, NBSP |-> 160, LS |-> 8232, PS |-> 8233]
    @@ ("\t" :> 9) @@ ("\n" :> 10) @@ ("\f" :> 12) @@ ("\r" :> 13) @@ (BadByte :> Replacement)

CodesOf(s) == [i \in DOMAIN s |-> CodeOf[s[i]]]

HexOf(c) ==
  LET lower == SelectInSeq(<<"a", "b", "c", "d", "e", "f">>, LAMBDA d : d = c)
      upper == SelectInSeq(<<"A", "B", "C", "D", "E", "F">>, LAMBDA d : d = c)
  IN  IF lower + upper > 0 THEN 9 + lower + upper ELSE DigitOf(c)

\* The n hexadecimal digits at place i: unquoteJSONUnicodeEscape, unquoteJSONHexEscape.
AreHex(s, i, n) == i + n - 1 <= Len(s) /\ \A k \in i .. i + n - 1 : s[k] \in HexDigits

Hex(s, i, n) == FoldLeft(LAMBDA h, c : h * 16 + HexOf(c), 0, SubSeq(s, i, i + n - 1))

IsHigh(r) == r \in 55296 .. 56319
IsLow(r) == r \in 56320 .. 57343
Paired(high, low) == 65536 + (high - 55296) * 1024 + low - 56320

-----------------------------------------------------------------------------
(***************************************************************************)
(* Reading.  One turn of the loop reads at place i: it goes on at the      *)
(* place "next" with the code points "reads", or fails.                    *)
(***************************************************************************)
Fail == [ok |-> FALSE, next |-> 0, reads |-> <<>>]
Reads(codes, next) == [ok |-> TRUE, next |-> next, reads |-> codes]

\* Where a line that goes on behind a backslash goes on: here, if none does.
json5LineContinuation(s, i) ==
  CASE s[i] \in {"\n", "LS", "PS"} -> i + 1
    [] s[i] = "\r" -> IF i + 1 < Len(s) /\ s[i + 1] = "\n" THEN i + 2 ELSE i + 1
    [] OTHER -> i

SimpleEscapes ==
  [b |-> 8, f |-> 12, n |-> 10, r |-> 13, t |-> 9] @@ ("\"" :> 34) @@ ("\\" :> 92) @@ ("/" :> 47)

MoreEscapes == [v |-> 11] @@ ("'" :> 39) @@ ("0" :> 0)

\* A fault: what follows a high surrogate is taken for its mate without a look.
SurrogatesUnchecked(high, low, i) == Reads(<<Paired(high, low)>>, i + 6)

\* Two escapes, of which the second begins at i, and is read again if it is no mate.
Surrogates(high, low, i) ==
  IF IsLow(low) THEN Reads(<<Paired(high, low)>>, i + 6) ELSE Reads(<<Replacement>>, i)

\* What is written as r, in front of place i.
CodeUnit(s, r, i) ==
  LET another == i + 5 < Len(s) /\ s[i] = "\\" /\ s[i + 1] = "u"
  IN  CASE IsHigh(r) /\ another ->
             IF AreHex(s, i + 2, 4) THEN Surrogates(r, Hex(s, i + 2, 4), i) ELSE Fail
        [] (IsHigh(r) /\ ~another) \/ IsLow(r) -> Reads(<<Replacement>>, i)
        [] OTHER -> Reads(<<r>>, i)

UnicodeEscape(s, i) ==
  IF AreHex(s, i + 1, 4) THEN CodeUnit(s, Hex(s, i + 1, 4), i + 5) ELSE Fail

Escape(s, i, options) ==
  CASE i >= Len(s) -> Fail
    [] i < Len(s) /\ "MultilineStrings" \in options /\ json5LineContinuation(s, i) > i ->
         Reads(<<>>, json5LineContinuation(s, i))
    [] s[i] \in DOMAIN SimpleEscapes -> Reads(<<SimpleEscapes[s[i]]>>, i + 1)
    [] s[i] = "u" -> UnicodeEscape(s, i)
    [] "StringCharacterEscapes" \in options /\ s[i] \in DOMAIN MoreEscapes ->
         Reads(<<MoreEscapes[s[i]]>>, i + 1)
    [] "StringCharacterEscapes" \in options /\ s[i] = "x" ->
         IF i + 2 < Len(s) /\ AreHex(s, i + 1, 2) THEN Reads(<<Hex(s, i + 1, 2)>>, i + 3) ELSE Fail
    [] OTHER -> Fail

ReadOne(s, i, options) ==
  CASE s[i] = "\\" -> Escape(s, i + 1, options)
    [] s[i] # "\\" /\ CodeOf[s[i]] < 32 -> Fail
    [] s[i] # "\\" /\ CodeOf[s[i]] >= 32 -> Reads(<<CodeOf[s[i]]>>, i + 1)

IsQuotedBy(s, quote) == Len(s) >= 2 /\ s[1] = quote /\ Last(s) = quote

\* The loop goes from one place to the next up to the closing quote.
unquoteStringOptions(s, options) ==
  LET After(before, one) == [one EXCEPT !.reads = before.reads \o @]
      Turn(before, i) ==
        IF before.ok /\ before.next = i THEN After(before, ReadOne(s, i, options)) ELSE before
  IN  IF IsQuotedBy(s, "\"") \/ ("SingleQuotedStrings" \in options /\ IsQuotedBy(s, "'"))
      THEN FoldLeft(Turn, Reads(<<>>, 2), [k \in 1 .. Len(s) - 2 |-> k + 1])
      ELSE Fail

-----------------------------------------------------------------------------
(***************************************************************************)
(* Writing.                                                                *)
(***************************************************************************)
HexDigit(n) == <<"0", "1", "2", "3", "4", "5", "6", "7", "8", "9", "a", "b", "c", "d", "e", "f">>[n + 1]

Unicode(c) ==
  LET code == CodeOf[c]
  IN  <<"\\", "u", HexDigit(code \div 4096), HexDigit((code \div 256) % 16),
        HexDigit((code \div 16) % 16), HexDigit(code % 16)>>

HTML == {"<", ">", "&"}

Named == [BS |-> "b"] @@ ("\f" :> "f") @@ ("\n" :> "n") @@ ("\r" :> "r") @@ ("\t" :> "t")
           @@ ("\"" :> "\"") @@ ("\\" :> "\\")

\* A fault: a line separator is written as it is.
WrittenAsLine(c, escapeHTML) ==
  CASE c \in DOMAIN Named -> <<"\\", Named[c]>>
    [] CodeOf[c] < 32 /\ c \notin DOMAIN Named -> Unicode(c)
    [] c = BadByte \/ (escapeHTML /\ c \in HTML) -> Unicode(c)
    [] OTHER -> <<c>>

WrittenAs(c, escapeHTML) ==
  CASE c \in DOMAIN Named -> <<"\\", Named[c]>>
    [] c \in {"LS", "PS", BadByte} \/ (escapeHTML /\ c \in HTML) -> Unicode(c)
    [] CodeOf[c] < 32 /\ c \notin DOMAIN Named -> Unicode(c)
    [] OTHER -> <<c>>

appendString(s, escapeHTML) ==
  <<"\"">> \o FlattenSeq([i \in DOMAIN s |-> WrittenAs(s[i], escapeHTML)]) \o <<"\"">>

\* The whole text of a document, in which strings are not told from the rest.
HTMLEscape(s) ==
  FlattenSeq([i \in DOMAIN s |-> IF s[i] \in HTML \union {"LS", "PS"} THEN Unicode(s[i]) ELSE <<s[i]>>])
=============================================================================
