------------------------------- MODULE Number -------------------------------
(***************************************************************************)
(* Numbers in texts: strconv.Atoi, which reads array indexes and           *)
(* exponents, the literals that json/util.go and json/unmarshal.go accept, *)
(* and json/patch.go's comparison of two of them.                          *)
(*                                                                         *)
(* A text is a sequence of characters.                                     *)
(***************************************************************************)
EXTENDS Integers, Sequences, SequencesExt

CONSTANT MaxInt    \* the largest int
ASSUME IntAssumption == MaxInt \in Nat

Digits == <<"0", "1", "2", "3", "4", "5", "6", "7", "8", "9">>
DigitOf(c) == SelectInSeq(Digits, LAMBDA d : d = c) - 1
AllDigits(s) == ToSet(s) \subseteq ToSet(Digits)

Sign == {"+", "-"}
At(s, i, C) == i <= Len(s) /\ s[i] \in C

\* A decimal integer, with a sign or without.
IsInteger(t) ==
  LET s == IF At(t, 1, Sign) THEN Tail(t) ELSE t IN s # <<>> /\ AllDigits(s)

Numeral(s) ==
  LET n[i \in 0 .. Len(s)] == IF i = 0 THEN 0 ELSE n[i - 1] * 10 + DigitOf(s[i])
  IN  n[Len(s)]

Integer(t) ==
  CASE At(t, 1, {"-"}) -> -Numeral(Tail(t))
    [] At(t, 1, {"+"}) -> Numeral(Tail(t))
    [] ~At(t, 1, Sign) -> Numeral(t)

Atoi(t) ==
  LET n == IF IsInteger(t) THEN Integer(t) ELSE 0
  IN  [ok |-> IsInteger(t) /\ n \in -MaxInt - 1 .. MaxInt, value |-> n]

-----------------------------------------------------------------------------
(***************************************************************************)
(* Which literals are numbers: the longest runs of what may stand next.    *)
(***************************************************************************)
HexDigits == ToSet(Digits) \union {"a", "b", "c", "d", "e", "f", "A", "B", "C", "D", "E", "F"}

Past(s, i, C) == IF At(s, i, C) THEN i + 1 ELSE i

\* Where the digits from i on end.
Run(s, i) ==
  LET k == SelectInSubSeq(s, i, Len(s), LAMBDA c : c \notin ToSet(Digits))
  IN  IF k = 0 THEN Len(s) + 1 ELSE k

\* Nothing, or an exponent, and then the end.
Finished(s, i) ==
  LET d == Past(s, i + 1, Sign)
  IN  IF At(s, i, {"e", "E"}) THEN Run(s, d) > d /\ Run(s, d) = Len(s) + 1 ELSE i = Len(s) + 1

\* A fault: a point needs no digit behind it.
validNumberPointed(s) ==
  LET i == Past(s, 1, {"-"})
      j == IF At(s, i, {"0"}) THEN i + 1 ELSE Run(s, i)
  IN  j > i /\ Finished(s, IF At(s, j, {"."}) THEN Run(s, j + 1) ELSE j)

validNumber(s) ==
  LET i == Past(s, 1, {"-"})
      j == IF At(s, i, {"0"}) THEN i + 1 ELSE Run(s, i)
      k == IF At(s, j, {"."}) THEN Run(s, j + 1) ELSE j
  IN  j > i /\ k # j + 1 /\ Finished(s, k)

validLeadingOrTrailingDecimalPointNumber(s) ==
  LET i == Past(s, 1, Sign)
      j == Run(s, i)
      k == Run(s, j + 1)
  IN  /\ At(s, j, {"."})
      /\ (j = i) # (k = j + 1)
      /\ j > i + 1 => s[i] # "0"
      /\ Finished(s, k)

validHexadecimal(s) ==
  LET i == Past(s, 1, Sign)
  IN  At(s, i, {"0"}) /\ At(s, i + 1, {"x", "X"})
        /\ i + 2 <= Len(s) /\ \A k \in i + 2 .. Len(s) : s[k] \in HexDigits

validNumberWithOptions(s, options) ==
  \/ validNumber(s)
  \/ /\ At(s, 1, {"+"}) => "LeadingPlusSigns" \in options
     /\ \/ "HexadecimalNumbers" \in options /\ validHexadecimal(s)
        \/ At(s, 1, {"+"}) /\ validNumber(Tail(s))
        \/ "LeadingOrTrailingDecimalPoints" \in options /\ validLeadingOrTrailingDecimalPointNumber(s)

-----------------------------------------------------------------------------
\* What comes before the first c and what comes after it.
Cut(s, c) ==
  LET k == SelectInSeq(s, LAMBDA x : x = c)
  IN  IF k = 0 THEN [found |-> FALSE, before |-> s, after |-> <<>>]
      ELSE [found |-> TRUE, before |-> SubSeq(s, 1, k - 1), after |-> SubSeq(s, k + 1, Len(s))]

NotRational == [ok |-> FALSE, mantissa |-> 0, exponent |-> 0]

\* A fault: the digits behind the point are not counted.
RationalUnscaled(sign, whole, fraction, exponent) ==
  IF IsInteger(whole \o fraction)
  THEN [ok |-> TRUE, mantissa |-> sign * Integer(whole \o fraction), exponent |-> exponent]
  ELSE NotRational

\* mantissa * 10^exponent
Rational(sign, whole, fraction, exponent) ==
  IF IsInteger(whole \o fraction)
  THEN [ok |-> TRUE, mantissa |-> sign * Integer(whole \o fraction), exponent |-> exponent - Len(fraction)]
  ELSE NotRational

jsonNumberRat(s) ==
  LET signed == At(s, 1, Sign)
      unsigned == IF signed THEN Tail(s) ELSE s
      e == IF Cut(unsigned, "e").found THEN Cut(unsigned, "e") ELSE Cut(unsigned, "E")
      exponent == IF e.found THEN Atoi(e.after) ELSE [ok |-> TRUE, value |-> 0]
      point == Cut(e.before, ".")
  IN  IF ~exponent.ok THEN NotRational
      ELSE Rational(IF signed /\ s[1] = "-" THEN -1 ELSE 1, point.before, point.after, exponent.value)

\* The same number with the smallest mantissa: zero has the exponent zero.
Reduced(r) ==
  LET tens[i \in 0 .. 9] ==   \* TLC's integers have at most ten digits
        IF i = 0 THEN r
        ELSE LET q == tens[i - 1]
             IN  IF q.mantissa # 0 /\ q.mantissa % 10 = 0
                 THEN [q EXCEPT !.mantissa = @ \div 10, !.exponent = @ + 1] ELSE q
  IN  IF r.mantissa = 0 THEN [r EXCEPT !.exponent = 0] ELSE tens[9]

jsonNumbersEqual(a, b) ==
  LET ra == jsonNumberRat(a)
      rb == jsonNumberRat(b)
  IN  IF ra.ok /\ rb.ok THEN Reduced(ra) = Reduced(rb) ELSE a = b
=============================================================================
