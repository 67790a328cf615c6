----------------------------- MODULE StreamSpec -----------------------------
(***************************************************************************)
(* What a Decoder promises of a stream, without a lexer that works         *)
(* character by character, a buffer or a token that is peeked at: each     *)
(* call answers about the next part of the text that the reader gave, cut  *)
(* into the longest words, and uses it up.                                 *)
(*                                                                         *)
(* An error of the reader is an item of what it gave.  It ends the word it *)
(* falls into, and is else the end of the stream, for good.                *)
(***************************************************************************)
EXTENDS Lexemes

VARIABLES given,    \* the characters and errors that the reader gave so far
          ended,    \* whether it reported the end
          used,     \* the items that the calls have used up, or Over
          call,     \* the call being answered, or "none"
          answer    \* the last answer

vars == <<given, ended, used, call, answer>>

Failure == "an error"
Unknown == "not read yet"
Over == -1

Chars(items) == FlattenSeq([i \in DOMAIN items |-> IF items[i] = Failure THEN <<>> ELSE <<items[i]>>])

Item(i) == IF i <= Len(given) THEN given[i] ELSE IF ended THEN Failure ELSE Unknown

-----------------------------------------------------------------------------
(***************************************************************************)
(* Words.  A word goes from one item to another; its last character may be *)
(* known only with the item behind it.                                     *)
(***************************************************************************)
FirstFrom(i, Stops(_)) ==
  CHOOSE k \in i .. Len(given) + 1 :
    /\ Item(k) \in {Failure, Unknown} \/ Stops(k)
    /\ \A j \in i .. k - 1 : Item(j) \notin {Failure, Unknown} /\ ~Stops(j)

\* The word from item i up to item k, or with it; it ends at an error in any case.
Word(type, i, k) ==
  LET upto == IF k <= Len(given) THEN k ELSE Len(given)
  IN  [type |-> type, text |-> Chars(SubSeq(given, i, upto)), known |-> Item(k) # Unknown, upto |-> upto]

WordBefore(type, i, k) ==
  IF Item(k) \in {Failure, Unknown} THEN Word(type, i, k) ELSE Word(type, i, k - 1)

RunAt(type, i, class) == WordBefore(type, i, FirstFrom(i, LAMBDA k : Item(k) \notin class))

\* The quote that ends a string has an even number of backslashes in front of it.
IsEscaped(i, k) ==
  LET slashes == {n \in 0 .. k - i - 1 : \A j \in k - n .. k - 1 : Item(j) = "\\"}
  IN  Cardinality(slashes) % 2 = 0

StringAt(i) == Word("string", i, FirstFrom(i + 1, LAMBDA k : Item(k) = Item(i) /\ ~IsEscaped(i, k)))

\* What stands behind a slash decides; when that is an error, only a star does.
SlashAt(i) ==
  LET second == Item(i + 1)
      star == IF second = Failure THEN i + 2 ELSE i + 1
      close == FirstFrom(star + 1, LAMBDA k : Item(k) = "/" /\ Item(k - 1) = "*")
  IN  CASE second = Unknown \/ Item(star) = Unknown -> [Word("illegal", i, i) EXCEPT !.known = FALSE]
        [] second = "/" -> WordBefore("comment", i, FirstFrom(i, LAMBDA k : Item(k) \in {"\n", "\r"}))
        [] Item(star) = "*" -> Word(IF Item(close) = Failure THEN "illegal" ELSE "comment", i, close)
        [] OTHER -> Word("illegal", i, IF Item(star) = Failure THEN star ELSE star - 1)

WordAt(i) ==
  LET c == Item(i)
  IN  CASE c \in Single -> Word(SingleType(c), i, i)
        [] c \in Quote -> StringAt(i)
        [] c = "/" -> SlashAt(i)
        [] c \in HorizontalSpace -> RunAt("whitespace", i, HorizontalSpace)
        [] c \in Newline -> RunAt("newline", i, Newline)
        [] c \in NumberStart -> RunAt("number", i, DOMAIN CodeOf \ NumberDelimiter)
        [] c \in IdentifierStart -> RunAt("identifier", i, IdentifierPart)
        [] OTHER -> Word("illegal", i, i)

End == [type |-> "eof", text |-> <<>>, known |-> TRUE, upto |-> Over]

\* The words that are known, from item i on; the end is one of them.
WordsFrom(i) ==
  LET words[k \in 1 .. Len(given) + 1] ==
        LET word == WordAt(k)
        IN  CASE Item(k) = Failure -> <<End>>
              [] Item(k) = Unknown -> <<>>
              [] OTHER -> IF word.known THEN <<word>> \o words[word.upto + 1] ELSE <<>>
  IN  words[i]

-----------------------------------------------------------------------------
(***************************************************************************)
(* The answer to a call, when what the reader gave is enough for it: a set *)
(* of at most one.                                                         *)
(***************************************************************************)
Words == IF used = Over THEN <<End>> ELSE WordsFrom(used + 1)

AtEnd == Words # <<>> /\ Last(Words) = End
Given == IF AtEnd THEN Front(Words) ELSE Words

\* What the parser makes of the first n words.
Parsed ==
  LET parsed[n \in 0 .. Len(Given)] ==
        IF n = 0 THEN Start ELSE ParseStep(parsed[n - 1], Seen(Given[n]))
  IN  parsed

UpTo(n) == IF n = 0 THEN used ELSE Given[n].upto
TextOf(n) == FlattenSeq([i \in 1 .. n |-> Given[i].text])

\* The first number of words at which the parser is there.
IsFirst(n, place) == Parsed[n].at = place /\ \A m \in 0 .. n - 1 : Parsed[m].at # place

Answer(result, text, upto) == [result |-> result, text |-> text, used |-> upto]

\* A document is the shortest text that is one; nothing behind it is looked at.
Document(n) == Answer("document", TextOf(n), UpTo(n))

\* An error is at the first word with which the text is no document's beginning.
\* That word is not used up, unless it is a name that was used before.
SyntaxError(n) ==
  Answer("error", <<>>, IF IsRepeatedKey(Parsed[n - 1], Given[n]) THEN UpTo(n) ELSE UpTo(n - 1))

DecodeAnswers ==
  LET Ends == {n \in DOMAIN Parsed : IsFirst(n, "end")}
      Errs == {n \in DOMAIN Parsed : IsFirst(n, "error") /\ \A m \in Ends : n < m}
      Nothing == \A i \in DOMAIN Given : IsTrivia(Given[i])
      Short == IF AtEnd /\ Ends = {} /\ Errs = {}
               THEN {Answer(IF Nothing THEN "EOF" ELSE "unexpected EOF", <<>>, Over)} ELSE {}
  IN  {Document(n) : n \in IF Errs = {} THEN Ends ELSE {}} \union {SyntaxError(n) : n \in Errs} \union Short

\* The whole rest has to be one document.
DecodeMetaAnswers ==
  LET Errs == {n \in DOMAIN Parsed : IsFirst(n, "error")}
      Rest == IF AtEnd /\ Errs = {}
              THEN {IF Parsed[Len(Given)].at = "end" THEN Answer("document", TextOf(Len(Given)), Over)
                    ELSE Answer("unexpected EOF", <<>>, Over)} ELSE {}
  IN  {SyntaxError(n) : n \in Errs} \union Rest

\* What is trivia is used up, whether a document would have it or not.
MoreAnswers ==
  LET Firsts == {n \in DOMAIN Words : ~IsTrivia(Words[n]) /\ \A m \in 1 .. n - 1 : IsTrivia(Words[m])}
      IsClose(w) == w.type = "delim" /\ w.text[1] \in {"}", "]"}
  IN  {Answer(IF Words[n] = End \/ IsClose(Words[n]) THEN "no" ELSE "yes", <<>>,
              IF Words[n] = End THEN Over ELSE UpTo(n - 1)) : n \in Firsts}

Answers ==
  CASE call = "Decode" -> DecodeAnswers
    [] call = "DecodeMeta" -> DecodeMetaAnswers
    [] call = "More" -> MoreAnswers
    [] OTHER -> {}

-----------------------------------------------------------------------------
NoAnswer == Answer("none", <<>>, 0)

Init == given = <<>> /\ ended = FALSE /\ used = 0 /\ call = "none" /\ answer = NoAnswer

\* The reader gives more, at any time.
Hear ==
  /\ IsPrefix(given, given') /\ ended' \in BOOLEAN /\ (ended => ended' /\ given' = given)
  /\ UNCHANGED <<used, call, answer>>

Ask(c) == call = "none" /\ call' = c /\ UNCHANGED <<given, ended, used, answer>>

Reply ==
  /\ answer' \in Answers
  /\ used' = answer'.used
  /\ call' = "none"
  /\ UNCHANGED <<given, ended>>

Next == Hear \/ (\E c \in {"Decode", "DecodeMeta", "More"} : Ask(c)) \/ Reply

Spec == Init /\ [][Next]_vars
=============================================================================
