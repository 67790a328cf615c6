------------------------------- MODULE Stream -------------------------------
(***************************************************************************)
(* The calls of a Decoder on a stream (json/decoder.go): Decode, which     *)
(* reads one value after another, DecodeMeta, More, Buffered, InputOffset. *)
(*                                                                         *)
(* A call asks the lexer for one token after another and parses them with  *)
(* module Syntax, which builds the tree.  What Decode stores in the value  *)
(* it is given does not change the stream.                                 *)
(***************************************************************************)
EXTENDS Lexer

VARIABLES call,      \* the method that has not returned, or "none"
          tokens,    \* the tokens that the call has taken (the decoder's list)
          parser,    \* what is parsed of them
          answer,    \* history: what the last call returned
          spent,     \* history: the characters of all tokens taken
          used       \* history: the items of "given" that finished calls have used up

vars == <<given, ended, buffer, cursor, scan, peek, call, tokens, parser, answer, spent, used>>

Over == -1
Call == {"Decode", "DecodeMeta", "More"}

Init ==
  /\ LexerInit
  /\ call = "none" /\ tokens = <<>> /\ parser = Start
  /\ answer = [result |-> "none", text |-> <<>>, used |-> 0]
  /\ spent = <<>> /\ used = 0

Begin(c) ==
  /\ call = "none"
  /\ call' = c
  /\ IF c = "More" THEN UNCHANGED <<tokens, parser>> ELSE tokens' = <<>> /\ parser' = Start
  /\ UNCHANGED <<given, ended, buffer, cursor, scan, peek, answer, spent, used>>

\* A fault: Decode looks behind its value, like DecodeMeta.
HasValueAndEnd == parser.at = "end" /\ peek.type = "eof"

\* Decode does not look behind its value; DecodeMeta wants the end there.
HasValue == parser.at = "end" /\ (call = "Decode" \/ peek.type = "eof")

Decoding == call \in {"Decode", "DecodeMeta"} /\ ~HasValue

Peeks ==
  /\ Decoding \/ call = "More"
  /\ peekToken
  /\ UNCHANGED <<given, ended, call, tokens, parser, answer, spent, used>>

Scans ==
  /\ LexerStep \/ ReaderAnswers
  /\ UNCHANGED <<call, tokens, parser, answer, spent, used>>

\* next, when a token was peeked at.
Take == peek' = NoToken /\ spent' = spent \o peek.text /\ UNCHANGED <<buffer, cursor, scan>>

Keep == UNCHANGED <<buffer, cursor, scan, peek, spent>>

HasToken == peek.type \notin {"none", "eof"}

\* What the calls have used up: the tokens that were taken.
Consumed ==
  CASE peek'.type = "none" -> Len(given) - Len(buffer)
    [] peek'.type = "eof" -> Over
    [] OTHER -> scan.item

Return(result, text) ==
  /\ call' = "none"
  /\ used' = Consumed
  /\ answer' = [result |-> result, text |-> text, used |-> Consumed]
  /\ UNCHANGED <<given, ended, parser>>

-----------------------------------------------------------------------------
(***************************************************************************)
(* Decode and DecodeMeta.                                                  *)
(***************************************************************************)
\* A token that the parser goes on with, trivia among them.
TakesToken ==
  LET p == ParseStep(parser, Seen(peek))
  IN  /\ Decoding /\ HasToken
      /\ p.at # "error"
      /\ parser' = p /\ tokens' = Append(tokens, peek)
      /\ Take
      /\ UNCHANGED <<given, ended, call, answer, used>>

\* An error: the token stays, but for a name that was read before it was compared.
RefusesToken ==
  /\ Decoding /\ HasToken
  /\ ParseStep(parser, Seen(peek)).at = "error"
  /\ IF IsRepeatedKey(parser, peek)
     THEN Take /\ tokens' = Append(tokens, peek)
     ELSE Keep /\ UNCHANGED tokens
  /\ Return("error", <<>>)

\* A fault: comments count as something read.
onlyConsumedSpace == \A i \in DOMAIN tokens : IsSpace(tokens[i])

onlyConsumedTrivia == \A i \in DOMAIN tokens : IsTrivia(tokens[i])

ReachesEnd ==
  /\ Decoding /\ peek.type = "eof"
  /\ Keep /\ UNCHANGED tokens
  /\ Return(IF call = "Decode" /\ onlyConsumedTrivia THEN "EOF" ELSE "unexpected EOF", <<>>)

Literals == FlattenSeq([i \in DOMAIN tokens |-> tokens[i].text])

ReturnsDocument ==
  /\ call \in {"Decode", "DecodeMeta"} /\ HasValue
  /\ Keep /\ UNCHANGED tokens
  /\ Return("document", Literals)

-----------------------------------------------------------------------------
(***************************************************************************)
(* More, which takes trivia that no document will have.                    *)
(***************************************************************************)
\* A fault: the trivia is looked at again and again.
MoreSkipsNothing ==
  /\ call = "More" /\ HasToken /\ IsTrivia(peek)
  /\ UNCHANGED vars

MoreSkips ==
  /\ call = "More" /\ HasToken /\ IsTrivia(peek)
  /\ Take
  /\ UNCHANGED <<given, ended, call, tokens, parser, answer, used>>

isCloseDelim(t) == t.type = "delim" /\ t.text[1] \in {"}", "]"}

\* A fault: More does not wait for the token.
MoreReturnsEarly ==
  /\ call = "More"
  /\ peek.type = "eof" \/ ~IsTrivia(peek)
  /\ Keep /\ UNCHANGED tokens
  /\ Return(IF peek.type = "eof" \/ isCloseDelim(peek) THEN "no" ELSE "yes", <<>>)

MoreReturns ==
  /\ call = "More" /\ peek # NoToken
  /\ peek.type = "eof" \/ ~IsTrivia(peek)
  /\ Keep /\ UNCHANGED tokens
  /\ Return(IF peek.type = "eof" \/ isCloseDelim(peek) THEN "no" ELSE "yes", <<>>)

-----------------------------------------------------------------------------
DecoderStep ==
  \/ Peeks \/ TakesToken \/ RefusesToken \/ ReachesEnd \/ ReturnsDocument \/ MoreSkips \/ MoreReturns
  \/ LexerStep /\ UNCHANGED <<call, tokens, parser, answer, spent, used>>

ReaderStep == ReaderAnswers /\ UNCHANGED <<call, tokens, parser, answer, spent, used>>

Next == (\E c \in Call : Begin(c)) \/ DecoderStep \/ ReaderStep

\* A call runs as long as it can.  Whether the reader answers is up to the reader,
\* but for one at its end, which reports it again at once.
Spec == Init /\ [][Next]_vars /\ WF_vars(DecoderStep \/ (ended /\ ReaderStep))

-----------------------------------------------------------------------------
\* What Buffered and InputOffset return between two calls.
Buffered == peek.text \o buffer
InputOffset == cursor.at.offset

(***************************************************************************)
(* Types, and what can be where: a scan only while a call waits for its    *)
(* token.                                                                  *)
(***************************************************************************)
TypeOK ==
  /\ call \in Call \union {"none"} /\ ended \in BOOLEAN /\ used \in Nat \union {Over}
  /\ ToSet(given) \subseteq DOMAIN CodeOf \union {Failure} /\ ToSet(buffer) \subseteq DOMAIN CodeOf
  /\ scan.at # "idle" => peek = NoToken /\ call # "none"
  /\ answer.result \in {"none", "document", "EOF", "unexpected EOF", "error", "yes", "no"}

(***************************************************************************)
(* No character is lost and none is read twice, whatever the chunks, the   *)
(* errors and the calls, between two calls and within one: what the reader *)
(* gave is what the calls took and what Buffered would return, with the    *)
(* unfinished token of a scan in between.                                  *)
(***************************************************************************)
EveryCharacterOnce == Chars(given) = spent \o scan.text \o Buffered

(***************************************************************************)
(* Positions: lines end with line feeds, columns begin anew behind a line  *)
(* feed or carriage return, offsets count bytes.  Each token that is kept  *)
(* or peeked at has the place where its text begins, and InputOffset is    *)
(* the place behind all that Buffered does not return, but for the token   *)
(* that More may have left, which is counted by both.                      *)
(***************************************************************************)
PlaceAfter(text) ==
  LET breaks == {0} \union {i \in DOMAIN text : text[i] \in {"\n", "\r"}}
      last == CHOOSE b \in breaks : \A a \in breaks : a <= b
      bytes[i \in 0 .. Len(text)] == IF i = 0 THEN 0 ELSE bytes[i - 1] + Size(text[i])
  IN  [line |-> Cardinality({i \in DOMAIN text : text[i] = "\n"}) + 1,
       column |-> Len(text) - last + 1,
       offset |-> bytes[Len(text)]]

PositionsRight ==
  /\ cursor.at = PlaceAfter(spent \o peek.text \o scan.text)
  /\ HasToken => peek.position = PlaceAfter(spent)
  /\ Decoding => \A i \in DOMAIN tokens :
       LET behind == FlattenSeq([k \in 1 .. Len(tokens) - i + 1 |-> tokens[k + i - 1].text])
       IN  tokens[i].position = PlaceAfter(SubSeq(spent, 1, Len(spent) - Len(behind)))

S == INSTANCE StreamSpec

(***************************************************************************)
(* The decoder answers as module StreamSpec says: chunks, lookahead and    *)
(* the token that a call leaves for the next one do not show.  So it takes *)
(* the longest words and one value after another, goes on at the token     *)
(* that it refused, and takes an error of the reader for the end of a      *)
(* word or, between words, of the stream.                                  *)
(***************************************************************************)
ImplementsStreamSpec == S!Spec

(***************************************************************************)
(* A call does not wait for more of the stream than it needs: when what    *)
(* the reader gave decides its answer, it returns, even if the reader      *)
(* never answers again.                                                    *)
(***************************************************************************)
ReturnsPromptly == (call # "none" /\ S!Answers # {}) ~> call = "none"

(***************************************************************************)
(* Each call returns, when the reader answers.                             *)
(***************************************************************************)
Returns == WF_vars(ReaderStep) => (call # "none" ~> call = "none")
=============================================================================
