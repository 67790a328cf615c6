------------------------------- MODULE Lexer -------------------------------
(***************************************************************************)
(* json/lexer.go: characters from a reader become tokens.                  *)
(*                                                                         *)
(* The reader answers a call for more with some characters, with an error, *)
(* or, at the end, with io.EOF each time; it is called only when the       *)
(* buffer does not suffice.  The buffer (bufio.Reader) hands an error on   *)
(* once and forgets it.  "given" is the history of the answers, in which   *)
(* an error is the item Failure; "ended" says that the end was reported.   *)
(*                                                                         *)
(* The decoder peeks at a token before it takes it, always, so that a scan *)
(* is the work of peekToken: it is "start"ed, goes through the places of   *)
(* scanToken and of one of the functions that consume, a character at a    *)
(* time, and leaves its token in "peek".                                   *)
(***************************************************************************)
EXTENDS Lexemes

CONSTANTS Streams,       \* the texts that a reader may have
          MaxChunk,      \* bound: the characters of one answer of the reader
          MaxFailures    \* bound: the errors that are not the end

ASSUME StreamAssumption == Streams \subseteq Seq(DOMAIN CodeOf) /\ MaxChunk \in Nat

VARIABLES given, ended, buffer, cursor, scan, peek

reader == <<given, ended>>
lexer == <<buffer, cursor, scan, peek>>

Failure == "an error"
ASSUME FailureAssumption == Failure \notin DOMAIN CodeOf

Chars(items) == FlattenSeq([i \in DOMAIN items |-> IF items[i] = Failure THEN <<>> ELSE <<items[i]>>])
Failures == Len(given) - Len(Chars(given))

NoToken == [type |-> "none", text |-> <<>>, position |-> Origin]

LexerInit ==
  /\ given = <<>> /\ ended = FALSE
  /\ buffer = <<>>
  /\ cursor = [at |-> Origin, prev |-> Origin]
  /\ scan = [at |-> "idle", text |-> <<>>, position |-> Origin, item |-> 0]
  /\ peek = NoToken

-----------------------------------------------------------------------------
(***************************************************************************)
(* Reading a character, and taking it back.  The cursor can go back once.  *)
(***************************************************************************)
CursorNext(c, char) == [at |-> Advanced(c.at, char), prev |-> c.at]

\* A fault: the line and the column stay where they are.
CursorPrevOffset(c) == [c EXCEPT !.at.offset = c.prev.offset]

CursorPrev(c) == [c EXCEPT !.at = c.prev]

Readable == buffer # <<>>

readRune ==
  /\ Readable
  /\ buffer' = Tail(buffer)
  /\ cursor' = CursorNext(cursor, Head(buffer))

\* A character is read and taken back: peekRune, and the end of a word.
unreadRune ==
  /\ Readable
  /\ UNCHANGED buffer
  /\ cursor' = CursorPrev(CursorNext(cursor, Head(buffer)))

Produce(type, text) ==
  /\ peek' = [type |-> type, text |-> text, position |-> scan.position]
  /\ scan' = [scan EXCEPT !.at = "idle", !.text = <<>>]

Go(place) == scan' = [scan EXCEPT !.at = place] /\ UNCHANGED peek

Longer == Append(scan.text, Head(buffer))

Extend(place) ==
  readRune /\ scan' = [scan EXCEPT !.at = place, !.text = Longer] /\ UNCHANGED peek

\* A fault: the character behind a word is not taken back.
ConsumeBeyond(place, class) ==
  /\ scan.at = place
  /\ \/ Readable /\ Head(buffer) \in class /\ Extend(place)
     \/ Readable /\ Head(buffer) \notin class /\ readRune /\ Produce(place, scan.text)

\* The word of a class goes on as long as its characters are of the class.
Consume(place, class) ==
  /\ scan.at = place
  /\ \/ Readable /\ Head(buffer) \in class /\ Extend(place)
     \/ Readable /\ Head(buffer) \notin class /\ unreadRune /\ Produce(place, scan.text)

-----------------------------------------------------------------------------
(***************************************************************************)
(* The functions of the lexer.                                             *)
(***************************************************************************)
\* The number of items of "given" that were read is kept for the specification.
peekToken ==
  /\ scan.at = "idle" /\ peek = NoToken
  /\ scan' = [at |-> "start", text |-> <<>>, position |-> cursor.at, item |-> Len(given) - Len(buffer)]
  /\ UNCHANGED <<buffer, cursor, peek>>

Place(c) ==
  CASE c = "/" -> "//"
    [] c \in Quote -> "string"
    [] c \in NumberStart -> "number"
    [] c \in Newline -> "newline"
    [] c \in HorizontalSpace -> "whitespace"
    [] c \in IdentifierStart -> "identifier"
    [] OTHER -> "illegal"

consumeSingle ==
  /\ scan.at = "start" /\ Readable
  /\ \/ Head(buffer) \in Single /\ Produce(SingleType(Head(buffer)), <<Head(buffer)>>)
     \/ Head(buffer) \notin Single /\ Place(Head(buffer)) = "illegal" /\ Produce("illegal", <<Head(buffer)>>)
  /\ readRune

scanToken ==
  /\ scan.at = "start" /\ Readable
  /\ Head(buffer) \notin Single /\ Place(Head(buffer)) # "illegal"
  /\ unreadRune /\ Go(Place(Head(buffer)))

IllegalSlash == readRune /\ Produce("illegal", <<"/">>)

\* First "//" is tried and then, with another call of the reader if need be, "/*".
assert ==
  /\ scan.at \in {"//", "/*"} /\ Len(buffer) >= 2
  /\ \/ scan.at = "//" /\ Go(IF buffer[2] = "/" THEN "comment" ELSE "/*") /\ UNCHANGED <<buffer, cursor>>
     \/ scan.at = "/*" /\ buffer[2] = "*" /\ Go("block") /\ UNCHANGED <<buffer, cursor>>
     \/ scan.at = "/*" /\ buffer[2] # "*" /\ IllegalSlash

consumeWhitespace == Consume("whitespace", HorizontalSpace)
consumeNewline == Consume("newline", Newline)
consumeNumber == Consume("number", DOMAIN CodeOf \ NumberDelimiter)
consumeIdentifier == Consume("identifier", IdentifierPart)
consumeComment == Consume("comment", DOMAIN CodeOf \ {"\n", "\r"})

consumeMultiLineComment ==
  /\ scan.at = "block" /\ Readable
  /\ IF scan.text # <<>> /\ Last(scan.text) = "*" /\ Head(buffer) = "/"
     THEN readRune /\ Produce("comment", Longer)
     ELSE Extend("block")

consumeString ==
  /\ Readable
  /\ \/ scan.at = "string" /\ Head(buffer) = "\\" /\ Extend("escape")
     \/ scan.at = "escape" /\ Extend("string")
     \/ /\ scan.at = "string" /\ Head(buffer) # "\\"
        /\ IF scan.text # <<>> /\ Head(buffer) = scan.text[1]
           THEN readRune /\ Produce("string", Longer)
           ELSE Extend("string")

\* The error branch of each function: what was read of a word is the word.
ReadFails ==
  \/ scan.at = "start" /\ Produce("eof", <<>>) /\ UNCHANGED <<buffer, cursor>>
  \/ scan.at = "//" /\ Go("/*") /\ UNCHANGED <<buffer, cursor>>
  \/ scan.at = "/*" /\ IllegalSlash
  \/ scan.at = "block" /\ Produce("illegal", scan.text) /\ UNCHANGED <<buffer, cursor>>
  \/ scan.at = "escape" /\ Produce("string", scan.text) /\ UNCHANGED <<buffer, cursor>>
  \/ /\ scan.at \in {"whitespace", "newline", "number", "identifier", "comment", "string"}
     /\ Produce(scan.at, scan.text) /\ UNCHANGED <<buffer, cursor>>

LexerStep ==
  /\ \/ consumeSingle \/ scanToken \/ assert \/ consumeWhitespace \/ consumeNewline \/ consumeNumber
     \/ consumeIdentifier \/ consumeComment \/ consumeMultiLineComment \/ consumeString
  /\ UNCHANGED reader

-----------------------------------------------------------------------------
(***************************************************************************)
(* The reader, when it is called.                                          *)
(***************************************************************************)
Waiting ==
  \/ scan.at \in {"//", "/*"} /\ Len(buffer) < 2
  \/ scan.at \notin {"idle", "//", "/*"} /\ buffer = <<>>

\* What the reader may still have: one of the texts that begin with what it gave.
ReaderGives ==
  /\ Waiting /\ ~ended
  /\ \E before \in {Chars(given)} :
       LET rests == {SubSeq(s, Len(before) + 1, Len(s)) : s \in {s \in Streams : IsPrefix(before, s)}}
           chunks == UNION {{SubSeq(r, 1, n) : n \in {n \in 1 .. MaxChunk : n <= Len(r)}} : r \in rests}
       IN  \E chunk \in chunks :
             given' = given \o chunk /\ buffer' = buffer \o chunk
  /\ UNCHANGED <<ended, cursor, scan, peek>>

ReaderErrs ==
  /\ Waiting /\ ~ended /\ Failures < MaxFailures
  /\ given' = Append(given, Failure) /\ UNCHANGED ended
  /\ ReadFails

ReaderEnds ==
  /\ Waiting /\ (ended \/ Chars(given) \in Streams)
  /\ ended' = TRUE /\ UNCHANGED given
  /\ ReadFails

ReaderAnswers == ReaderGives \/ ReaderErrs \/ ReaderEnds
=============================================================================
