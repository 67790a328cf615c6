---------------------------- MODULE StreamProofs ----------------------------
(***************************************************************************)
(* The decoder loses no character of a stream and takes none twice, and    *)
(* its positions are right, for all streams, cut into chunks and mixed     *)
(* with errors in any way, and any calls.                                  *)
(*                                                                         *)
(* What the lexer does to the text is one of a few moves, whatever it is   *)
(* that it reads: the proofs first look at each move, and then find the    *)
(* move in each action.                                                    *)
(***************************************************************************)
EXTENDS Stream, SequenceFacts, FiniteSetTheorems

Character == DOMAIN CodeOf
Str == Seq(Character)

Position == [line : Nat, column : Nat, offset : Nat]
TokenKind == {"none", "eof", "illegal", "colon", "comma", "delim", "whitespace", "newline", "comment",
              "number", "identifier", "string"}
LexerToken == [type : TokenKind, text : Str, position : Position]

\* The places at which nothing of the word was read yet.
Fresh == {"idle", "start", "//", "/*"}
ScanPlace == Fresh \union {"block", "comment", "escape", "identifier", "newline", "number", "string", "whitespace"}

-----------------------------------------------------------------------------
(***************************************************************************)
(* Characters and errors in what the reader gives.                         *)
(***************************************************************************)
Item == Character \union {Failure}

\* What an item is in the text.
TextOfItem(x) == IF x = Failure THEN <<>> ELSE <<x>>

\* The texts of the items.
Texts(items) == [i \in DOMAIN items |-> TextOfItem(items[i])]

LEMMA CharsIsText ==
  ASSUME NEW items \in Seq(Item)
  PROVE  Chars(items) = FlattenSeq(Texts(items)) /\ Texts(items) \in Seq(Str)
<1>1. \A i \in DOMAIN items : TextOfItem(items[i]) \in Str
  BY DEF TextOfItem, Item, Str
<1>2. Texts(items) \in Seq(Str)
  BY <1>1 DEF Texts
<1>3. Chars(items) = FlattenSeq(Texts(items))
  BY DEF Chars, TextOfItem, Texts
<1> QED BY <1>2, <1>3

LEMMA CharsType ==
  ASSUME NEW items \in Seq(Item)
  PROVE  Chars(items) \in Str
BY CharsIsText, FlattenType DEF Str

LEMMA CharsEmpty == Chars(<<>>) = <<>>
<1>1. Texts(<<>>) = <<>>
  BY DEF Texts
<1>2. <<>> \in Seq(Item)
  OBVIOUS
<1> QED BY <1>1, <1>2, CharsIsText, FlattenEmpty

LEMMA CharsAppend ==
  ASSUME NEW items \in Seq(Item), NEW x \in Item
  PROVE  Chars(Append(items, x)) = Chars(items) \o TextOfItem(x)
<1>1. TextOfItem(x) \in Str
  BY DEF TextOfItem, Item, Str
<1>2. Append(items, x) \in Seq(Item)
  OBVIOUS
<1>3. Texts(Append(items, x)) = Append(Texts(items), TextOfItem(x))
  <2> HIDE DEF Item
  <2> QED BY DEF Texts
<1>4. FlattenSeq(Append(Texts(items), TextOfItem(x))) = FlattenSeq(Texts(items)) \o TextOfItem(x)
  BY <1>1, CharsIsText, FlattenAppend DEF Str
<1> QED BY <1>2, <1>3, <1>4, CharsIsText

LEMMA CharsConcat ==
  ASSUME NEW items \in Seq(Item), NEW chunk \in Str
  PROVE  Chars(items \o chunk) = Chars(items) \o chunk /\ items \o chunk \in Seq(Item)
<1> DEFINE Good == {r \in Str : Chars(items \o r) = Chars(items) \o r}
<1>1. Chars(items) \in Seq(Character) /\ \A r \in Str : r \in Seq(Item)
  BY CharsType DEF Str, Item
<1>2. <<>> \in Good
  <2>1. <<>> \in Str /\ items \o <<>> = items /\ Chars(items) \o <<>> = Chars(items)
    BY <1>1, ConcatEmpty DEF Str
  <2> QED BY <2>1
<1>3. ASSUME NEW r \in Seq(Character), NEW x \in Character, r \in Good PROVE Append(r, x) \in Good
  <2>1. r \in Seq(Item) /\ x \in Item /\ TextOfItem(x) = <<x>> /\ Append(r, x) \in Str
    BY FailureAssumption DEF TextOfItem, Item, Character, Str
  <2>2. items \o Append(r, x) = Append(items \o r, x) /\ items \o r \in Seq(Item)
    BY <2>1, ConcatAppend
  <2>3. Chars(Append(items \o r, x)) = Chars(items \o r) \o <<x>>
    BY <2>1, <2>2, CharsAppend
  <2>4. Chars(items \o r) = Chars(items) \o r
    BY <1>3
  <2>5. (Chars(items) \o r) \o <<x>> = Chars(items) \o Append(r, x)
    <3>1. Chars(items) \o r \in Seq(Character)
      BY <1>1
    <3>2. (Chars(items) \o r) \o <<x>> = Append(Chars(items) \o r, x)
      BY <3>1, ConcatLast
    <3>3. Chars(items) \o Append(r, x) = Append(Chars(items) \o r, x)
      BY <1>1, ConcatAppend
    <3> QED BY <3>2, <3>3
  <2>6. Chars(items \o Append(r, x)) = Chars(items) \o Append(r, x)
    BY <2>2, <2>3, <2>4, <2>5
  <2> QED BY <2>1, <2>6
<1>4. chunk \in Good
  <2> HIDE DEF Good
  <2> QED BY <1>2, <1>3, SequencesBuilt DEF Str
<1>5. items \o chunk \in Seq(Item)
  BY <1>1
<1> QED BY <1>4, <1>5

\* The reader gave at least as many items as characters.
LEMMA CharsFew ==
  ASSUME NEW items \in Seq(Item)
  PROVE  Len(Chars(items)) <= Len(items)
<1> DEFINE Good == {r \in Seq(Item) : Len(Chars(r)) <= Len(r)}
<1>1. <<>> \in Good
  <2>1. Len(Chars(<<>>)) <= Len(<<>>)
    BY CharsEmpty
  <2> QED BY <2>1
<1>2. ASSUME NEW r \in Seq(Item), NEW x \in Item, r \in Good PROVE Append(r, x) \in Good
  <2>1. Chars(r) \in Str /\ Chars(Append(r, x)) = Chars(r) \o TextOfItem(x)
    BY CharsAppend, CharsType
  <2>2. TextOfItem(x) \in Str /\ Len(TextOfItem(x)) <= 1
    BY DEF TextOfItem, Item, Str
  <2>3. Len(Chars(r)) <= Len(r)
    BY <1>2
  <2>4. Len(Chars(r) \o TextOfItem(x)) <= Len(r) + 1
    BY <2>1, <2>2, <2>3 DEF Str
  <2>5. Append(r, x) \in Seq(Item) /\ Len(Append(r, x)) = Len(r) + 1
    OBVIOUS
  <2>6. Len(Chars(Append(r, x))) <= Len(Append(r, x))
    BY <2>1, <2>4, <2>5
  <2> QED BY <2>5, <2>6
<1>3. items \in Good
  <2> HIDE DEF Good
  <2> QED BY <1>1, <1>2, SequencesBuilt
<1> QED BY <1>3

-----------------------------------------------------------------------------
(***************************************************************************)
(* The place behind a text, a character at a time.                         *)
(***************************************************************************)
Lines(text) == {i \in DOMAIN text : text[i] = "\n"}
Breaks(text) == {0} \union {i \in DOMAIN text : text[i] \in {"\n", "\r"}}
LastBreak(text) == CHOOSE b \in Breaks(text) : \A a \in Breaks(text) : a <= b

\* f has the bytes of the first characters of a text.
Counts(f, text) == f[0] = 0 /\ \A n \in 1 .. Len(text) : f[n] = f[n - 1] + Size(text[n])

LEMMA BytesCounted ==
  ASSUME NEW text \in Str
  PROVE  \E f : /\ f \in [0 .. Len(text) -> Nat] /\ Counts(f, text)
                /\ PlaceAfter(text).offset = f[Len(text)]
<1> DEFINE N == Len(text)
           step == [p \in Nat \X (1 .. N) |-> p[1] + Size(text[p[2]])]
           Is(h) == h = [i \in 0 .. N |-> IF i = 0 THEN 0 ELSE h[i - 1] + Size(text[i])]
           bytes == CHOOSE h : Is(h)
<1>1. N \in Nat /\ \A c : Size(c) \in Nat
  BY DEF Size, Str
<1>2. PICK f : f \in [0 .. N -> Nat] /\ IsFold(f, N, 0, step)
  <2>1. step \in [Nat \X (1 .. N) -> Nat]
    BY <1>1
  <2> HIDE DEF step, N
  <2> QED BY <1>1, <2>1, FoldExists
<1>3. ASSUME NEW n \in 1 .. N PROVE f[n] = f[n - 1] + Size(text[n])
  <2>1. f[n - 1] \in Nat
    <3>1. n - 1 \in 0 .. N
      BY <1>1
    <3> HIDE DEF N
    <3> QED BY <1>2, <3>1
  <2>2. <<f[n - 1], n>> \in Nat \X (1 .. N)
    BY <2>1
  <2>3. step[<<f[n - 1], n>>] = f[n - 1] + Size(text[n])
    BY <2>2, Zenon
  <2> QED BY <1>2, <2>3 DEF IsFold
<1>4. Is(f)
  <2>1. f[0] = 0
    BY <1>2 DEF IsFold
  <2>2. ASSUME NEW i \in 0 .. N PROVE f[i] = IF i = 0 THEN 0 ELSE f[i - 1] + Size(text[i])
    BY <1>1, <1>3, <2>1
  <2> QED BY <1>2, <2>2
<1>5. Is(bytes)
  <2> HIDE DEF Is
  <2> QED BY <1>4
<1>6. \A n \in 0 .. N : bytes[n] = f[n]
  <2>1. bytes[0] = f[0]
    <3> HIDE DEF bytes
    <3> QED BY <1>1, <1>2, <1>5 DEF IsFold
  <2>2. ASSUME NEW n \in 1 .. N, bytes[n - 1] = f[n - 1] PROVE bytes[n] = f[n]
    <3> HIDE DEF bytes
    <3>1. bytes[n] = bytes[n - 1] + Size(text[n])
      BY <1>1, <1>5
    <3> QED BY <1>3, <2>2, <3>1
  <2>3. N \in Nat
    BY <1>1
  <2> HIDE DEF bytes, N
  <2>4. Alike(bytes, f, N)
    BY <2>1, <2>2 DEF Alike
  <2> QED BY <2>3, <2>4, SameFold
<1>7. PlaceAfter(text).offset = bytes[N]
  BY DEF PlaceAfter
<1>8. PlaceAfter(text).offset = f[N]
  <2> HIDE DEF bytes, N
  <2> QED BY <1>1, <1>6, <1>7
<1>9. Counts(f, text)
  BY <1>2, <1>3 DEF Counts, IsFold
<1> QED BY <1>2, <1>8, <1>9

LEMMA PlaceAfterParts ==
  ASSUME NEW text \in Str
  PROVE  PlaceAfter(text) = [line |-> Cardinality(Lines(text)) + 1,
                             column |-> Len(text) - LastBreak(text) + 1,
                             offset |-> PlaceAfter(text).offset]
BY DEF PlaceAfter, Lines, Breaks, LastBreak

LEMMA LastBreakIsLast ==
  ASSUME NEW text \in Str
  PROVE  LastBreak(text) \in Breaks(text) /\ \A a \in Breaks(text) : a <= LastBreak(text)
<1>1. Len(text) \in Nat /\ Breaks(text) \in SUBSET (0 .. Len(text)) /\ Breaks(text) # {}
  BY DEF Str, Breaks
<1>2. \E m \in Breaks(text) : \A k \in Breaks(text) : k <= m
  BY <1>1, GreatestUpTo
<1> QED BY <1>2 DEF LastBreak

LEMMA PlaceAfterType ==
  ASSUME NEW text \in Str
  PROVE  PlaceAfter(text) \in Position
<1>1. Cardinality(Lines(text)) \in Nat
  <2>1. IsFiniteSet(1 .. Len(text)) /\ Lines(text) \subseteq 1 .. Len(text)
    BY FS_Interval DEF Lines, Str
  <2> QED BY <2>1, FS_Subset, FS_CardinalityType
<1>2. Len(text) - LastBreak(text) + 1 \in Nat
  <2>1. LastBreak(text) \in 0 .. Len(text) /\ Len(text) \in Nat
    BY LastBreakIsLast DEF Breaks, Str
  <2> QED BY <2>1
<1>3. PlaceAfter(text).offset \in Nat
  <2>1. Len(text) \in 0 .. Len(text)
    BY DEF Str
  <2> QED BY <2>1, BytesCounted
<1> QED BY <1>1, <1>2, <1>3, PlaceAfterParts DEF Position

LEMMA PlaceAfterNothing == PlaceAfter(<<>>) = Origin
<1> DEFINE text == <<>>
<1>1. text \in Str /\ Len(text) = 0
  BY DEF Str
<1>2. Lines(text) = {} /\ Breaks(text) = {0}
  BY DEF Lines, Breaks
<1>3. Cardinality(Lines(text)) = 0
  BY <1>2, FS_EmptySet
<1>4. LastBreak(text) = 0
  BY <1>1, <1>2, LastBreakIsLast
<1>5. PlaceAfter(text).offset = 0
  BY <1>1, BytesCounted DEF Counts
<1> HIDE DEF text
<1>6. PlaceAfter(text) = Origin
  BY <1>1, <1>3, <1>4, <1>5, PlaceAfterParts DEF Origin
<1> QED BY <1>6 DEF text

LEMMA PlaceAfterAppend ==
  ASSUME NEW text \in Str, NEW c \in Character
  PROVE  PlaceAfter(Append(text, c)) = Advanced(PlaceAfter(text), c)
<1> DEFINE N == Len(text)
           longer == Append(text, c)
<1>1. /\ N \in Nat /\ longer \in Str /\ Len(longer) = N + 1 /\ longer[N + 1] = c
      /\ DOMAIN text = 1 .. N /\ DOMAIN longer = 1 .. N + 1
      /\ \A i \in 1 .. N : longer[i] = text[i]
  BY DEF Str
<1> HIDE DEF longer, N
<1>2. Cardinality(Lines(longer)) = IF c = "\n" THEN Cardinality(Lines(text)) + 1
                                               ELSE Cardinality(Lines(text))
  <2>1. CASE c = "\n"
    <3>1. Lines(longer) = Lines(text) \union {N + 1} /\ N + 1 \notin Lines(text)
      BY <1>1, <2>1 DEF Lines
    <3>2. IsFiniteSet(Lines(text))
      <4>1. IsFiniteSet(1 .. N) /\ Lines(text) \subseteq 1 .. N
        BY <1>1, FS_Interval DEF Lines
      <4> QED BY <4>1, FS_Subset
    <3> QED BY <2>1, <3>1, <3>2, FS_AddElement
  <2>2. CASE c # "\n"
    <3>1. Lines(longer) = Lines(text)
      BY <1>1, <2>2 DEF Lines
    <3> QED BY <2>2, <3>1
  <2> QED BY <2>1, <2>2
<1>3. Len(longer) - LastBreak(longer) + 1 = IF c \in {"\n", "\r"} THEN 1
                                            ELSE Len(text) - LastBreak(text) + 1 + 1
  <2>1. CASE c \in {"\n", "\r"}
    <3>1. N + 1 \in Breaks(longer) /\ \A a \in Breaks(longer) : a \in 0 .. N + 1
      BY <1>1, <2>1 DEF Breaks
    <3>2. LastBreak(longer) = N + 1
      <4>1. LastBreak(longer) \in 0 .. N + 1 /\ N + 1 <= LastBreak(longer)
        BY <1>1, <3>1, LastBreakIsLast
      <4> QED BY <1>1, <4>1
    <3> QED BY <1>1, <2>1, <3>2
  <2>2. CASE c \notin {"\n", "\r"}
    <3>1. Breaks(longer) = Breaks(text)
      BY <1>1, <2>2 DEF Breaks
    <3>2. LastBreak(longer) = LastBreak(text)
      BY <3>1, Zenon DEF LastBreak
    <3>3. LastBreak(text) \in 0 .. N
      BY <1>1, LastBreakIsLast DEF Breaks
    <3> QED BY <1>1, <2>2, <3>2, <3>3 DEF N
  <2> QED BY <2>1, <2>2
<1>4. PlaceAfter(longer).offset = PlaceAfter(text).offset + Size(c)
  <2>1. PICK f : /\ f \in [0 .. N -> Nat] /\ Counts(f, text) /\ PlaceAfter(text).offset = f[N]
    BY BytesCounted DEF N
  <2>2. PICK g : /\ g \in [0 .. N + 1 -> Nat] /\ Counts(g, longer)
                 /\ PlaceAfter(longer).offset = g[N + 1]
    BY <1>1, BytesCounted
  <2>3. \A n \in 0 .. N : f[n] = g[n]
    <3>1. f[0] = g[0]
      BY <2>1, <2>2 DEF Counts
    <3>2. ASSUME NEW n \in 1 .. N, f[n - 1] = g[n - 1] PROVE f[n] = g[n]
      <4>1. f[n] = f[n - 1] + Size(text[n])
        BY <2>1 DEF Counts, N
      <4>2. g[n] = g[n - 1] + Size(longer[n])
        BY <1>1, <2>2 DEF Counts
      <4> QED BY <1>1, <3>2, <4>1, <4>2
    <3>3. N \in Nat
      BY <1>1
    <3>4. Alike(f, g, N)
      BY <3>1, <3>2 DEF Alike
    <3> QED BY <3>3, <3>4, SameFold
  <2>4. f[N] = g[N] /\ N + 1 \in 1 .. Len(longer) /\ (N + 1) - 1 = N
    BY <1>1, <2>3
  <2>5. g[N + 1] = g[(N + 1) - 1] + Size(longer[N + 1])
    BY <2>2, <2>4 DEF Counts
  <2> QED BY <1>1, <2>1, <2>2, <2>4, <2>5
<1>5. PlaceAfter(longer) = Advanced(PlaceAfter(text), c)
  <2>1. /\ PlaceAfter(text).line = Cardinality(Lines(text)) + 1
        /\ PlaceAfter(text).column = Len(text) - LastBreak(text) + 1
    BY PlaceAfterParts
  <2>2. PlaceAfter(longer) = [line |-> Cardinality(Lines(longer)) + 1,
                              column |-> Len(longer) - LastBreak(longer) + 1,
                              offset |-> PlaceAfter(longer).offset]
    BY <1>1, PlaceAfterParts
  <2> QED BY <1>2, <1>3, <1>4, <2>1, <2>2 DEF Advanced
<1> QED BY <1>5 DEF longer

-----------------------------------------------------------------------------
(***************************************************************************)
(* The invariant of the lexer: types, what can be where, and how far the   *)
(* cursor and the positions are.  "behind" is the text taken or scanned.   *)
(***************************************************************************)
LexerTypes ==
  /\ given \in Seq(Item) /\ ended \in BOOLEAN
  /\ buffer \in Str /\ spent \in Str
  /\ cursor \in [at : Position, prev : Position]
  /\ scan \in [at : ScanPlace, text : Str, position : Position, item : Nat]
  /\ peek \in LexerToken

PlacesOK ==
  /\ peek.type \in {"none", "eof"} => peek.text = <<>>
  /\ peek.type = "none" => peek = NoToken
  /\ scan.at # "idle" => peek = NoToken
  /\ scan.at \in Fresh => scan.text = <<>>
  /\ scan.at \in {"//", "/*"} => buffer # <<>> /\ Head(buffer) = "/"

CursorOK ==
  /\ cursor.at = PlaceAfter((spent \o peek.text) \o scan.text)
  /\ scan.at # "idle" => scan.position = PlaceAfter(spent)
  /\ HasToken => peek.position = PlaceAfter(spent)

LexerOK == LexerTypes /\ PlacesOK /\ CursorOK /\ EveryCharacterOnce

\* What the reader gave is the same text, perhaps with an error more.
SameText == given' \in Seq(Item) /\ ended' \in BOOLEAN /\ Chars(given') = Chars(given)

\* A character goes from the buffer to the scan.
Shift(place) ==
  /\ readRune /\ scan.at # "idle" /\ place \in ScanPlace \ Fresh
  /\ scan' = [scan EXCEPT !.at = place, !.text = Longer]
  /\ UNCHANGED <<given, ended, peek, spent>>

\* The scan ends with a character of the buffer, or without.
EndsWith(type) ==
  /\ readRune /\ scan.at # "idle" /\ type \in TokenKind \ {"none", "eof"}
  /\ Produce(type, Longer)
  /\ SameText /\ UNCHANGED spent

EndsBefore(type) ==
  /\ scan.at # "idle" /\ type \in TokenKind \ {"none"}
  /\ type = "eof" => scan.text = <<>>
  /\ Produce(type, scan.text)
  /\ buffer' = buffer /\ cursor'.at = cursor.at /\ cursor' \in [at : Position, prev : Position]
  /\ SameText /\ UNCHANGED spent

Moves(place) ==
  /\ scan.at # "idle" /\ place \in ScanPlace \ {"idle"}
  /\ place \in Fresh => scan.text = <<>>
  /\ place \in {"//", "/*"} => buffer # <<>> /\ Head(buffer) = "/"
  /\ Go(place)
  /\ buffer' = buffer /\ cursor'.at = cursor.at /\ cursor' \in [at : Position, prev : Position]
  /\ SameText /\ UNCHANGED spent

\* Texts put together.
LEMMA StrFacts ==
  ASSUME NEW r \in Str, NEW s \in Str
  PROVE  r \o s \in Str /\ <<>> \o r = r /\ r \o <<>> = r
BY ConcatEmpty DEF Str

LEMMA StrLength ==
  ASSUME NEW r \in Str, NEW s \in Str
  PROVE  Len(r \o s) = Len(r) + Len(s) /\ Len(r) \in Nat /\ Len(s) \in Nat
BY DEF Str

LEMMA StrAppend ==
  ASSUME NEW r \in Str, NEW s \in Str, NEW x \in Character
  PROVE  /\ r \o Append(s, x) = Append(r \o s, x)
         /\ Append(s, x) \in Str
BY ConcatAppend DEF Str

LEMMA StrShift ==
  ASSUME NEW r \in Str, NEW s \in Str, NEW t \in Str, NEW x \in Character
  PROVE  (r \o s) \o (<<x>> \o t) = (r \o Append(s, x)) \o t
<1>1. r \in Seq(Character) /\ s \in Seq(Character) /\ t \in Seq(Character)
  BY DEF Str
<1>2. r \o s \in Seq(Character) /\ <<x>> \in Seq(Character)
  BY <1>1
<1>3. r \o Append(s, x) = Append(r \o s, x)
  BY <1>1, ConcatAppend
<1>4. (r \o s) \o <<x>> = Append(r \o s, x)
  BY <1>2, ConcatLast
<1>5. ((r \o s) \o <<x>>) \o t = (r \o s) \o (<<x>> \o t)
  BY <1>1, <1>2, ConcatAssociative
<1> QED BY <1>3, <1>4, <1>5

LEMMA StrAssociative ==
  ASSUME NEW r \in Str, NEW s \in Str, NEW t \in Str
  PROVE  (r \o s) \o t = r \o (s \o t)
BY ConcatAssociative DEF Str

LEMMA RuneRead ==
  ASSUME LexerTypes, readRune
  PROVE  /\ Head(buffer) \in Character /\ buffer' \in Str
         /\ buffer = <<Head(buffer)>> \o buffer' /\ Len(buffer') < Len(buffer)
         /\ Longer \in Str /\ Longer = scan.text \o <<Head(buffer)>>
         /\ cursor' \in [at : Position, prev : Position]
         /\ cursor'.at = Advanced(cursor.at, Head(buffer))
<1>1. buffer # <<>> /\ buffer \in Str /\ buffer' = Tail(buffer) /\ scan.text \in Str
  BY DEF LexerTypes, readRune, Readable
<1>2. Head(buffer) \in Character /\ buffer = <<Head(buffer)>> \o Tail(buffer) /\ Tail(buffer) \in Str
  BY <1>1, ConcatFirst DEF Str
<1>3. Len(Tail(buffer)) < Len(buffer)
  BY <1>1 DEF Str
<1>4. Longer \in Str /\ Longer = scan.text \o <<Head(buffer)>>
  BY <1>1, <1>2 DEF Longer, Str
<1>5. cursor.at \in Position /\ \A c : Size(c) \in Nat
  BY DEF LexerTypes, Size
<1>6. Advanced(cursor.at, Head(buffer)) \in Position
  BY <1>5 DEF Advanced, Position
<1>7. cursor' = [at |-> Advanced(cursor.at, Head(buffer)), prev |-> cursor.at]
  BY DEF readRune, CursorNext
<1> QED BY <1>1, <1>2, <1>3, <1>4, <1>5, <1>6, <1>7

LEMMA ShiftKeeps ==
  ASSUME LexerOK, NEW place, Shift(place)
  PROVE  LexerOK'
<1>1. PICK c :
      /\ c \in Character /\ buffer' \in Str /\ buffer = <<c>> \o buffer'
      /\ scan'.text = Append(scan.text, c)
      /\ cursor' \in [at : Position, prev : Position] /\ cursor'.at = Advanced(cursor.at, c)
  <2>1. LexerTypes /\ readRune /\ scan'.text = Longer
    BY DEF LexerOK, LexerTypes, Shift
  <2>2. Longer = Append(scan.text, Head(buffer))
    BY DEF Longer
  <2> QED BY <2>1, <2>2, RuneRead
<1>2. /\ peek = NoToken /\ peek.text = <<>> /\ peek' = peek /\ spent' = spent /\ given' = given
      /\ scan.text \in Str /\ spent \in Str /\ buffer \in Str
  BY DEF LexerOK, LexerTypes, PlacesOK, Shift, NoToken
<1>3. /\ scan'.at = place /\ place \notin Fresh /\ place \in ScanPlace
      /\ scan'.position = scan.position /\ scan.at # "idle"
  BY DEF LexerOK, LexerTypes, Shift
<1>4. scan'.text \in Str
  BY <1>1, <1>2, StrAppend
<1>5. LexerTypes'
  BY <1>1, <1>4 DEF LexerOK, LexerTypes, Shift
<1>6. PlacesOK'
  BY <1>2, <1>3 DEF LexerOK, PlacesOK, Fresh
<1>7. CursorOK'
  <2>1. (spent' \o peek'.text) \o scan'.text = Append(spent \o scan.text, c)
    <3>1. spent \in Str /\ scan.text \in Str /\ c \in Character
      BY <1>1, <1>2
    <3>2. spent \o Append(scan.text, c) = Append(spent \o scan.text, c) /\ spent \o <<>> = spent
      BY <3>1, StrFacts, StrAppend
    <3> QED BY <1>1, <1>2, <3>2
  <2>2. cursor.at = PlaceAfter(spent \o scan.text) /\ spent \o scan.text \in Str
    BY <1>2, StrFacts DEF LexerOK, CursorOK
  <2>3. cursor'.at = PlaceAfter((spent' \o peek'.text) \o scan'.text)
    BY <1>1, <2>1, <2>2, PlaceAfterAppend
  <2>4. ~HasToken'
    BY <1>2 DEF HasToken, NoToken
  <2> QED BY <1>2, <1>3, <2>3, <2>4 DEF LexerOK, CursorOK
<1>8. EveryCharacterOnce'
  <2>1. (spent \o scan.text) \o (<<c>> \o buffer') = (spent \o Append(scan.text, c)) \o buffer'
    <3>1. spent \in Str /\ scan.text \in Str /\ buffer' \in Str /\ c \in Character
      BY <1>1, <1>2
    <3> QED BY <3>1, StrShift
  <2>2. <<>> \o buffer = buffer /\ <<>> \o buffer' = buffer'
    BY <1>1, <1>2, StrFacts
  <2> QED BY <1>1, <1>2, <2>1, <2>2 DEF LexerOK, EveryCharacterOnce, Buffered
<1> QED BY <1>5, <1>6, <1>7, <1>8 DEF LexerOK

LEMMA EndsWithKeeps ==
  ASSUME LexerOK, NEW type, EndsWith(type)
  PROVE  LexerOK'
<1>1. PICK c :
      /\ c \in Character /\ buffer' \in Str /\ buffer = <<c>> \o buffer'
      /\ Longer = Append(scan.text, c) /\ Longer \in Str
      /\ cursor' \in [at : Position, prev : Position] /\ cursor'.at = Advanced(cursor.at, c)
  <2>1. LexerTypes /\ readRune
    BY DEF LexerOK, EndsWith
  <2>2. Longer = Append(scan.text, Head(buffer))
    BY DEF Longer
  <2> QED BY <2>1, <2>2, RuneRead
<1>2. /\ peek = NoToken /\ peek.text = <<>> /\ spent' = spent /\ Chars(given') = Chars(given)
      /\ scan.text \in Str /\ spent \in Str /\ buffer \in Str /\ scan.at # "idle"
      /\ scan.position \in Position
  BY DEF LexerOK, LexerTypes, PlacesOK, EndsWith, SameText, NoToken
<1>3. /\ peek' = [type |-> type, text |-> Longer, position |-> scan.position]
      /\ type \in TokenKind \ {"none", "eof"}
      /\ scan' = [scan EXCEPT !.at = "idle", !.text = <<>>] /\ scan'.text = <<>> /\ scan'.at = "idle"
  BY DEF LexerOK, LexerTypes, EndsWith, Produce
<1>4. <<>> \in Str
  BY DEF Str
<1>5. LexerTypes'
  <2>1. peek' \in LexerToken
    BY <1>1, <1>2, <1>3 DEF LexerToken
  <2>2. scan' \in [at : ScanPlace, text : Str, position : Position, item : Nat]
    BY <1>3, <1>4 DEF LexerOK, LexerTypes, ScanPlace, Fresh
  <2> QED BY <1>1, <1>2, <2>1, <2>2 DEF LexerOK, LexerTypes, EndsWith, SameText
<1>6. PlacesOK'
  BY <1>3 DEF PlacesOK
<1>7. CursorOK'
  <2>1. (spent' \o peek'.text) \o scan'.text = Append(spent \o scan.text, c)
    <3>1. spent \o Append(scan.text, c) = Append(spent \o scan.text, c)
      BY <1>1, <1>2, StrAppend
    <3>2. spent \o Longer \in Str
      BY <1>1, <1>2, StrFacts
    <3>3. (spent \o Longer) \o <<>> = spent \o Longer
      BY <1>4, <3>2, StrFacts
    <3> QED BY <1>1, <1>2, <1>3, <3>1, <3>3
  <2>2. cursor.at = PlaceAfter(spent \o scan.text) /\ spent \o scan.text \in Str
    BY <1>2, StrFacts DEF LexerOK, CursorOK
  <2>3. cursor'.at = PlaceAfter((spent' \o peek'.text) \o scan'.text)
    BY <1>1, <2>1, <2>2, PlaceAfterAppend
  <2> QED BY <1>2, <1>3, <2>3 DEF LexerOK, CursorOK
<1>8. EveryCharacterOnce'
  <2>1. (spent \o scan.text) \o (<<c>> \o buffer') = (spent \o Append(scan.text, c)) \o buffer'
    <3>1. spent \in Str /\ scan.text \in Str /\ buffer' \in Str /\ c \in Character
      BY <1>1, <1>2
    <3> QED BY <3>1, StrShift
  <2>2. <<>> \o buffer = buffer /\ spent \o <<>> = spent
    BY <1>1, <1>2, StrFacts
  <2>3. (spent \o Longer) \o buffer' = spent \o (Longer \o buffer')
    <3>1. spent \in Str /\ Longer \in Str /\ buffer' \in Str
      BY <1>1, <1>2, StrFacts
    <3> QED BY <3>1, StrAssociative
  <2>4. Chars(given) = (spent \o scan.text) \o buffer
    BY <1>2, <2>2 DEF LexerOK, EveryCharacterOnce, Buffered
  <2>5. Chars(given') = (spent' \o scan'.text) \o (peek'.text \o buffer')
    BY <1>1, <1>2, <1>3, <2>1, <2>2, <2>3, <2>4
  <2> QED BY <2>5 DEF EveryCharacterOnce, Buffered
<1> QED BY <1>5, <1>6, <1>7, <1>8 DEF LexerOK

LEMMA EndsBeforeKeeps ==
  ASSUME LexerOK, NEW type, EndsBefore(type)
  PROVE  LexerOK'
<1>1. /\ peek = NoToken /\ peek.text = <<>> /\ spent' = spent /\ Chars(given') = Chars(given)
      /\ scan.text \in Str /\ spent \in Str /\ buffer \in Str /\ scan.at # "idle"
      /\ scan.position \in Position /\ buffer' = buffer
  BY DEF LexerOK, LexerTypes, PlacesOK, EndsBefore, SameText, NoToken
<1>2. /\ peek' = [type |-> type, text |-> scan.text, position |-> scan.position]
      /\ type \in TokenKind \ {"none"} /\ (type = "eof" => scan.text = <<>>)
      /\ scan' = [scan EXCEPT !.at = "idle", !.text = <<>>] /\ scan'.text = <<>> /\ scan'.at = "idle"
      /\ cursor'.at = cursor.at
  BY DEF LexerOK, LexerTypes, EndsBefore, Produce
<1>3. <<>> \in Str
  BY DEF Str
<1>4. LexerTypes'
  <2>1. peek' \in LexerToken
    BY <1>1, <1>2 DEF LexerToken
  <2>2. scan' \in [at : ScanPlace, text : Str, position : Position, item : Nat]
    BY <1>2, <1>3 DEF LexerOK, LexerTypes, ScanPlace, Fresh
  <2> QED BY <1>1, <2>1, <2>2 DEF LexerOK, LexerTypes, EndsBefore, SameText
<1>5. PlacesOK'
  BY <1>2 DEF PlacesOK
<1>6. CursorOK'
  <2>1. spent \o <<>> = spent /\ spent \o scan.text \in Str
    BY <1>1, StrFacts
  <2>2. (spent \o scan.text) \o <<>> = spent \o scan.text
    BY <2>1, StrFacts
  <2>3. cursor'.at = PlaceAfter((spent' \o peek'.text) \o scan'.text)
    BY <1>1, <1>2, <2>1, <2>2 DEF LexerOK, CursorOK
  <2> QED BY <1>1, <1>2, <2>3 DEF LexerOK, CursorOK
<1>7. EveryCharacterOnce'
  <2>1. <<>> \o buffer = buffer /\ spent \o <<>> = spent
    BY <1>1, StrFacts
  <2>2. (spent \o scan.text) \o buffer = spent \o (scan.text \o buffer)
    BY <1>1, StrAssociative
  <2> QED BY <1>1, <1>2, <2>1, <2>2 DEF LexerOK, EveryCharacterOnce, Buffered
<1> QED BY <1>4, <1>5, <1>6, <1>7 DEF LexerOK

LEMMA MovesKeeps ==
  ASSUME LexerOK, NEW place, Moves(place)
  PROVE  LexerOK'
<1>1. /\ peek' = peek /\ peek = NoToken /\ spent' = spent /\ Chars(given') = Chars(given)
      /\ buffer' = buffer /\ cursor'.at = cursor.at /\ scan.at # "idle"
      /\ scan' = [scan EXCEPT !.at = place] /\ place \in ScanPlace \ {"idle"}
      /\ scan'.text = scan.text /\ scan'.position = scan.position /\ scan'.at = place
      /\ scan' \in [at : ScanPlace, text : Str, position : Position, item : Nat]
  BY DEF LexerOK, LexerTypes, PlacesOK, Moves, Go, SameText
<1>2. LexerTypes'
  BY <1>1 DEF LexerOK, LexerTypes, Moves, SameText
<1>3. PlacesOK'
  BY <1>1 DEF LexerOK, PlacesOK, Moves
<1>4. CursorOK'
  BY <1>1 DEF LexerOK, CursorOK, HasToken
<1>5. EveryCharacterOnce'
  BY <1>1 DEF LexerOK, EveryCharacterOnce, Buffered
<1> QED BY <1>2, <1>3, <1>4, <1>5 DEF LexerOK

\* What the buffer has was given and not yet read.
LEMMA Unread ==
  ASSUME LexerOK
  PROVE  Len(given) - Len(buffer) \in Nat
<1>1. given \in Seq(Item) /\ buffer \in Str /\ spent \in Str /\ scan.text \in Str /\ peek.text \in Str
  BY DEF LexerOK, LexerTypes, LexerToken
<1>2. Chars(given) = (spent \o scan.text) \o (peek.text \o buffer)
  BY DEF LexerOK, EveryCharacterOnce, Buffered
<1>3. PICK past, rest : /\ past \in Str /\ rest \in Str /\ rest = peek.text \o buffer
                        /\ Chars(given) = past \o rest
  <2>1. spent \o scan.text \in Str /\ peek.text \o buffer \in Str
    BY <1>1, StrFacts
  <2> QED BY <1>2, <2>1
<1>4. Len(rest) = Len(peek.text) + Len(buffer) /\ Len(peek.text) \in Nat /\ Len(buffer) \in Nat
  BY <1>1, <1>3, StrLength
<1>5. Len(Chars(given)) = Len(past) + Len(rest) /\ Len(past) \in Nat
  BY <1>3, StrLength
<1>6. Len(Chars(given)) <= Len(given) /\ Len(given) \in Nat
  BY <1>1, CharsFew
<1> QED BY <1>4, <1>5, <1>6

LEMMA PeekTokenKeeps ==
  ASSUME LexerOK, peekToken, UNCHANGED <<given, ended, spent>>
  PROVE  LexerOK'
<1>1. /\ peek = NoToken /\ scan.at = "idle" /\ scan.text = <<>> /\ peek.text = <<>>
      /\ spent \in Str /\ <<>> \in Str /\ cursor.at \in Position
      /\ peek' = peek /\ buffer' = buffer /\ cursor' = cursor
  BY DEF LexerOK, LexerTypes, PlacesOK, peekToken, Fresh, NoToken, Str
<1>2. scan' = [at |-> "start", text |-> <<>>, position |-> cursor.at, item |-> Len(given) - Len(buffer)]
  BY DEF peekToken
<1>3. cursor.at = PlaceAfter(spent)
  BY <1>1, StrFacts DEF LexerOK, CursorOK
<1>4. LexerTypes'
  <2>1. scan' \in [at : ScanPlace, text : Str, position : Position, item : Nat]
    BY <1>1, <1>2, Unread DEF ScanPlace, Fresh
  <2> QED BY <1>1, <2>1 DEF LexerOK, LexerTypes
<1>5. PlacesOK'
  BY <1>1, <1>2 DEF LexerOK, PlacesOK
<1>6. CursorOK'
  BY <1>1, <1>2, <1>3 DEF LexerOK, CursorOK, HasToken
<1>7. EveryCharacterOnce'
  BY <1>1, <1>2 DEF LexerOK, EveryCharacterOnce, Buffered
<1> QED BY <1>4, <1>5, <1>6, <1>7 DEF LexerOK

LEMMA ChunkKeeps ==
  ASSUME LexerOK, NEW chunk \in Str,
         given' = given \o chunk, buffer' = buffer \o chunk,
         UNCHANGED <<ended, cursor, scan, peek, spent>>
  PROVE  LexerOK'
<1>1. /\ given \in Seq(Item) /\ buffer \in Str /\ spent \in Str /\ scan.text \in Str
      /\ peek.text \in Str
  BY DEF LexerOK, LexerTypes, LexerToken
<1>2. LexerTypes'
  <2>1. given' \in Seq(Item) /\ buffer' \in Str
    BY <1>1, CharsConcat, StrFacts
  <2> QED BY <2>1 DEF LexerOK, LexerTypes
<1>3. PlacesOK'
  <2>1. CASE buffer = <<>>
    BY <2>1 DEF LexerOK, PlacesOK
  <2>2. CASE buffer # <<>>
    <3>1. buffer' # <<>> /\ Head(buffer') = Head(buffer)
      BY <1>1, <2>2 DEF Str
    <3> QED BY <3>1 DEF LexerOK, PlacesOK
  <2> QED BY <2>1, <2>2
<1>4. CursorOK'
  BY DEF LexerOK, CursorOK, HasToken
<1>5. EveryCharacterOnce'
  <2>1. Chars(given') = Chars(given) \o chunk
    BY <1>1, CharsConcat
  <2>2. spent \o scan.text \in Str /\ peek.text \o buffer \in Str
    BY <1>1, StrFacts
  <2>3. ((spent \o scan.text) \o (peek.text \o buffer)) \o chunk
          = (spent \o scan.text) \o ((peek.text \o buffer) \o chunk)
    BY <2>2, StrAssociative
  <2>4. (peek.text \o buffer) \o chunk = peek.text \o (buffer \o chunk)
    BY <1>1, StrAssociative
  <2> QED BY <2>1, <2>3, <2>4 DEF LexerOK, EveryCharacterOnce, Buffered
<1> QED BY <1>2, <1>3, <1>4, <1>5 DEF LexerOK

LEMMA TakeKeeps ==
  ASSUME LexerOK, HasToken, Take, UNCHANGED <<given, ended>>
  PROVE  LexerOK'
<1>1. /\ scan.at = "idle" /\ scan.text = <<>> /\ spent \in Str /\ peek.text \in Str /\ buffer \in Str
  BY DEF LexerOK, LexerTypes, LexerToken, PlacesOK, HasToken, NoToken, Fresh
<1>2. /\ peek' = NoToken /\ spent' = spent \o peek.text /\ peek'.text = <<>> /\ peek'.type = "none"
      /\ buffer' = buffer /\ cursor' = cursor /\ scan' = scan
  BY DEF Take, NoToken
<1>3. spent' \in Str /\ spent' \o <<>> = spent'
  BY <1>1, <1>2, StrFacts
<1>4. LexerTypes'
  <2>1. NoToken \in LexerToken
    BY DEF NoToken, LexerToken, TokenKind, Str, Origin, Position
  <2> QED BY <1>2, <1>3, <2>1 DEF LexerOK, LexerTypes
<1>5. PlacesOK'
  BY <1>1, <1>2 DEF LexerOK, PlacesOK
<1>6. CursorOK'
  BY <1>1, <1>2, <1>3 DEF LexerOK, CursorOK, HasToken
<1>7. EveryCharacterOnce'
  <2>1. (spent \o peek.text) \o buffer = spent \o (peek.text \o buffer)
    BY <1>1, StrAssociative
  <2>2. <<>> \o buffer = buffer /\ spent \o <<>> = spent
    BY <1>1, StrFacts
  <2> QED BY <1>1, <1>2, <1>3, <2>1, <2>2 DEF LexerOK, EveryCharacterOnce, Buffered
<1> QED BY <1>4, <1>5, <1>6, <1>7 DEF LexerOK

LEMMA UnchangedKeeps ==
  ASSUME LexerOK, UNCHANGED <<given, ended, buffer, cursor, scan, peek, spent>>
  PROVE  LexerOK'
BY DEF LexerOK, LexerTypes, PlacesOK, CursorOK, HasToken, EveryCharacterOnce, Buffered

-----------------------------------------------------------------------------
(***************************************************************************)
(* The move in each step of the lexer.                                     *)
(***************************************************************************)
LEMMA RuneUnread ==
  ASSUME LexerOK, unreadRune
  PROVE  buffer' = buffer /\ cursor'.at = cursor.at /\ cursor' \in [at : Position, prev : Position]
BY DEF LexerOK, LexerTypes, unreadRune, CursorPrev, CursorNext

\* The character at which a word begins is all that was read of it.
LEMMA FirstOfWord ==
  ASSUME LexerOK, scan.at \in Fresh
  PROVE  Longer = <<Head(buffer)>>
<1>1. scan.text = <<>>
  BY DEF LexerOK, PlacesOK
<1>2. Append(<<>>, Head(buffer)) = <<Head(buffer)>>
  OBVIOUS
<1> QED BY <1>1, <1>2 DEF Longer

Quiet == UNCHANGED <<given, ended, spent>>

LEMMA QuietIsSame ==
  ASSUME LexerOK, Quiet
  PROVE  SameText
BY DEF LexerOK, LexerTypes, Quiet, SameText

LEMMA ConsumeKeeps ==
  ASSUME LexerOK, Quiet, NEW class,
         NEW place \in {"whitespace", "newline", "number", "identifier", "comment"}, Consume(place, class)
  PROVE  LexerOK'
<1>1. place \in ScanPlace \ Fresh /\ place \in TokenKind \ {"none", "eof"} /\ scan.at = place
      /\ place # "idle"
  BY DEF Consume, ScanPlace, Fresh, TokenKind
<1>2. CASE Extend(place)
  <2>1. Shift(place)
    BY <1>1, <1>2 DEF Extend, Shift, Quiet
  <2> QED BY <2>1, ShiftKeeps
<1>3. CASE unreadRune /\ Produce(place, scan.text)
  <2>1. EndsBefore(place)
    BY <1>1, <1>3, RuneUnread, QuietIsSame DEF EndsBefore, Quiet
  <2> QED BY <2>1, EndsBeforeKeeps
<1> QED BY <1>2, <1>3 DEF Consume

LEMMA LexerStepKeeps ==
  ASSUME LexerOK, LexerStep, UNCHANGED spent
  PROVE  LexerOK' /\ scan.at # "idle" /\ UNCHANGED <<given, ended>>
<1>1. Quiet /\ SameText
  BY QuietIsSame DEF LexerStep, reader, Quiet
<1>2. CASE consumeSingle
  <2>1. PICK type : /\ Produce(type, <<Head(buffer)>>) /\ type \in {"colon", "comma", "delim", "illegal"}
                    /\ readRune
    BY <1>2 DEF consumeSingle, SingleType
  <2>2. scan.at = "start" /\ Longer = <<Head(buffer)>>
    BY <1>2, FirstOfWord DEF consumeSingle, Fresh
  <2>3. EndsWith(type)
    BY <1>1, <2>1, <2>2 DEF EndsWith, TokenKind, Quiet
  <2> QED BY <2>2, <2>3, EndsWithKeeps, <1>1 DEF Quiet
<1>3. CASE scanToken
  <2> DEFINE place == Place(Head(buffer))
  <2>1. scan.at = "start" /\ buffer # <<>> /\ unreadRune /\ Go(place) /\ place # "illegal"
    BY <1>3 DEF scanToken, Readable
  <2>2. /\ place \in ScanPlace \ {"idle"}
        /\ place \in {"//", "/*"} => Head(buffer) = "/"
    BY <2>1 DEF Place, ScanPlace, Fresh
  <2>3. scan.text = <<>>
    BY <2>1 DEF LexerOK, PlacesOK, Fresh
  <2> HIDE DEF place
  <2>4. Moves(place)
    BY <1>1, <2>1, <2>2, <2>3, RuneUnread DEF Moves, Quiet
  <2> QED BY <2>1, <2>4, MovesKeeps, <1>1 DEF Quiet
<1>4. CASE assert
  <2>1. scan.at \in {"//", "/*"} /\ scan.text = <<>> /\ buffer # <<>> /\ Head(buffer) = "/"
    BY <1>4 DEF LexerOK, PlacesOK, assert, Fresh
  <2>2. cursor \in [at : Position, prev : Position]
    BY DEF LexerOK, LexerTypes
  <2>3. CASE \E place \in {"comment", "/*", "block"} : Go(place) /\ UNCHANGED <<buffer, cursor>>
    <3>1. PICK place \in {"comment", "/*", "block"} : Go(place) /\ UNCHANGED <<buffer, cursor>>
      BY <2>3
    <3>2. Moves(place)
      BY <1>1, <2>1, <2>2, <3>1 DEF Moves, ScanPlace, Fresh, Quiet
    <3> QED BY <2>1, <3>2, MovesKeeps, <1>1 DEF Quiet
  <2>4. CASE IllegalSlash
    <3>1. Longer = <<"/">>
      BY <2>1, FirstOfWord DEF Fresh
    <3>2. EndsWith("illegal")
      BY <1>1, <2>1, <2>4, <3>1 DEF IllegalSlash, EndsWith, TokenKind, Quiet
    <3> QED BY <2>1, <3>2, EndsWithKeeps, <1>1 DEF Quiet
  <2> QED BY <1>4, <2>3, <2>4 DEF assert
<1>5. CASE consumeWhitespace
  BY <1>1, <1>5, ConsumeKeeps DEF consumeWhitespace, Consume, Quiet
<1>6. CASE consumeNewline
  BY <1>1, <1>6, ConsumeKeeps DEF consumeNewline, Consume, Quiet
<1>7. CASE consumeNumber
  BY <1>1, <1>7, ConsumeKeeps DEF consumeNumber, Consume, Quiet
<1>8. CASE consumeIdentifier
  BY <1>1, <1>8, ConsumeKeeps DEF consumeIdentifier, Consume, Quiet
<1>9. CASE consumeComment
  BY <1>1, <1>9, ConsumeKeeps DEF consumeComment, Consume, Quiet
<1>10. CASE consumeMultiLineComment
  <2>1. scan.at = "block"
    BY <1>10 DEF consumeMultiLineComment
  <2>2. CASE readRune /\ Produce("comment", Longer)
    <3>1. EndsWith("comment")
      BY <1>1, <2>1, <2>2 DEF EndsWith, TokenKind, Quiet
    <3> QED BY <2>1, <3>1, EndsWithKeeps, <1>1 DEF Quiet
  <2>3. CASE Extend("block")
    <3>1. Shift("block")
      BY <1>1, <2>1, <2>3 DEF Extend, Shift, ScanPlace, Fresh, Quiet
    <3> QED BY <2>1, <3>1, ShiftKeeps, <1>1 DEF Quiet
  <2> QED BY <1>10, <2>2, <2>3 DEF consumeMultiLineComment
<1>11. CASE consumeString
  <2>1. scan.at \in {"string", "escape"} /\ scan.at # "idle"
    BY <1>11 DEF consumeString
  <2>2. CASE readRune /\ Produce("string", Longer)
    <3>1. EndsWith("string")
      BY <1>1, <2>1, <2>2 DEF EndsWith, TokenKind, Quiet
    <3> QED BY <2>1, <3>1, EndsWithKeeps, <1>1 DEF Quiet
  <2>3. CASE \E place \in {"string", "escape"} : Extend(place)
    <3>1. PICK place \in {"string", "escape"} : Extend(place)
      BY <2>3
    <3>2. Shift(place)
      BY <1>1, <2>1, <3>1 DEF Extend, Shift, ScanPlace, Fresh, Quiet
    <3> QED BY <2>1, <3>2, ShiftKeeps, <1>1 DEF Quiet
  <2> QED BY <1>11, <2>2, <2>3 DEF consumeString
<1> QED
  BY <1>2, <1>3, <1>4, <1>5, <1>6, <1>7, <1>8, <1>9, <1>10, <1>11 DEF LexerStep

-----------------------------------------------------------------------------
(***************************************************************************)
(* The move in each answer of the reader.                                  *)
(***************************************************************************)
LEMMA ReadFailsKeeps ==
  ASSUME LexerOK, ReadFails, SameText, UNCHANGED spent
  PROVE  LexerOK' /\ scan.at # "idle"
<1>1. cursor \in [at : Position, prev : Position]
  BY DEF LexerOK, LexerTypes
<1>2. CASE scan.at = "//" /\ Go("/*") /\ UNCHANGED <<buffer, cursor>>
  <2>1. Moves("/*")
    BY <1>1, <1>2 DEF LexerOK, PlacesOK, Moves, ScanPlace, Fresh
  <2> QED BY <1>2, <2>1, MovesKeeps
<1>3. CASE scan.at = "/*" /\ IllegalSlash
  <2>1. Longer = <<"/">>
    BY <1>3, FirstOfWord DEF LexerOK, PlacesOK, Fresh
  <2>2. EndsWith("illegal")
    BY <1>3, <2>1 DEF IllegalSlash, EndsWith, TokenKind
  <2> QED BY <1>3, <2>2, EndsWithKeeps
<1>4. ASSUME NEW type \in TokenKind \ {"none"}, type = "eof" => scan.at = "start",
             Produce(type, scan.text), UNCHANGED <<buffer, cursor>>, scan.at # "idle"
      PROVE  LexerOK'
  <2>1. EndsBefore(type)
    BY <1>1, <1>4 DEF LexerOK, PlacesOK, EndsBefore, Fresh
  <2> QED BY <2>1, EndsBeforeKeeps
<1>5. CASE scan.at = "start" /\ Produce("eof", <<>>) /\ UNCHANGED <<buffer, cursor>>
  <2>1. scan.text = <<>> /\ "eof" \in TokenKind \ {"none"}
    BY <1>5 DEF LexerOK, PlacesOK, Fresh, TokenKind
  <2>2. Produce("eof", scan.text)
    BY <1>5, <2>1
  <2> QED BY <1>4, <1>5, <2>1, <2>2
<1>6. CASE scan.at = "block" /\ Produce("illegal", scan.text) /\ UNCHANGED <<buffer, cursor>>
  BY <1>4, <1>6 DEF TokenKind
<1>7. CASE scan.at = "escape" /\ Produce("string", scan.text) /\ UNCHANGED <<buffer, cursor>>
  BY <1>4, <1>7 DEF TokenKind
<1>8. CASE /\ scan.at \in {"whitespace", "newline", "number", "identifier", "comment", "string"}
           /\ Produce(scan.at, scan.text) /\ UNCHANGED <<buffer, cursor>>
  <2>1. scan.at \in TokenKind \ {"none", "eof"} /\ scan.at # "idle"
    BY <1>8 DEF TokenKind
  <2> QED BY <1>4, <1>8, <2>1
<1> QED BY <1>2, <1>3, <1>5, <1>6, <1>7, <1>8 DEF ReadFails

LEMMA ReaderKeeps ==
  ASSUME LexerOK, ReaderAnswers, UNCHANGED spent
  PROVE  LexerOK' /\ scan.at # "idle"
<1>1. given \in Seq(Item) /\ ended \in BOOLEAN /\ Chars(given) \in Str
  BY CharsType DEF LexerOK, LexerTypes
<1>2. CASE ReaderGives
  <2> DEFINE before == Chars(given)
             rests == {SubSeq(text, Len(before) + 1, Len(text)) :
                         text \in {text \in Streams : IsPrefix(before, text)}}
             chunks == UNION {{SubSeq(r, 1, n) : n \in {n \in 1 .. MaxChunk : n <= Len(r)}} : r \in rests}
  <2>1. PICK chunk \in chunks : given' = given \o chunk /\ buffer' = buffer \o chunk
    BY <1>2, ZenonT(30) DEF ReaderGives
  <2>2. chunk \in Str
    <3>1. rests \subseteq Str
      <4>1. Len(before) \in Nat
        BY <1>1, StrLength
      <4>2. ASSUME NEW text \in Str, NEW n \in Nat PROVE SubSeq(text, n + 1, Len(text)) \in Str
        BY DEF Str
      <4>3. \A text \in Streams : text \in Str
        BY StreamAssumption DEF Str, Character
      <4> HIDE DEF before
      <4> QED BY <4>1, <4>2, <4>3
    <3>2. ASSUME NEW r \in Str, NEW n \in 1 .. MaxChunk, n <= Len(r) PROVE SubSeq(r, 1, n) \in Str
      BY <3>2, StreamAssumption DEF Str
    <3>3. PICK r \in rests, n \in 1 .. MaxChunk : n <= Len(r) /\ chunk = SubSeq(r, 1, n)
      <4> HIDE DEF rests
      <4> QED OBVIOUS
    <3> HIDE DEF rests, chunks
    <3> QED BY <3>1, <3>2, <3>3
  <2>3. UNCHANGED <<ended, cursor, scan, peek, spent>>
    BY <1>2 DEF ReaderGives
  <2>4. scan.at # "idle"
    BY <1>2 DEF ReaderGives, Waiting
  <2> QED BY <2>1, <2>2, <2>3, <2>4, ChunkKeeps
<1>3. CASE ReaderErrs
  <2>1. given' = Append(given, Failure) /\ ended' = ended /\ ReadFails
    BY <1>3 DEF ReaderErrs
  <2>2. given' \in Seq(Item) /\ Chars(given') = Chars(given)
    <3>1. Failure \in Item /\ TextOfItem(Failure) = <<>>
      BY DEF Item, TextOfItem
    <3>2. given' \in Seq(Item)
      BY <1>1, <2>1, <3>1
    <3> QED BY <1>1, <2>1, <3>1, <3>2, CharsAppend, StrFacts
  <2> QED BY <1>1, <2>1, <2>2, ReadFailsKeeps DEF SameText
<1>4. CASE ReaderEnds
  BY <1>1, <1>4, ReadFailsKeeps DEF ReaderEnds, SameText
<1> QED BY <1>2, <1>3, <1>4 DEF ReaderAnswers

-----------------------------------------------------------------------------
(***************************************************************************)
(* The invariant of the calls.                                             *)
(***************************************************************************)
CallOK ==
  /\ call \in Call \union {"none"} /\ used \in Nat \union {Over}
  /\ answer.result \in {"none", "document", "EOF", "unexpected EOF", "error", "yes", "no"}
  /\ scan.at # "idle" => call # "none"
  /\ call = "Decode" /\ parser.at = "end" => scan.at = "idle"

\* The text from the ith token on.
TextFrom(ts, i) == FlattenSeq([k \in 1 .. Len(ts) - i + 1 |-> ts[k + i - 1].text])

TokensOK ==
  /\ tokens \in Seq(LexerToken)
  /\ call \in {"Decode", "DecodeMeta"} => \A i \in DOMAIN tokens :
       tokens[i].position = PlaceAfter(SubSeq(spent, 1, Len(spent) - Len(TextFrom(tokens, i))))

IInv == LexerOK /\ CallOK /\ TokensOK

LEMMA InitKeeps == Init => IInv
<1> SUFFICES ASSUME Init PROVE IInv
  OBVIOUS
<1>1. /\ given = <<>> /\ ended = FALSE /\ buffer = <<>> /\ spent = <<>> /\ tokens = <<>>
      /\ cursor = [at |-> Origin, prev |-> Origin] /\ peek = NoToken /\ parser = Start
      /\ scan = [at |-> "idle", text |-> <<>>, position |-> Origin, item |-> 0]
      /\ call = "none" /\ used = 0 /\ answer.result = "none"
  BY DEF Init, LexerInit
<1>2. <<>> \in Str /\ <<>> \in Seq(Item) /\ Origin \in Position /\ <<>> \o <<>> = <<>>
  BY StrFacts DEF Str, Origin, Position
<1>3. NoToken \in LexerToken
  BY <1>2 DEF NoToken, LexerToken, TokenKind
<1>4. LexerTypes
  BY <1>1, <1>2, <1>3 DEF LexerTypes, ScanPlace, Fresh
<1>5. PlacesOK
  BY <1>1 DEF PlacesOK, NoToken
<1>6. CursorOK
  BY <1>1, <1>2, PlaceAfterNothing DEF CursorOK, HasToken, NoToken
<1>7. EveryCharacterOnce
  BY <1>1, <1>2, CharsEmpty DEF EveryCharacterOnce, Buffered, NoToken
<1>8. CallOK
  BY <1>1 DEF CallOK
<1>9. TokensOK
  BY <1>1 DEF TokensOK
<1> QED BY <1>4, <1>5, <1>6, <1>7, <1>8, <1>9 DEF IInv, LexerOK

\* What a call that returns has used up is a number of items.
LEMMA ConsumedType ==
  ASSUME LexerOK, UNCHANGED <<given, buffer, scan>>
  PROVE  Consumed \in Nat \union {Over}
<1>1. Len(given) - Len(buffer) \in Nat /\ scan.item \in Nat
  BY Unread DEF LexerOK, LexerTypes
<1> QED BY <1>1 DEF Consumed

LEMMA OneTokenMore ==
  ASSUME NEW ts \in Seq(LexerToken), NEW t \in LexerToken
  PROVE  Append(ts, t) \in Seq(LexerToken)
OBVIOUS

LEMMA ReturnKeeps ==
  ASSUME IInv, peek # NoToken \/ (call = "Decode" /\ parser.at = "end"),
         (Take /\ HasToken /\ tokens' = Append(tokens, peek)) \/ (Keep /\ tokens' = tokens),
         NEW result \in {"document", "EOF", "unexpected EOF", "error", "yes", "no"},
         NEW text, Return(result, text)
  PROVE  IInv'
<1>1. scan.at = "idle" /\ peek \in LexerToken /\ tokens \in Seq(LexerToken)
  BY DEF IInv, CallOK, LexerOK, LexerTypes, PlacesOK, TokensOK
<1>2. LexerOK'
  <2>1. CASE Take /\ HasToken
    BY <2>1, TakeKeeps DEF IInv, Return
  <2>2. CASE Keep
    BY <2>2, UnchangedKeeps DEF IInv, Return, Keep
  <2> QED BY <2>1, <2>2
<1>3. UNCHANGED <<given, buffer, scan>>
  BY DEF Take, Keep, Return
<1>4. CallOK'
  <2>1. used' \in Nat \union {Over}
    BY <1>3, ConsumedType DEF IInv, Return
  <2>2. call' = "none" /\ answer'.result = result /\ scan'.at = "idle"
    BY <1>1, <1>3 DEF Return
  <2> QED BY <2>1, <2>2 DEF CallOK
<1>5. TokensOK'
  <2>1. Append(tokens, peek) \in Seq(LexerToken)
    BY <1>1, OneTokenMore
  <2>2. tokens' \in Seq(LexerToken)
    BY <1>1, <2>1
  <2> QED BY <2>2 DEF TokensOK, Return
<1> QED BY <1>2, <1>4, <1>5 DEF IInv

\* The text from a token on grows by the token that is taken.
LEMMA TextFromGrows ==
  ASSUME NEW ts \in Seq(LexerToken), NEW t \in LexerToken
  PROVE  /\ \A i \in 1 .. Len(ts) : /\ TextFrom(ts, i) \in Str
                                    /\ TextFrom(Append(ts, t), i) = TextFrom(ts, i) \o t.text
         /\ TextFrom(Append(ts, t), Len(ts) + 1) = t.text
<1> DEFINE N == Len(ts)
           us == Append(ts, t)
<1>1. /\ N \in Nat /\ Len(us) = N + 1 /\ us[N + 1] = t
      /\ \A i \in 1 .. N : us[i] = ts[i] /\ ts[i] \in LexerToken
  OBVIOUS
<1>2. t.text \in Str /\ \A i \in 1 .. N : ts[i].text \in Str
  BY <1>1 DEF LexerToken
<1> HIDE DEF N, us
<1>3. ASSUME NEW i \in 1 .. N
      PROVE  TextFrom(ts, i) \in Str /\ TextFrom(us, i) = TextFrom(ts, i) \o t.text
  <2> DEFINE n == N - i + 1
             texts == [k \in 1 .. n |-> ts[k + i - 1].text]
             more == [k \in 1 .. n + 1 |-> us[k + i - 1].text]
  <2>1. n \in Nat /\ \A k \in 1 .. n : k + i - 1 \in 1 .. N
    BY <1>1
  <2>2. texts \in Seq(Str) /\ Len(texts) = n
    <3> HIDE DEF n
    <3> QED BY <1>2, <2>1
  <2>3. TextFrom(ts, i) = FlattenSeq(texts)
    BY DEF TextFrom, N
  <2>4. TextFrom(us, i) = FlattenSeq(more)
    <3>1. Len(us) - i + 1 = n + 1
      BY <1>1
    <3> HIDE DEF n
    <3> QED BY <3>1 DEF TextFrom
  <2>5. more = Append(texts, t.text)
    <3>1. ASSUME NEW k \in 1 .. n + 1
          PROVE  us[k + i - 1].text = IF k = n + 1 THEN t.text ELSE texts[k]
      <4>1. CASE k = n + 1
        <5>1. k + i - 1 = N + 1
          BY <1>1, <4>1
        <5> QED BY <1>1, <4>1, <5>1
      <4>2. CASE k # n + 1
        <5>1. k \in 1 .. n /\ k + i - 1 \in 1 .. N
          BY <1>1, <4>2
        <5>2. texts[k] = ts[k + i - 1].text
          BY <5>1
        <5> QED BY <1>1, <4>2, <5>1, <5>2
      <4> QED BY <4>1, <4>2
    <3> HIDE DEF texts, n
    <3>2. Append(texts, t.text) = [k \in 1 .. n + 1 |-> IF k = n + 1 THEN t.text ELSE texts[k]]
      BY <1>2, <2>2
    <3> QED BY <3>1, <3>2
  <2> HIDE DEF texts, more, n
  <2>6. FlattenSeq(Append(texts, t.text)) = FlattenSeq(texts) \o t.text
    BY <1>2, <2>2, FlattenAppend DEF Str
  <2>7. FlattenSeq(texts) \in Str
    BY <2>2, FlattenType DEF Str
  <2> QED BY <2>3, <2>4, <2>5, <2>6, <2>7
<1>4. TextFrom(us, N + 1) = t.text
  <2> DEFINE more == [k \in 1 .. 1 |-> us[k + (N + 1) - 1].text]
  <2>1. TextFrom(us, N + 1) = FlattenSeq(more)
    <3>1. Len(us) - (N + 1) + 1 = 1
      BY <1>1
    <3> QED BY <3>1 DEF TextFrom
  <2>2. more = Append(<<>>, t.text)
    <3>1. \A k \in 1 .. 1 : us[k + (N + 1) - 1] = t
      BY <1>1
    <3> QED BY <3>1
  <2> HIDE DEF more
  <2>3. FlattenSeq(Append(<<>>, t.text)) = <<>> \o t.text
    <3>1. <<>> \in Seq(Seq(Character))
      OBVIOUS
    <3> QED BY <1>2, <3>1, FlattenAppend, FlattenEmpty DEF Str
  <2>4. <<>> \o t.text = t.text
    BY <1>2, StrFacts
  <2> QED BY <2>1, <2>2, <2>3, <2>4
<1> QED BY <1>3, <1>4 DEF N, us

LEMMA SubSeqOfLonger ==
  ASSUME NEW r \in Str, NEW s \in Str, NEW n \in Int, n <= Len(r)
  PROVE  SubSeq(r \o s, 1, n) = SubSeq(r, 1, n)
BY DEF Str

LEMMA SubSeqWhole ==
  ASSUME NEW r \in Str, NEW s \in Str
  PROVE  SubSeq(r \o s, 1, Len(r)) = r
BY DEF Str

LEMMA TakesTokenKeeps ==
  ASSUME IInv, TakesToken
  PROVE  IInv'
<1>1. HasToken /\ Take /\ UNCHANGED <<given, ended, call, answer, used>>
      /\ tokens' = Append(tokens, peek) /\ Decoding
  BY DEF TakesToken
<1>2. /\ peek \in LexerToken /\ tokens \in Seq(LexerToken) /\ spent \in Str /\ peek.text \in Str
      /\ peek.position = PlaceAfter(spent) /\ scan.at = "idle"
  BY <1>1 DEF IInv, LexerOK, LexerTypes, LexerToken, PlacesOK, CursorOK, TokensOK, HasToken, NoToken
<1>3. spent' = spent \o peek.text /\ scan' = scan
  BY <1>1 DEF Take
<1>4. LexerOK'
  BY <1>1, TakeKeeps DEF IInv
<1>5. CallOK'
  BY <1>1, <1>2, <1>3 DEF IInv, CallOK
<1>6. TokensOK'
  <2>1. tokens' \in Seq(LexerToken) /\ Len(tokens') = Len(tokens) + 1 /\ Len(tokens) \in Nat
    BY <1>1, <1>2
  <2>2. call \in {"Decode", "DecodeMeta"}
    BY <1>1 DEF Decoding
  <2>3. ASSUME NEW i \in 1 .. Len(tokens) + 1
        PROVE  tokens'[i].position
                 = PlaceAfter(SubSeq(spent', 1, Len(spent') - Len(TextFrom(tokens', i))))
    <3>1. Len(spent') = Len(spent) + Len(peek.text) /\ Len(spent) \in Nat /\ Len(peek.text) \in Nat
      BY <1>2, <1>3, StrLength
    <3>2. CASE i \in 1 .. Len(tokens)
      <4>1. PICK text \in Str : text = TextFrom(tokens, i) /\ TextFrom(tokens', i) = text \o peek.text
        BY <1>1, <1>2, <3>2, TextFromGrows
      <4>2. Len(text \o peek.text) = Len(text) + Len(peek.text) /\ Len(text) \in Nat
        BY <1>2, StrLength
      <4>3. Len(spent') - Len(TextFrom(tokens', i)) = Len(spent) - Len(text)
        BY <3>1, <4>1, <4>2
      <4>4. SubSeq(spent', 1, Len(spent) - Len(text)) = SubSeq(spent, 1, Len(spent) - Len(text))
        <5>1. Len(spent) - Len(text) \in Int /\ Len(spent) - Len(text) <= Len(spent)
          BY <3>1, <4>2
        <5> QED BY <1>2, <1>3, <5>1, SubSeqOfLonger
      <4>5. tokens[i].position = PlaceAfter(SubSeq(spent, 1, Len(spent) - Len(text)))
        BY <2>2, <3>2, <4>1 DEF IInv, TokensOK
      <4>6. tokens'[i] = tokens[i]
        BY <1>1, <1>2, <3>2
      <4> QED BY <4>3, <4>4, <4>5, <4>6
    <3>3. CASE i = Len(tokens) + 1
      <4>1. tokens'[i] = peek /\ TextFrom(tokens', i) = peek.text
        BY <1>1, <1>2, <3>3, TextFromGrows
      <4>2. Len(spent') - Len(peek.text) = Len(spent)
        BY <3>1
      <4>3. SubSeq(spent', 1, Len(spent)) = spent
        BY <1>2, <1>3, SubSeqWhole
      <4> QED BY <1>2, <4>1, <4>2, <4>3
    <3> QED BY <2>1, <3>2, <3>3
  <2>4. DOMAIN tokens' = 1 .. Len(tokens) + 1
    BY <2>1
  <2> QED BY <2>1, <2>3, <2>4 DEF TokensOK
<1> QED BY <1>4, <1>5, <1>6 DEF IInv

LEMMA NextKeeps == IInv /\ [Next]_vars => IInv'
<1> SUFFICES ASSUME IInv, [Next]_vars PROVE IInv'
  OBVIOUS
<1> USE DEF IInv
<1>1. ASSUME UNCHANGED <<call, tokens, parser, answer, spent, used>>, LexerOK', scan.at # "idle"
      PROVE  IInv'
  BY <1>1 DEF CallOK, TokensOK
<1>2. ASSUME NEW c \in Call, Begin(c) PROVE IInv'
  <2>1. UNCHANGED <<given, ended, buffer, cursor, scan, peek, spent, answer, used>> /\ call = "none"
        /\ call' = c
    BY <1>2 DEF Begin
  <2>2. LexerOK'
    BY <2>1, UnchangedKeeps
  <2>3. scan.at = "idle"
    BY <2>1 DEF CallOK
  <2>4. CallOK'
    BY <2>1, <2>3 DEF CallOK
  <2>5. TokensOK'
    <3>1. CASE c = "More"
      BY <1>2, <2>1, <3>1 DEF Begin, TokensOK
    <3>2. CASE c # "More"
      <4>1. tokens' = <<>>
        BY <1>2, <3>2 DEF Begin
      <4>2. <<>> \in Seq(LexerToken) /\ DOMAIN tokens' = {}
        BY <4>1
      <4> QED BY <4>1, <4>2 DEF TokensOK
    <3> QED BY <3>1, <3>2
  <2> QED BY <2>2, <2>4, <2>5
<1>3. CASE Peeks
  <2>1. peekToken /\ UNCHANGED <<given, ended, call, tokens, parser, answer, spent, used>>
    BY <1>3 DEF Peeks
  <2>2. LexerOK'
    BY <2>1, PeekTokenKeeps
  <2>3. call # "none" /\ ~(call = "Decode" /\ parser.at = "end")
    BY <1>3 DEF Peeks, Decoding, HasValue
  <2>4. CallOK' /\ TokensOK'
    BY <2>1, <2>3 DEF CallOK, TokensOK
  <2> QED BY <2>2, <2>4
<1>4. CASE TakesToken
  BY <1>4, TakesTokenKeeps
<1>5. CASE RefusesToken
  <2>1. HasToken /\ peek # NoToken /\ Return("error", <<>>)
    BY <1>5 DEF RefusesToken, HasToken, NoToken
  <2>2. (Take /\ HasToken /\ tokens' = Append(tokens, peek)) \/ (Keep /\ tokens' = tokens)
    BY <1>5 DEF RefusesToken
  <2> QED BY <2>1, <2>2, ReturnKeeps
<1>6. CASE ReachesEnd
  <2>1. peek # NoToken /\ Keep /\ tokens' = tokens
    <3>1. peek.type = "eof" /\ Keep /\ tokens' = tokens
      BY <1>6, Zenon DEF ReachesEnd
    <3> QED BY <3>1 DEF NoToken
  <2>2. Return(IF call = "Decode" /\ onlyConsumedTrivia THEN "EOF" ELSE "unexpected EOF", <<>>)
    BY <1>6, Zenon DEF ReachesEnd
  <2> QED BY <2>1, <2>2, ReturnKeeps
<1>7. CASE ReturnsDocument
  <2>1. /\ peek # NoToken \/ (call = "Decode" /\ parser.at = "end")
        /\ Keep /\ tokens' = tokens /\ Return("document", Literals)
    BY <1>7 DEF ReturnsDocument, HasValue, NoToken
  <2> QED BY <2>1, ReturnKeeps
<1>8. CASE MoreSkips
  <2>1. /\ HasToken /\ Take /\ call = "More"
        /\ UNCHANGED <<given, ended, call, tokens, parser, answer, used, scan>>
    BY <1>8 DEF MoreSkips, Take
  <2>2. LexerOK'
    BY <2>1, TakeKeeps
  <2>3. CallOK' /\ TokensOK'
    BY <2>1 DEF CallOK, TokensOK
  <2> QED BY <2>2, <2>3
<1>9. CASE MoreReturns
  <2>1. peek # NoToken /\ Keep /\ tokens' = tokens
        /\ Return(IF peek.type = "eof" \/ isCloseDelim(peek) THEN "no" ELSE "yes", <<>>)
    BY <1>9 DEF MoreReturns
  <2> QED BY <2>1, ReturnKeeps
<1>10. CASE LexerStep /\ UNCHANGED <<call, tokens, parser, answer, spent, used>>
  BY <1>1, <1>10, LexerStepKeeps
<1>11. CASE ReaderStep
  BY <1>1, <1>11, ReaderKeeps DEF ReaderStep
<1>12. CASE UNCHANGED vars
  <2>1. LexerOK'
    BY <1>12, UnchangedKeeps DEF vars
  <2> QED BY <1>12, <2>1 DEF CallOK, TokensOK, vars
<1> QED
  BY <1>2, <1>3, <1>4, <1>5, <1>6, <1>7, <1>8, <1>9, <1>10, <1>11, <1>12 DEF Next, DecoderStep

-----------------------------------------------------------------------------
(***************************************************************************)
(* The theorems.                                                           *)
(***************************************************************************)
LEMMA AlwaysIInv == Spec => []IInv
<1>1. IInv /\ [Next]_vars => IInv'
  BY NextKeeps
<1> QED BY <1>1, InitKeeps, PTL DEF Spec

\* The types, and that a scan runs only for a call that has no token yet (TypeOK).
THEOREM StreamTyped == Spec => []TypeOK
<1>1. IInv => TypeOK
  <2> SUFFICES ASSUME IInv PROVE TypeOK
    OBVIOUS
  <2>1. ToSet(given) \subseteq Item
    BY DEF IInv, LexerOK, LexerTypes, ToSet
  <2>2. ToSet(buffer) \subseteq Character
    BY DEF IInv, LexerOK, LexerTypes, Str, ToSet
  <2>3. scan.at # "idle" => peek = NoToken /\ call # "none"
    BY DEF IInv, LexerOK, PlacesOK, CallOK
  <2>4. ended \in BOOLEAN
    BY DEF IInv, LexerOK, LexerTypes
  <2> QED BY <2>1, <2>2, <2>3, <2>4 DEF IInv, CallOK, TypeOK, Item, Character
<1> QED BY <1>1, AlwaysIInv, PTL

\* However the reader cuts the stream into chunks, wherever it errs and whatever is called:
\* no character is lost, and none is taken twice.
THEOREM NothingLost == Spec => []EveryCharacterOnce
<1>1. IInv => EveryCharacterOnce
  BY DEF IInv, LexerOK
<1> QED BY <1>1, AlwaysIInv, PTL

\* The cursor, the token that is peeked at and the tokens of a call have the positions
\* that the text before them gives.
THEOREM PlacesTrue == Spec => []PositionsRight
<1>1. IInv => PositionsRight
  <2> SUFFICES ASSUME IInv PROVE PositionsRight
    OBVIOUS
  <2>1. /\ cursor.at = PlaceAfter(spent \o peek.text \o scan.text)
        /\ HasToken => peek.position = PlaceAfter(spent)
    BY DEF IInv, LexerOK, CursorOK
  <2>2. ASSUME Decoding, NEW i \in DOMAIN tokens
        PROVE  tokens[i].position
                 = PlaceAfter(SubSeq(spent, 1, Len(spent) - Len(TextFrom(tokens, i))))
    BY <2>2 DEF IInv, TokensOK, Decoding
  <2>3. ASSUME Decoding, NEW i \in DOMAIN tokens
        PROVE  LET behind == FlattenSeq([k \in 1 .. Len(tokens) - i + 1 |-> tokens[k + i - 1].text])
               IN  tokens[i].position = PlaceAfter(SubSeq(spent, 1, Len(spent) - Len(behind)))
    BY <2>2, <2>3 DEF TextFrom
  <2> QED BY <2>1, <2>3, Zenon DEF PositionsRight
<1> QED BY <1>1, AlwaysIInv, PTL
=============================================================================
