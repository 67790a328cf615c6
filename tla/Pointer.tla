------------------------------ MODULE Pointer ------------------------------
(***************************************************************************)
(* json/path.go: places in a JSON value, named by Go path segments or by   *)
(* the tokens of an RFC 6901 pointer, and the edits at such places.        *)
(*                                                                         *)
(* A text is a sequence of characters; so is a name, and a token of a      *)
(* pointer.  A word of which no character matters may be one character.    *)
(*                                                                         *)
(* Each operator gives a result, "ok" or the reason why not, and with it   *)
(* what the method returns or what the value becomes.                      *)
(***************************************************************************)
EXTENDS JSON, Number

Positions(s) == [i \in DOMAIN s |-> i]

-----------------------------------------------------------------------------
(***************************************************************************)
(* Pointers.                                                               *)
(***************************************************************************)
\* A fault: the two escapes are mixed up.
UnescapedSwapped(t) ==
  LET kept == SelectSeq(Positions(t), LAMBDA i : t[i] # "~")
  IN  [k \in DOMAIN kept |->
         LET i == kept[k]
         IN  IF i > 1 /\ t[i - 1] = "~" THEN (IF t[i] = "0" THEN "/" ELSE "~") ELSE t[i]]

\* A tilde and the digit after it stand for one character.
Unescaped(t) ==
  LET kept == SelectSeq(Positions(t), LAMBDA i : t[i] # "~")
  IN  [k \in DOMAIN kept |->
         LET i == kept[k]
         IN  IF i > 1 /\ t[i - 1] = "~" THEN (IF t[i] = "0" THEN "~" ELSE "/") ELSE t[i]]

unescapeJSONPointerToken(t) ==
  IF \A i \in DOMAIN t : t[i] = "~" => i < Len(t) /\ t[i + 1] \in {"0", "1"}
  THEN [result |-> "ok", token |-> Unescaped(t)]
  ELSE [result |-> "invalid pointer", token |-> <<>>]

\* What stands between the slashes, each with a slash in front.
Split(text) ==
  LET slashes == SelectSeq(Positions(text), LAMBDA i : text[i] = "/")
      End(k) == IF k = Len(slashes) THEN Len(text) ELSE slashes[k + 1] - 1
  IN  [k \in DOMAIN slashes |-> SubSeq(text, slashes[k] + 1, End(k))]

parseJSONPointer(text) ==
  LET raw == Split(text)
      tokens == [k \in DOMAIN raw |-> unescapeJSONPointerToken(raw[k])]
  IN  IF (text # <<>> => text[1] = "/") /\ \A k \in DOMAIN raw : tokens[k].result = "ok"
      THEN [result |-> "ok", tokens |-> [k \in DOMAIN raw |-> tokens[k].token]]
      ELSE [result |-> "invalid pointer", tokens |-> <<>>]

-----------------------------------------------------------------------------
pointerArrayIndex(token) ==
  LET n == Atoi(token)
  IN  CASE token = <<"-">> -> [result |-> "invalid append", index |-> 0]
        [] token # <<"-">> /\ n.ok /\ n.value >= 0 -> [result |-> "ok", index |-> n.value]
        [] OTHER -> [result |-> "invalid segment", index |-> 0]

-----------------------------------------------------------------------------
(***************************************************************************)
(* One step into a value: the position of the child, counted from 1.       *)
(***************************************************************************)
Found(i) == [result |-> "ok", at |-> i]
NotFoundFor(reason) == [result |-> reason, at |-> 0]

StepByName(v, name) ==
  IF v.type # "object" THEN NotFoundFor("wrong type")
  ELSE IF Has(v, name) THEN Found(IndexOf(v, name)) ELSE NotFoundFor("not found")

StepByIndex(v, index) ==
  IF v.type # "array" THEN NotFoundFor("wrong type")
  ELSE IF index \in 0 .. Len(v.items) - 1 THEN Found(index + 1) ELSE NotFoundFor("out of range")

pointerToken(v, token) ==
  LET i == pointerArrayIndex(token)
  IN  IF v.type # "array" THEN StepByName(v, token)
      ELSE IF i.result = "ok" THEN StepByIndex(v, i.index) ELSE NotFoundFor(i.result)

\* A segment is a string, an int, Append, or a value of another type.
pathSegment(v, segment) ==
  CASE segment.kind = "string" -> StepByName(v, segment.name)
    [] segment.kind = "int" -> StepByIndex(v, segment.index)
    [] segment.kind = "append" -> NotFoundFor("invalid append")
    [] segment.kind = "other" -> NotFoundFor("invalid segment")

\* Step by step from v: the path to what is found there, or the reason of the first failure.
Follow(v, steps, Step(_, _)) ==
  LET at[i \in 0 .. Len(steps)] ==
        IF i = 0 THEN [result |-> "ok", path |-> <<>>, value |-> v]
        ELSE LET up == at[i - 1]
                 s == Step(up.value, steps[i])
             IN  IF up.result # "ok" THEN up
                 ELSE IF s.result # "ok" THEN [up EXCEPT !.result = s.result]
                 ELSE [result |-> "ok", path |-> Append(up.path, s.at), value |-> up.value.items[s.at]]
  IN  at[Len(steps)]

NodeAt(v, segments) == Follow(v, segments, pathSegment)

\* A fault: /ab counts as a place below /a.
BelowByText(path, from) == IsPrefix(from, path)

\* strings.HasPrefix(path, from+"/"): is path a place below from?
Below(path, from) == IsPrefix(from \o <<"/">>, path)

JSONPointer(v, pointer) ==
  LET p == parseJSONPointer(pointer)
  IN  IF p.result = "ok" THEN Follow(v, p.tokens, pointerToken)
      ELSE [result |-> p.result, path |-> <<>>, value |-> v]

-----------------------------------------------------------------------------
(***************************************************************************)
(* Edits.  At the parent of the place an edit is a call of json/meta.go,   *)
(* which JSON!Result and JSON!Effect answer.                               *)
(***************************************************************************)
OnField == [insert |-> "insert field", replace |-> "replace field", remove |-> "remove field"]
OnValue == [insert |-> "insert value", replace |-> "replace value", remove |-> "remove value"]

Ask(op, name, index, given) ==
  [result |-> "ok", call |-> [op |-> op, name |-> name, index |-> index, given |-> given]]
Refuse(reason) == [result |-> reason]

pointerCall(op, v, token, given) ==
  LET i == pointerArrayIndex(token)
  IN  CASE v.type = "object" -> Ask(OnField[op], token, 0, given)
        [] v.type = "array" ->
             IF op = "insert" /\ token = <<"-">> THEN Ask("insert value", <<>>, Len(v.items) + 1, given)
             ELSE IF i.result = "ok" THEN Ask(OnValue[op], <<>>, i.index + 1, given)
             ELSE Refuse(i.result)
        [] OTHER -> Refuse("wrong type")

segmentCall(op, v, segment, given) ==
  CASE segment.kind = "string" -> Ask(OnField[op], segment.name, 0, given)
    [] segment.kind = "int" -> Ask(OnValue[op], <<>>, segment.index + 1, given)
    [] segment.kind = "append" ->
         IF op = "insert" THEN Ask("insert value", <<>>, Len(v.items) + 1, given)
                          ELSE Refuse("invalid append")
    [] segment.kind = "other" -> Refuse("invalid segment")

Unchanging(v, reason) == [result |-> reason, value |-> v]

\* The call on what is found at a place of v.
Answer(v, place, call) ==
  LET r == Result(call, place.value)
  IN  [result |-> r, value |-> IF r = "ok" THEN Put(v, place.path, Effect(call, place.value)) ELSE v]

\* An edit at a place that is not v itself.
EditBelow(v, steps, Step(_, _), Call(_, _)) ==
  LET parent == Follow(v, Front(steps), Step)
      c == Call(parent.value, Last(steps))
  IN  IF parent.result # "ok" THEN Unchanging(v, parent.result)
      ELSE IF c.result # "ok" THEN Unchanging(v, c.result)
      ELSE Answer(v, parent, c.call)

Here(v) == [path |-> <<>>, value |-> v]

EditHere(op, v, given) ==
  IF op = "replace" THEN Answer(v, Here(v), [op |-> "replace", given |-> given])
                    ELSE Unchanging(v, "empty path")

\* ReplaceAt, InsertAt and RemoveAt.
EditAt(op, v, segments, given) ==
  IF segments = <<>> THEN EditHere(op, v, given)
  ELSE EditBelow(v, segments, pathSegment, LAMBDA u, s : segmentCall(op, u, s, given))

\* ReplaceJSONPointer, InsertJSONPointer and RemoveJSONPointer.
EditPointer(op, v, pointer, given) ==
  LET p == parseJSONPointer(pointer)
  IN  IF p.result # "ok" THEN Unchanging(v, p.result)
      ELSE IF p.tokens = <<>> THEN EditHere(op, v, given)
      ELSE EditBelow(v, p.tokens, pointerToken, LAMBDA u, t : pointerCall(op, u, t, given))
=============================================================================
