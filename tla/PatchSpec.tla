----------------------------- MODULE PatchSpec -----------------------------
(***************************************************************************)
(* What a call on a document promises: RFC 6901 (pointers), RFC 6902       *)
(* (patches) and RFC 7396 (merge patches), all or nothing.                 *)
(*                                                                         *)
(* A JSON value is looked at as the set of its places.  A place is the     *)
(* list of tokens that leads to it, as in a pointer; at each there is a    *)
(* type, and a literal.  So the order of members is lost, and numbers with *)
(* the same quantity are the same.                                         *)
(***************************************************************************)
EXTENDS Pointer, FiniteSets

CONSTANTS Foreign,      \* number literals that the syntax of the document does not allow
          Quantity,     \* [number literal -> the same literal for all that are equal]
          Departures    \* the points on which roundtrip does not follow the RFCs

Points == {"self move",    \* moving a value onto itself: whether or not it exists
           "numerals",     \* any decimal integer is an array index
           "strange null", \* a null where the text of an operation should be is an empty text
           "unused from",  \* the member `from' is read where it means nothing
           "kept nulls"}   \* a new member of a merge keeps the nulls in it

VARIABLES value,  \* the document
          call    \* the last call, its result "running" until it returns

vars == <<value, call>>

-----------------------------------------------------------------------------
\* The decimal numeral of an array index (of one digit).
Index(i) == <<Digits[i + 1]>>

TokenOf(v, i) == IF v.type = "object" THEN v.names[i] ELSE Index(i - 1)

RECURSIVE Places(_)
Places(v) == {<<>>} \union UNION {{<<TokenOf(v, i)>> \o q : q \in Places(v.items[i])} : i \in DOMAIN v.items}

RECURSIVE There(_, _)
There(v, q) ==
  IF q = <<>>
  THEN [type |-> v.type, literal |-> IF v.type = "number" THEN Quantity[v.literal] ELSE v.literal]
  ELSE There(v.items[CHOOSE i \in DOMAIN v.items : TokenOf(v, i) = q[1]], Tail(q))

Flat(v) == [q \in Places(v) |-> There(v, q)]

RECURSIVE Writable(_)
Writable(v) ==
  /\ v.type # "invalid" /\ (v.type = "number" => v.literal \notin Foreign)
  /\ \A i \in DOMAIN v.items : Writable(v.items[i])

\* No value: what a call that must fail results in.
Nothing == <<>>
IsNothing(m) == DOMAIN m = {}

-----------------------------------------------------------------------------
(***************************************************************************)
(* Parts of a value m.                                                     *)
(***************************************************************************)
IsAt(m, q, type) == q \in DOMAIN m /\ m[q].type = type
Part(m, p) == [q \in {SubSeq(x, Len(p) + 1, Len(x)) : x \in {y \in DOMAIN m : IsPrefix(p, y)}} |-> m[p \o q]]
Without(m, p) == [q \in {x \in DOMAIN m : ~IsPrefix(p, x)} |-> m[q]]

\* m with the value g at place p.
With(m, p, g) ==
  LET new == {p \o q : q \in DOMAIN g}
      kept == {x \in DOMAIN m : ~IsPrefix(p, x)}
  IN  [q \in new \union kept |-> IF q \in new THEN g[SubSeq(q, Len(p) + 1, Len(q))] ELSE m[q]]

Length(m, a) == Cardinality({q \in DOMAIN m : Len(q) = Len(a) + 1 /\ IsPrefix(a, q)})

\* m with the items of array a from index k on moved by one, up or down.
Shifted(m, a, k, by) ==
  LET At_(q) == Len(q) > Len(a) /\ IsPrefix(a, q) /\ Numeral(q[Len(a) + 1]) >= k
      To(q) == IF At_(q) THEN [q EXCEPT ![Len(a) + 1] = Index(Numeral(@) + by)] ELSE q
      From(q) == CHOOSE x \in DOMAIN m : To(x) = q
  IN  [q \in {To(x) : x \in DOMAIN m} |-> m[From(q)]]

\* Tokens that are looked for in arrays, as RFC 6901 writes them.
Plain(m, tokens) ==
  LET Norm(t) == IF Atoi(t).ok /\ Atoi(t).value \in 0 .. 9 THEN Index(Atoi(t).value) ELSE t
      plain[i \in 0 .. Len(tokens)] ==
        IF i = 0 THEN <<>>
        ELSE Append(plain[i - 1], IF "numerals" \in Departures /\ IsAt(m, plain[i - 1], "array")
                                  THEN Norm(tokens[i]) ELSE tokens[i])
  IN  plain[Len(tokens)]

-----------------------------------------------------------------------------
(***************************************************************************)
(* RFC 6902, section 4.  A place p that is not the root: its parent, and   *)
(* where in it.                                                            *)
(***************************************************************************)
Add(m, p, g, strict) ==
  LET a == Front(p)
      k == IF Last(p) = <<"-">> THEN Length(m, a) ELSE Numeral(Last(p))
      Fits == Last(p) = <<"-">> \/ \E i \in 0 .. Length(m, a) : Index(i) = Last(p)
  IN  IF IsNothing(m) \/ IsNothing(g) THEN Nothing
      ELSE IF p = <<>> THEN (IF strict THEN Nothing ELSE g)
      ELSE IF IsAt(m, a, "object") /\ ~(strict /\ p \in DOMAIN m) THEN With(m, p, g)
      ELSE IF IsAt(m, a, "array") /\ Fits THEN With(Shifted(m, a, k, 1), Append(a, Index(k)), g)
      ELSE Nothing

Remove_(m, p) ==
  IF p = <<>> \/ p \notin DOMAIN m THEN Nothing
  ELSE IF IsAt(m, Front(p), "array") THEN Shifted(Without(m, p), Front(p), Numeral(Last(p)) + 1, -1)
  ELSE Without(m, p)

Replace_(m, p, g) == IF p \notin DOMAIN m \/ IsNothing(g) THEN Nothing ELSE With(m, p, g)

Move(m, f, p) ==
  IF "self move" \in Departures /\ f = p THEN m
  ELSE IF Plain(m, f) \notin DOMAIN m \/ (f # p /\ IsPrefix(f, p)) THEN Nothing
  ELSE IF f = p THEN m
  ELSE LET rest == Remove_(m, Plain(m, f))
       IN  IF IsNothing(rest) THEN Nothing ELSE Add(rest, Plain(rest, p), Part(m, Plain(m, f)), FALSE)

Copy(m, f, p) == IF f \in DOMAIN m THEN Add(m, p, Part(m, f), FALSE) ELSE Nothing
Test(m, p, g) == IF p \in DOMAIN m /\ Part(m, p) = g THEN m ELSE Nothing

Given(v) == IF Writable(v) THEN Flat(v) ELSE Nothing

\* An operation o, its pointers still texts.
Applied(m, o) ==
  LET path == parseJSONPointer(o.path)
      from == parseJSONPointer(o.from)
      p == Plain(m, path.tokens)
  IN  IF path.result # "ok" THEN Nothing
      ELSE CASE o.op = <<"add">> -> Add(m, p, Given(o.value), FALSE)
             [] o.op = <<"remove">> -> Remove_(m, p)
             [] o.op = <<"replace">> -> Replace_(m, p, Given(o.value))
             [] o.op = <<"test">> -> IF o.value.type = "invalid" THEN Nothing ELSE Test(m, p, Flat(o.value))
             [] o.op = <<"move">> /\ from.result = "ok" -> Move(m, from.tokens, path.tokens)
             [] o.op = <<"copy">> /\ from.result = "ok" -> Copy(m, Plain(m, from.tokens), p)
             [] OTHER -> Nothing

AppliedAll(m, list) ==
  LET after[i \in 0 .. Len(list)] ==
        IF i = 0 THEN m
        ELSE IF IsNothing(after[i - 1]) THEN Nothing ELSE Applied(after[i - 1], list[i])
  IN  after[Len(list)]

-----------------------------------------------------------------------------
(***************************************************************************)
(* A patch document: an array of objects with the members that their       *)
(* operations call for.                                                    *)
(***************************************************************************)
MemberOf(o, name) == o.items[CHOOSE i \in DOMAIN o.names : o.names[i] = name]

TextTypes == IF "strange null" \in Departures THEN {"string", "null"} ELSE {"string"}
SaysText(o, name) == Has(o, name) /\ MemberOf(o, name).type \in TextTypes
Text(o, name) == IF SaysText(o, name) /\ MemberOf(o, name).type = "string" THEN MemberOf(o, name).literal ELSE <<>>
IsPointer(o, name) == SaysText(o, name) /\ parseJSONPointer(Text(o, name)).result = "ok"

Operation(o) ==
  [op |-> Text(o, <<"op">>), path |-> Text(o, <<"path">>), from |-> Text(o, <<"from">>),
   value |-> IF Has(o, <<"value">>) THEN MemberOf(o, <<"value">>) ELSE Invalid]

IsOperation(o) ==
  /\ o.type = "object" /\ IsPointer(o, <<"path">>)
  /\ SaysText(o, <<"op">>)
  /\ \/ Text(o, <<"op">>) \in {<<"add">>, <<"replace">>, <<"test">>} /\ Has(o, <<"value">>)
     \/ Text(o, <<"op">>) \in {<<"move">>, <<"copy">>} /\ IsPointer(o, <<"from">>)
     \/ Text(o, <<"op">>) = <<"remove">>
  /\ "unused from" \in Departures /\ Has(o, <<"from">>) => SaysText(o, <<"from">>)

Patched(m, d) ==
  IF d.type = "array" /\ \A i \in DOMAIN d.items : IsOperation(d.items[i])
  THEN AppliedAll(m, [i \in DOMAIN d.items |-> Operation(d.items[i])])
  ELSE Nothing

-----------------------------------------------------------------------------
(***************************************************************************)
(* RFC 7396, section 2: patch p describes the objects of the result (its   *)
(* spine) and, where it is not an object, values that are put there or,    *)
(* if null, that must not be there.                                        *)
(***************************************************************************)
Ways(q) == {SubSeq(q, 1, k) : k \in 0 .. Len(q)}

MergedInto(m, p) ==
  LET Met(q) == q \in DOMAIN m /\ \A x \in Ways(q) \ {q} : m[x].type = "object"
      spine == {q \in DOMAIN p : \A x \in Ways(q) :
                  p[x].type = "object" /\ ("kept nulls" \in Departures /\ x # <<>> => Met(x))}
      ends == {q \in DOMAIN p \ spine : Ways(q) \ {q} \subseteq spine}
      put == {q \in DOMAIN p : \E e \in ends : IsPrefix(e, q) /\ (e = <<>> \/ p[e].type # "null")}
      kept == {q \in DOMAIN m : \A x \in Ways(q) : x \notin ends /\ (x \in spine => m[x].type = "object")}
  IN  [q \in spine \union put \union kept |-> IF q \in spine \union put THEN p[q] ELSE m[q]]

\* ReplaceAt, InsertAt and RemoveAt take names and indexes for tokens.
TokenOfSegment(m, at, s) ==
  CASE s.kind = "string" /\ IsAt(m, at, "object") -> s.name
    [] s.kind = "int" /\ IsAt(m, at, "array") /\ s.index \in 0 .. 9 -> Index(s.index)
    [] s.kind = "append" /\ IsAt(m, at, "array") -> <<"-">>
    [] OTHER -> <<"no", "such", "place">>

Tokens(m, segments) ==
  LET tokens[i \in 0 .. Len(segments)] ==
        IF i = 0 THEN <<>> ELSE Append(tokens[i - 1], TokenOfSegment(m, tokens[i - 1], segments[i]))
  IN  tokens[Len(segments)]

Edited(m, e) ==
  LET pointer == parseJSONPointer(e.pointer)
      p == IF e.by = "pointer" THEN Plain(m, pointer.tokens) ELSE Tokens(m, e.segments)
      Fits == \A i \in DOMAIN p : p[i] # <<"no", "such", "place">>
  IN  IF (e.by = "pointer" /\ pointer.result # "ok") \/ ~Fits THEN Nothing
      ELSE CASE e.op = "insert" -> Add(m, p, Given(e.value), TRUE)
             [] e.op = "replace" -> Replace_(m, p, Given(e.value))
             [] e.op = "remove" -> Remove_(m, p)

-----------------------------------------------------------------------------
\* What call c makes of the value at its receiver.
MadeOf(m, c) ==
  CASE c.kind = "patch document" -> Patched(m, c.args)
    [] c.kind = "patch list" -> AppliedAll(m, c.args)
    [] c.kind = "merge" -> IF Writable(c.args) THEN MergedInto(m, Flat(c.args)) ELSE Nothing
    [] c.kind = "edit" -> Edited(m, c.args)

\* What call c makes of document v; Nothing when it must fail.
Outcome(v, c) ==
  LET m == Flat(v)
      p == parseJSONPointer(c.receiver).tokens
      made == MadeOf(Part(m, p), c)
  IN  IF IsNothing(made) THEN Nothing ELSE With(m, p, made)

-----------------------------------------------------------------------------
Asked == call.result # "running" /\ call'.result = "running" /\ UNCHANGED value

\* A call that returns, whether it was seen to begin or not.
Returned(v, w, c) ==
  /\ c.result # "running"
  /\ LET outcome == Outcome(v, c)
     IN  IF c.live /\ ~IsNothing(outcome) THEN c.result = "ok" /\ Flat(w) = outcome
                                          ELSE c.result # "ok" /\ w = v

Answered ==
  /\ call.result = "running"
  /\ call' = [call EXCEPT !.result = call'.result]
  /\ Returned(value, value', call')

AnsweredAtOnce == call.result # "running" /\ Returned(value, value', call')

Init == call.result # "running"
Next == Asked \/ Answered \/ AnsweredAtOnce
Spec == Init /\ [][Next]_vars
=============================================================================
