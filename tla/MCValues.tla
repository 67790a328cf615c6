------------------------------ MODULE MCValues ------------------------------
(***************************************************************************)
(* Struct types whose fields hide each other in every way, and types to    *)
(* read into, each with what the names of the documents below are for.     *)
(***************************************************************************)
EXTENDS Values

Goroutines == {"g", "h"}

Plain(name, type) ==
  [name |-> name, embedded |-> FALSE, exported |-> TRUE, tag |-> "", options |-> {}, type |-> type]
Tagged(f, tag) == [f EXCEPT !.tag = tag]
With(f, opts) == [f EXCEPT !.options = opts]
Embedded(type) == [Plain(type, type) EXCEPT !.embedded = TRUE]
Private(f) == [f EXCEPT !.exported = FALSE]

Struct(fields) == [kind |-> "struct", fields |-> fields]
Of(kind, elem) == [kind |-> kind, elem |-> elem]

\* What is embedded below.
Embeddable ==
  ("A" :> Struct(<<Plain("X", "int"), Plain("Y", "int")>>)) @@
  ("B" :> Struct(<<Plain("X", "int"), Tagged(Plain("Z", "int"), "Y")>>)) @@
  ("C" :> Struct(<<Embedded("A"), Plain("Z", "int")>>)) @@
  ("D" :> Struct(<<Embedded("A"), Tagged(Plain("V", "int"), "Z")>>)) @@
  ("hidden" :> Struct(<<Plain("X", "int"), Private(Plain("y", "int"))>>)) @@
  ("*A" :> Of("pointer", "A")) @@ ("*hidden" :> Of("pointer", "hidden")) @@
  ("*Loop" :> Of("pointer", "Loop")) @@ ("*Ring" :> Of("pointer", "Ring"))

Embedding ==
  ("Both" :> Struct(<<Embedded("A"), Embedded("B")>>)) @@
  ("Twice" :> Struct(<<Embedded("C"), Embedded("D"), Plain("W", "int")>>)) @@
  ("Nearer" :> Struct(<<Embedded("C"), Embedded("A"), Plain("Y", "int")>>)) @@
  ("Named" :> Struct(<<Tagged(Embedded("A"), "X"), Embedded("B"), Private(Embedded("int"))>>)) @@
  ("Loop" :> Struct(<<Embedded("*Loop"), Embedded("*Ring"), Plain("X", "int")>>)) @@
  ("Ring" :> Struct(<<Embedded("*Loop"), Plain("Y", "int"), Tagged(Plain("Z", "int"), "-")>>))

\* Types to read into.
Readable1 ==
  ("Pair" :> Struct(<<Plain("A", "int"), Plain("B", "string")>>)) @@
  ("Case" :> Struct(<<Plain("A", "int"), With(Tagged(Plain("Low", "string"), "a"), {"omitempty"})>>)) @@
  ("Slices" :> Struct(<<With(Plain("A", "[]Pair"), {"omitempty"}), With(Plain("B", "[]int"), {"omitzero"})>>)) @@
  ("Arrays" :> Struct(<<Plain("A", "[2]Pair"), Plain("B", "*int")>>)) @@
  ("Promoting" :> Struct(<<Embedded("*Pair"), Plain("B", "bool")>>)) @@
  ("Closed" :> Struct(<<Private(Embedded("*Pair")), Plain("a", "int")>>)) @@
  ("Quoting" :> Struct(<<With(Plain("A", "int"), {"string"}), With(Plain("B", "string"), {"string", "omitempty"})>>)) @@
  ("Pointing" :> Struct(<<With(Plain("A", "*int"), {"string"}), Plain("B", "bool")>>)) @@
  ("List" :> Struct(<<Plain("A", "int"), Plain("B", "*List")>>)) @@
  ("Open" :> Struct(<<Plain("A", "any"), Plain("B", "raw")>>)) @@
  ("Other" :> Struct(<<With(Plain("A", "Number"), {"omitzero"}), Plain("B", "func")>>)) @@
  ("map[string]Pair" :> [kind |-> "map", elem |-> "Pair", key |-> "string"]) @@
  ("map[int]*int" :> [kind |-> "map", elem |-> "*int", key |-> "int"]) @@
  ("map[bool]int" :> [kind |-> "map", elem |-> "int", key |-> "bool"])

Builtin ==
  ("bool" :> [kind |-> "bool"]) @@ ("int" :> [kind |-> "int"]) @@ ("string" :> [kind |-> "string"]) @@
  ("float64" :> [kind |-> "float"]) @@ ("Number" :> [kind |-> "number"]) @@ ("raw" :> [kind |-> "raw"]) @@
  ("any" :> [kind |-> "interface"]) @@ ("func" :> [kind |-> "func"]) @@
  ("[]any" :> Of("slice", "any")) @@ ("map[string]any" :> [kind |-> "map", elem |-> "any", key |-> "string"]) @@
  ("[]int" :> Of("slice", "int")) @@ ("[]Pair" :> Of("slice", "Pair")) @@
  ("[2]Pair" :> [kind |-> "array", elem |-> "Pair", length |-> 2]) @@
  ("*int" :> Of("pointer", "int")) @@ ("*Pair" :> Of("pointer", "Pair")) @@ ("*List" :> Of("pointer", "List"))

Types == Embeddable @@ Embedding @@ Readable1 @@ Builtin

AskedTypes == DOMAIN Embedding
Variables == DOMAIN Readable1 \ {"Pair"}

TagNames == {"X", "Y", "Z", "a"}
Names == <<"+1", "1", "A", "B", "a">>
Keys == ToSet(Names)
Folded == [n \in Keys |-> CASE n = "A" -> "a" [] n = "B" -> "b" [] OTHER -> n]

Ints == ("1" :> "1") @@ ("0x1" :> "1") @@ ("0" :> "0") @@ ("+1" :> "1")
Floats == ("1" :> "1") @@ ("0x1" :> "1") @@ ("0" :> "0") @@ ("1.0" :> "1")

\* The documents: objects of one or two members.
Number(x) == Leaf("number", x)
String(x) == Leaf("string", x)
Null == Leaf("null", "null")
Arr(items) == Node("array", "", <<>>, items)
Obj(names, items) == Node("object", "", names, items)

Scalars == {Number("1"), Number("1.0"), Number("1e999"), String("x"), String("1"), String("\"x\""),
            Leaf("bool", "true"), Null}
Literals == Scalars \union {Number("0"), Number("0x1")}
Small == {Null, Number("1"), String("x")}
One == {Obj(<<m>>, <<x>>) : m \in {"A", "B"}, x \in Small}
Two == {<<Obj(<<"A">>, <<x>>), Obj(<<"B">>, <<y>>)>> : x, y \in Small}
Inner == One \union {Arr(<<>>), Arr(<<Number("1")>>), Obj(<<>>, <<>>)}
            \union {Arr(<<x>>) : x \in One} \union {Arr(p \o <<Null>>) : p \in Two}

Trees ==
  {Null, Number("1"), Arr(<<>>)} \union {Obj(<<m>>, <<x>>) : m \in Keys, x \in Scalars}
    \union {Obj(<<"A">>, <<x>>) : x \in Inner} \union {Obj(<<"B">>, <<x>>) : x \in One}
    \union {Obj(<<"B">>, <<Arr(<<Number("1")>>)>>)}
    \union {Obj(p, <<x, y>>) : p \in {<<"A", "B">>, <<"B", "A">>, <<"A", "a">>, <<"1", "+1">>}, x, y \in Small}
=============================================================================
