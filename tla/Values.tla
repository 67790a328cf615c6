------------------------------- MODULE Values -------------------------------
(***************************************************************************)
(* Reading JSON values into Go values and writing Go values as JSON values *)
(* (json/unmarshal.go, json/encoder.go, json/marshal.go).  A JSON value is *)
(* a tree of module JSON, in which the literal of a string is what the     *)
(* string says: quoting is module Strings.                                 *)
(*                                                                         *)
(* A Go value has its type; nil or not; a text when it is a bool, a number *)
(* or a string; its elements, fields, or what it points to or holds; and   *)
(* the entries of a map.                                                   *)
(***************************************************************************)
EXTENDS Fields, JSON

CONSTANTS Fold,         \* names without the difference of upper and lower case
          IntOf,        \* number literals to the int they mean, for those that mean one that fits
          FloatOf,      \* number literals to the float64 they mean, as it is written
          Scalar,       \* the JSON scalars that a text may be
          Ascending,    \* all names in the order of their bytes
          Declared,     \* the types of variables
          Settings,     \* the settings of the decoder
          Tree          \* the JSON values to read

VARIABLES variable,     \* the Go value that is read into
          options       \* UseNumber, DisallowUnknownFields

vars == <<cache, search, calls, variable, options>>

Nilable == {"func", "interface", "map", "pointer", "slice", "raw"}

Value(t, text, items) ==
  [type |-> t, kind |-> Kind(t), nil |-> FALSE, text |-> text, items |-> items, entries |-> <<>>]

RECURSIVE Zero(_)
Zero(t) ==
  LET kind == Kind(t)
      text == CASE kind = "bool" -> "false" [] kind = "int" -> "0" [] OTHER -> ""
      items == CASE kind = "struct" -> [i \in DOMAIN Type[t].fields |-> Zero(Type[t].fields[i].type)]
                 [] kind = "array" -> [i \in 1 .. Type[t].length |-> Zero(Type[t].elem)]
                 [] OTHER -> <<>>
  IN  [Value(t, text, items) EXCEPT !.nil = kind \in Nilable]

\* A value that is no longer nil, with what it points to or holds.
Holding(v, x) == [v EXCEPT !.nil = FALSE, !.items = <<x>>]

Allocated(v) == IF v.nil THEN Holding(v, Zero(Type[v.type].elem)) ELSE v


-----------------------------------------------------------------------------
(***************************************************************************)
(* A field in a struct value, at an index that leads through the embedded  *)
(* structs and, when they are there, through pointers to them.             *)
(***************************************************************************)
structFieldIndexes(t) == cache[t].fields

\* A fault: case never makes a difference.
fieldIndexFolded(fields, key) == SelectInSeq(fields, LAMBDA f : Fold[f.name] = Fold[key])

\* 0 when no field is meant.
fieldIndex(fields, key) ==
  LET exact == SelectInSeq(fields, LAMBDA f : f.name = key)
  IN  IF exact # 0 THEN exact ELSE SelectInSeq(fields, LAMBDA f : Fold[f.name] = Fold[key])

IsPointer(v) == v.kind = "pointer"
Exported(v, i) == Type[v.type].fields[i].exported

\* Whether nothing on the way to the field is nil.
RECURSIVE IsThere(_, _)
IsThere(v, index) ==
  LET x == v.items[Head(index)]
  IN  Len(index) = 1 \/ (~(IsPointer(x) /\ x.nil)
                         /\ IsThere(IF IsPointer(x) THEN x.items[1] ELSE x, Tail(index)))

RECURSIVE Field(_, _)
Field(v, index) ==
  LET x == v.items[Head(index)]
  IN  IF Len(index) = 1 THEN x ELSE Field(IF IsPointer(x) THEN x.items[1] ELSE x, Tail(index))

-----------------------------------------------------------------------------
(***************************************************************************)
(* Reading a tree into a value gives the value and whether there was no    *)
(* error; what was read before an error stays.                             *)
(***************************************************************************)
Done(v) == [ok |-> TRUE, v |-> v]
Failed(v) == [ok |-> FALSE, v |-> v]

\* The text of a scalar, and what is read of a text.
TextOf(n) == IF n.type = "string" THEN "\"" \o n.literal \o "\"" ELSE n.literal
quotedNode(n) == IF n.type = "string" THEN {s \in Scalar : TextOf(s) = n.literal} ELSE {}

True == {"1", "t", "T", "TRUE", "true", "True"}
False == {"0", "f", "F", "FALSE", "false", "False"}

\* The literal that a node begins with.
Beginning(n) ==
  CASE n.type = "object" -> "{" [] n.type = "array" -> "[" [] OTHER -> TextOf(n)

ParseBool(v, literal) ==
  IF literal \in True THEN Done([v EXCEPT !.text = "true"])
  ELSE IF literal \in False THEN Done([v EXCEPT !.text = "false"]) ELSE Failed(v)

RECURSIVE decodeAny(_, _)
decodeAny(n, opts) ==
  LET inner == [i \in DOMAIN n.items |-> decodeAny(n.items[i], opts)]
      Dynamic(t, text, items) == Holding(Zero("any"), Value(t, text, items))
      useNumber == "UseNumber" \in opts
  IN  [ok |-> /\ \A i \in DOMAIN inner : inner[i].ok
              /\ n.type = "number" => useNumber \/ n.literal \in DOMAIN FloatOf,
       v |-> CASE n.type = "object" ->
                    Holding(Zero("any"), [Value("map[string]any", "", <<>>) EXCEPT
                      !.entries = [m \in ToSet(n.names) |-> inner[IndexOf(n, m)].v]])
               [] n.type = "array" -> Dynamic("[]any", "", [i \in DOMAIN inner |-> inner[i].v])
               [] n.type = "number" /\ useNumber -> Dynamic("Number", n.literal, <<>>)
               [] n.type = "number" /\ n.literal \in DOMAIN FloatOf -> Dynamic("float64", FloatOf[n.literal], <<>>)
               [] n.type \in {"string", "bool"} -> Dynamic(n.type, n.literal, <<>>)
               [] OTHER -> Zero("any")]

RECURSIVE decodeValue(_, _, _)

decodeSlice(v, n, opts) ==
  LET elements == [i \in DOMAIN n.items |-> decodeValue(Zero(Type[v.type].elem), n.items[i], opts)]
  IN  IF n.type = "array" /\ \A i \in DOMAIN elements : elements[i].ok
      THEN Done([v EXCEPT !.nil = FALSE, !.items = [i \in DOMAIN elements |-> elements[i].v]])
      ELSE Failed(v)

\* A fault: the elements keep what they held.
Untouched(v) == v

Zeroed(v) == [v EXCEPT !.items = [i \in DOMAIN @ |-> Zero(Type[v.type].elem)]]

\* The elements that have no place in the array are left out.
decodeArray(v, n, opts) ==
  LET Next1(r, i) ==
        IF ~r.ok THEN r
        ELSE LET e == decodeValue(r.v.items[i], n.items[i], opts)
             IN  [ok |-> e.ok, v |-> [r.v EXCEPT !.items[i] = e.v]]
      placed == [i \in DOMAIN v.items \cap DOMAIN n.items |-> i]
  IN  IF n.type = "array" THEN FoldLeft(Next1, Done(Zeroed(v)), placed) ELSE Failed(v)

\* The key that a name is, as a set: empty when it is none.
decodeMapKey(t, name) ==
  IF Kind(Type[t].key) = "string" THEN {name}
  ELSE IF name \in DOMAIN IntOf THEN {IntOf[name]} ELSE {}

mapKeyTypeSupported(t) == Kind(Type[t].key) \in {"string", "int"}

\* A fault: the entry is made before its value is known to be good.
EntryAnyway(r, key, e) == [ok |-> e.ok, v |-> [r.v EXCEPT !.entries = (key :> e.v) @@ @]]

SetMapIndex(r, key, e) ==
  IF e.ok THEN Done([r.v EXCEPT !.entries = (key :> e.v) @@ @]) ELSE Failed(r.v)

decodeMap(v, n, opts) ==
  LET Member(r, i) ==
        IF ~r.ok \/ decodeMapKey(v.type, n.names[i]) = {} THEN Failed(r.v)
        ELSE SetMapIndex(r, CHOOSE k \in decodeMapKey(v.type, n.names[i]) : TRUE,
                         decodeValue(Zero(Type[v.type].elem), n.items[i], opts))
  IN  IF n.type = "object" /\ mapKeyTypeSupported(v.type)
      THEN FoldLeft(Member, Done([v EXCEPT !.nil = FALSE]), [i \in DOMAIN n.names |-> i])
      ELSE Failed(v)

\* The node for a member, or for a quoted one the node that its text is.
NodesFor(f, n) == IF "string" \in f.options THEN quotedNode(n) ELSE {n}

Element(v, i, e) == [ok |-> e.ok, v |-> [v EXCEPT !.items[i] = e.v]]
Pointee(v, e) == [ok |-> e.ok, v |-> Holding(v, e.v)]

\* A node read into the field that fieldByIndex finds, which allocates the
\* pointers on the way, as far as they can be set.
RECURSIVE IntoField(_, _, _, _)
IntoField(v, index, nodes, opts) ==
  LET i == Head(index)
      x == v.items[i]
  IN  IF Len(index) = 1
      THEN IF nodes = {} THEN Failed(v)
           ELSE Element(v, i, decodeValue(x, CHOOSE n \in nodes : TRUE, opts))
      ELSE IF ~IsPointer(x) THEN Element(v, i, IntoField(x, Tail(index), nodes, opts))
      ELSE IF x.nil /\ ~Exported(v, i) THEN Failed(v)
      ELSE Element(v, i, Pointee(x, IntoField(Allocated(x).items[1], Tail(index), nodes, opts)))

\* A fault: after an error the other members are still read.
GoingOn(v, fields, n, opts) ==
  LET Member(r, i) ==
        LET k == fieldIndex(fields, n.names[i])
            e == IntoField(r.v, fields[k].index, NodesFor(fields[k], n.items[i]), opts)
        IN  IF k = 0 THEN [r EXCEPT !.ok = @ /\ "DisallowUnknownFields" \notin opts]
            ELSE [e EXCEPT !.ok = @ /\ r.ok]
  IN  FoldLeft(Member, Done(v), [i \in DOMAIN n.names |-> i])

Members(v, fields, n, opts) ==
  LET Member(r, i) ==
        LET k == fieldIndex(fields, n.names[i])
        IN  IF ~r.ok THEN r
            ELSE IF k = 0 THEN [r EXCEPT !.ok = "DisallowUnknownFields" \notin opts]
            ELSE IntoField(r.v, fields[k].index, NodesFor(fields[k], n.items[i]), opts)
  IN  FoldLeft(Member, Done(v), [i \in DOMAIN n.names |-> i])

decodeStruct(v, n, opts) ==
  IF n.type = "object" THEN Members(v, structFieldIndexes(v.type), n, opts) ELSE Failed(v)

\* RawMessage is the only type with methods of its own here.
IsUnmarshaler(v) == v.kind = "raw" \/ (IsPointer(v) /\ Kind(Type[v.type].elem) = "raw")

UnmarshalJSON(v, n) == IF IsPointer(v) THEN Holding(v, Holding(v.items[1], n)) ELSE Holding(v, n)

IntoKind(v, n, opts) ==
  LET Text(is, text) == IF is THEN Done([v EXCEPT !.text = text]) ELSE Failed(v)
      Converted(f) == IF n.type = "number" /\ n.literal \in DOMAIN f THEN Done([v EXCEPT !.text = f[n.literal]])
                                                                  ELSE Failed(v)
      Replacing(e) == IF e.ok THEN e ELSE Failed(v)
      kind == v.kind
  IN  CASE kind = "pointer" -> Pointee(v, decodeValue(v.items[1], n, opts))
        [] kind = "interface" -> Replacing(decodeAny(n, opts))
        [] kind = "bool" -> ParseBool(v, Beginning(n))
        [] kind \in {"string", "number"} -> Text(n.type = kind, n.literal)
        [] kind = "int" -> Converted(IntOf)
        [] kind = "float" -> Converted(FloatOf)
        [] kind = "slice" -> decodeSlice(v, n, opts)
        [] kind = "array" -> decodeArray(v, n, opts)
        [] kind = "map" -> decodeMap(v, n, opts)
        [] kind = "struct" -> decodeStruct(v, n, opts)
        [] kind = "func" -> Failed(v)

\* A nil pointer is allocated before anything else is looked at.
decodeValue(v, n, opts) ==
  IF IsPointer(v) /\ v.nil THEN decodeValue(Allocated(v), n, opts)
  ELSE IF IsUnmarshaler(v) THEN Done(UnmarshalJSON(v, n))
  ELSE IF n.type = "null" THEN Done(IF v.kind \in Nilable THEN Zero(v.type) ELSE v)
  ELSE IntoKind(v, n, opts)

-----------------------------------------------------------------------------
(***************************************************************************)
(* Writing a value gives a tree, or an error.                              *)
(***************************************************************************)
Node(type, literal, names, items) == [type |-> type, literal |-> literal, names |-> names, items |-> items]
Leaf(type, literal) == Node(type, literal, <<>>, <<>>)

Written(n) == [ok |-> TRUE, n |-> n]
Unsupported == [ok |-> FALSE, n |-> Invalid]

\* The results of writing the parts, put together.
Together(type, names, parts) ==
  IF \A i \in DOMAIN parts : parts[i].ok
  THEN Written(Node(type, "", names, [i \in DOMAIN parts |-> parts[i].n])) ELSE Unsupported

isEmptyValue(v) ==
  CASE v.kind = "bool" -> v.text = "false"
    [] v.kind \in {"int", "float"} -> v.text = "0"
    [] v.kind \in {"string", "number"} -> v.text = ""
    [] v.kind \in {"array", "slice"} -> v.items = <<>>
    [] v.kind = "map" -> DOMAIN v.entries = {}
    [] v.kind \in {"interface", "pointer", "raw"} -> v.nil
    [] v.kind \in {"struct", "func"} -> FALSE

Omitted(v, opts) ==
  \/ "omitempty" \in opts /\ isEmptyValue(v)
  \/ "omitzero" \in opts /\ v = Zero(v.type)

\* The fields that are members, each with its value.
encodedStructFields(v) ==
  SelectSeq(structFieldIndexes(v.type),
            LAMBDA f : IsThere(v, f.index) /\ ~Omitted(Field(v, f.index), f.options))

\* A pointer is not quoted, although the option stays on its field.
Quoted(w, f, v) ==
  IF "string" \in f.options /\ v.kind \in Basic /\ w.ok THEN Written(Leaf("string", TextOf(w.n))) ELSE w

RECURSIVE encodeValue(_)

arrayValue(v) == Together("array", <<>>, [i \in DOMAIN v.items |-> encodeValue(v.items[i])])

mapValue(v) ==
  LET keys == SelectSeq(Ascending, LAMBDA k : k \in DOMAIN v.entries)
  IN  IF mapKeyTypeSupported(v.type)
      THEN Together("object", keys, [i \in DOMAIN keys |-> encodeValue(v.entries[keys[i]])]) ELSE Unsupported

structValue(v) ==
  LET Member(f, x) == Quoted(encodeValue(x), f, x)
      Object(fields) == Together("object", [i \in DOMAIN fields |-> fields[i].name],
                                           [i \in DOMAIN fields |-> Member(fields[i], Field(v, fields[i].index))])
  IN  Object(encodedStructFields(v))

encodeValue(v) ==
  LET kind == v.kind
  IN  IF v.nil THEN Written(Leaf("null", "null"))
      ELSE CASE kind = "raw" -> Written(v.items[1])
             [] kind = "number" -> IF v.text = "" THEN Unsupported ELSE Written(Leaf("number", v.text))
             [] kind \in {"pointer", "interface"} -> encodeValue(v.items[1])
             [] kind \in {"bool", "string"} -> Written(Leaf(kind, v.text))
             [] kind \in {"int", "float"} -> Written(Leaf("number", v.text))
             [] kind \in {"slice", "array"} -> arrayValue(v)
             [] kind = "map" -> mapValue(v)
             [] kind = "struct" -> structValue(v)
             [] kind = "func" -> Unsupported

-----------------------------------------------------------------------------
(***************************************************************************)
(* Either goroutines ask for tables, or a variable is declared and one     *)
(* document after another is read into it.  The two are not interleaved:   *)
(* every table that is used has been asked for before, and by TablesRight  *)
(* it makes no difference when.                                            *)
(***************************************************************************)
NoVariable == [type |-> "", kind |-> "", nil |-> TRUE, text |-> "", items |-> <<>>, entries |-> <<>>]
IsDeclared == variable # NoVariable

Declare(t, opts) ==
  /\ ~IsDeclared /\ calls = 0
  /\ variable' = Zero(t) /\ options' = opts
  /\ cache' = [s \in Structs |-> [fields |-> InOrder(Promoted[s]), by |-> "none"]]
  /\ UNCHANGED <<search, calls>>

Unmarshal(n) ==
  /\ IsDeclared
  /\ variable' = decodeValue(variable, n, options).v
  /\ UNCHANGED <<cache, search, calls, options>>

Init == FieldsInit /\ variable = NoVariable /\ options = {}

Unread == UNCHANGED <<variable, options>>

Next ==
  \/ \E g \in Goroutine, t \in Asked : ~IsDeclared /\ Ask(g, t) /\ Unread
  \/ \E g \in Goroutine : Load(g) /\ Unread
  \/ \E g \in Goroutine : Explore(g) /\ Unread
  \/ \E g \in Goroutine : Publish(g) /\ Unread
  \/ \E g \in Goroutine : Return(g) /\ Unread
  \/ \E t \in Declared, opts \in Settings : Declare(t, opts)
  \/ \E n \in Tree : Unmarshal(n)

\* The scheduler lets every goroutine run; nobody has to ask or to read.
Spec == Init /\ [][Next]_vars /\ \A g \in Goroutine : WF_vars(Advance(g) /\ Unread)

-----------------------------------------------------------------------------
\* Where a pointer field has the string option, what is written is not read.
QuotesPointers(t) ==
  Kind(t) = "struct" /\ \E f \in ToSet(structFieldIndexes(t)) :
    "string" \in f.options /\ IsPointer(Field(Zero(t), f.index))

Read(v, n) == decodeValue(v, n, options)

(***************************************************************************)
(* What a value writes is read without an error into a new variable of its *)
(* type, even when unknown fields are not allowed, and writes itself       *)
(* again: names that differ in case only, promoted and hidden fields,      *)
(* omitted ones, quoted ones, nil and empty, whatever was read before.     *)
(***************************************************************************)
WrittenReadsBack ==
  IsDeclared /\ ~QuotesPointers(variable.type) =>
    \A w \in {encodeValue(variable)} : w.ok =>
      \A new \in {Zero(variable.type)}, n \in {w.n} :
        \A r \in {Read(new, n)} : r.ok /\ \E again \in {r.v} : encodeValue(again) = w

\* The members of a variable, which a map does not have.
FieldsOf(t) == {IF Kind(t) = "struct" THEN structFieldIndexes(t) ELSE <<>>}

\* The first k members.
Before(n, k) == [n EXCEPT !.names = SubSeq(@, 1, k), !.items = SubSeq(@, 1, k)]

\* Reading fails at member k + 1, after which the variable is v.
OnlyTheMember(fields, n, k, v, before) ==
  LET f == fieldIndex(fields, n.names[k + 1])
      at == fields[f].index[1]
  IN  IF v.kind = "map" \/ f = 0 THEN v = before
      ELSE [v EXCEPT !.items[at] = before.items[at]] = before

(***************************************************************************)
(* Reading stops at the first member with an error: the members before it  *)
(* have been read as if they were all, the member can have changed what it *)
(* is for, and nothing else has changed.                                   *)
(***************************************************************************)
ErrorKeepsRest ==
  IsDeclared =>
    \A n \in {n \in Tree : n.type = "object"}, fields \in FieldsOf(variable.type) :
      \A start \in {[k \in 0 .. Len(n.names) |-> Before(n, k)]} :
        \A r \in {[k \in 0 .. Len(n.names) |-> Read(variable, start[k])]} : r[0].ok => \E k \in DOMAIN r :
          /\ \A j \in DOMAIN r : r[j].ok <=> j <= k
          /\ k < Len(n.names) => OnlyTheMember(fields, n, k, r[Len(n.names)].v, r[k].v)

\* Into maps, structs and what pointers point to is merged.
Merged == {"map", "struct", "pointer"}

Given(n, fields) ==
  {fieldIndex(fields, n.names[i]) : i \in {i \in DOMAIN n.names : n.items[i].type # "null"}} \ {0}

(***************************************************************************)
(* Whether a document can be read does not depend on what the variable     *)
(* held; and an array, a slice, an interface or a scalar that it gives     *)
(* holds afterwards what the document says, and nothing of what it held.   *)
(***************************************************************************)
NothingStale ==
  IsDeclared =>
    \A n \in Tree, fields \in FieldsOf(variable.type), new \in {Zero(variable.type)} :
      \A r \in {[v \in {variable, new} |-> Read(v, n)]} :
        /\ r[variable].ok = r[new].ok
        /\ r[new].ok => \A k \in Given(n, fields) :
             LET Now(v) == Field(r[v].v, fields[k].index)
             IN  Kind(Now(new).type) \notin Merged => Now(variable) = Now(new)
=============================================================================
