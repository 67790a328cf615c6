------------------------------ MODULE MCPatch ------------------------------
(***************************************************************************)
(* Instances of PatchClaims for TLC.                                       *)
(***************************************************************************)
EXTENDS PatchClaims

Value(type, literal) == [type |-> type, literal |-> literal, names |-> <<>>, items |-> <<>>]
Number(literal) == Value("number", literal)
String(text) == Value("string", text)
Null == Value("null", <<>>)
Array(items) == [Value("array", <<>>) EXCEPT !.items = items]
Object(names, items) == [Value("object", <<>>) EXCEPT !.names = names, !.items = items]

Literals == {<<"1">>, <<"1", ".", "0">>, <<"2">>, <<"+", "2">>}
MCQuantity == [s \in Literals |-> IF s = <<"1", ".", "0">> THEN <<"1">> ELSE IF s = <<"+", "2">> THEN <<"2">> ELSE s]
MCForeign == {<<"+", "2">>}

One == Number(<<"1">>)
SameAsOne == Number(<<"1", ".", "0">>)
Two == Number(<<"2">>)
ForeignTwo == Number(<<"+", "2">>)

\* Names, and the pointers made of them.
a == <<"a">>
b == <<"b">>
Root == <<>>
pa == <<"/", "a">>
pb == <<"/", "b">>
pa0 == <<"/", "a", "/", "0">>
pa1 == <<"/", "a", "/", "1">>
pa2 == <<"/", "a", "/", "2">>
pa00 == <<"/", "a", "/", "0", "0">>
paEnd == <<"/", "a", "/", "-">>
paa == <<"/", "a", "/", "a">>
pa1b == <<"/", "a", "/", "1", "/", "b">>
broken == <<"a">>

\* {"a": [1, {"b": 2}]}, {"a": {"b": 1}, "b": null} and [1, 2].
Nested == Object(<<a>>, <<Array(<<One, Object(<<b>>, <<Two>>)>>)>>)
Fields == Object(<<a, b>>, <<Object(<<b>>, <<One>>), Null>>)
List == Array(<<One, Two>>)

Op(op, path, from, given) == [op |-> <<op>>, path |-> path, from |-> from, value |-> given]
AtPointer(pointer) == [type |-> "pointer", pointer |-> pointer]

Paths == {Root, pa, pb, pa0, pa1, pa2, pa00, paEnd, paa, pa1b, broken}
Givens == {SameAsOne, ForeignTwo, Invalid, Object(<<b>>, <<SameAsOne>>)}

Singles ==
  {<<Op(op, path, Root, given)>> : op \in {"add", "replace", "test"}, path \in Paths, given \in Givens}
    \union {<<Op("remove", path, Root, Invalid)>> : path \in Paths}
    \union {<<Op(op, path, from, Invalid)>> : op \in {"move", "copy"}, path \in Paths, from \in Paths}

\* An operation that succeeds, with one behind it that may fail or that depends on it.
Pairs ==
  {<<>>}
    \union {<<Op("add", paEnd, Root, Two), Op(op, pa2, pa0, One)>> : op \in {"test", "replace", "remove", "copy", "move"}}
    \union {<<Op("remove", pa0, Root, Invalid), Op(op, pa1, pa0, One)>> : op \in {"add", "test", "move", "copy"}}
    \union {<<Op("add", pb, Root, AtPointer(pa)), Op("move", pa, pb, Invalid)>>,
            <<Op("replace", pa, Root, AtPointer(Root)), Op("test", paa, Root, AtPointer(pa))>>,
            <<Op("merge", pa, Root, One)>>, <<Op("add", pa, Root, Fields), Op("test", pa, Root, Object(<<b, a>>, <<Null, Object(<<b>>, <<SameAsOne>>)>>))>>}

\* Patch documents: the members of an operation, well-formed or not.
OpObject(op, path, rest) == Object(<<<<"op">>, <<"path">>>> \o rest.names, <<op, path>> \o rest.items)
Rests ==
  {Object(<<>>, <<>>), Object(<<<<"value">>>>, <<Two>>), Object(<<<<"from">>>>, <<String(pa)>>),
   Object(<<<<"from">>>>, <<Null>>), Object(<<<<"value">>, <<"from">>>>, <<Two, One>>)}

Documents ==
  {Array(<<OpObject(String(<<op>>), path, rest)>>) :
     op \in {"add", "remove", "test", "move", "copy", "jump"},
     path \in {String(pb), String(broken), Null, One}, rest \in Rests}
    \union {Two, Array(<<>>), Array(<<One>>), Array(<<Object(<<<<"op">>>>, <<String(<<"remove">>)>>)>>),
            Array(<<OpObject(Null, String(pa), Object(<<>>, <<>>))>>)}

Merges ==
  {One, Null, ForeignTwo, List, Object(<<>>, <<>>),
   Object(<<a>>, <<Null>>), Object(<<b>>, <<Null>>), Object(<<a, b>>, <<Two, ForeignTwo>>),
   Object(<<a>>, <<Object(<<b>>, <<Null>>)>>), Object(<<a>>, <<Object(<<a, b>>, <<Two, List>>)>>),
   Object(<<b>>, <<Object(<<a, b>>, <<Null, Object(<<a>>, <<Null>>)>>)>>),
   Object(<<b, a>>, <<Array(<<Object(<<a>>, <<Null>>)>>), Object(<<b>>, <<Object(<<b>>, <<Null>>)>>)>>)}

Segment(kind, name, index) == [kind |-> kind, name |-> name, index |-> index]
Name(name) == Segment("string", name, 0)
Nth(index) == Segment("int", <<>>, index)

ByPointer(op, pointer, given) == [op |-> op, by |-> "pointer", pointer |-> pointer, segments |-> <<>>, value |-> given]
ByPath(op, segments, given) == [op |-> op, by |-> "path", pointer |-> <<>>, segments |-> segments, value |-> given]

Segments ==
  {<<>>, <<Name(a)>>, <<Name(b)>>, <<Name(a), Nth(0)>>, <<Name(a), Nth(2)>>, <<Name(a), Nth(-1)>>,
   <<Name(a), Segment("append", <<>>, 0)>>, <<Name(a), Nth(1), Name(b)>>, <<Name(a), Name(a)>>, <<Nth(0)>>,
   <<Name(a), Segment("other", <<>>, 0)>>}

Edits ==
  {ByPointer(op, pointer, given) : op \in {"insert", "replace", "remove"}, pointer \in Paths, given \in {Two, ForeignTwo}}
    \union {ByPath(op, segments, given) : op \in {"insert", "replace", "remove"}, segments \in Segments, given \in {Two, ForeignTwo}}

-----------------------------------------------------------------------------
\* Any call on any document, and then one of a few.
Sources == {Nested, Fields, List}
Receivers == {Root, pa}
RootOnly == {Root}

FewLists ==
  {<<>>, <<Op("add", pb, Root, AtPointer(pa)), Op("remove", pa0, Root, Invalid)>>,
   <<Op("replace", Root, Root, AtPointer(pa)), Op("test", pa, Root, Two)>>}
FewDocuments == {Two}
FewMerges == {Object(<<a>>, <<Object(<<b>>, <<One>>)>>), ForeignTwo}
FewEdits == {ByPointer("insert", pb, One), ByPointer("remove", pa0, Invalid), ByPath("replace", <<>>, List)}

MCPatchDocument == <<Documents, FewDocuments>>
MCPatchList == <<Singles \union Pairs \union FewLists, FewLists>>
MCMerge == <<Merges, FewMerges>>
MCEdit == <<Edits, FewEdits>>

\* For the claim: {"b": {"a": null, "b": 1}} is merged into a document without b.
NoCalls == <<{}, {}>>
NewNulls == <<{Object(<<b>>, <<Object(<<a, b>>, <<Null, One>>)>>)}, {}>>
PlainSource == {Nested}
=============================================================================
