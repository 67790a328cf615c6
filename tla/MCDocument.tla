----------------------------- MODULE MCDocument -----------------------------
(***************************************************************************)
(* Document on short texts: two names, two numbers, one comment per style. *)
(* The texts put every construct of the grammar, every place for a comment *)
(* and every kind of gap in front of the methods at least once.            *)
(***************************************************************************)
EXTENDS DocumentClaims, TLC

QuotedNames == {"\"a\"", "\"b\""}
NameTable == ("a" :> "a") @@ ("b" :> "b") @@ ("\"a\"" :> "a") @@ ("\"b\"" :> "b")
QuoteTable == ("a" :> "\"a\"") @@ ("b" :> "\"b\"")

\* [1, 2] and { "a":[]}
StrictSource == {
  <<"[", "1", ",", " ", "2", "]">>,
  <<"{", " ", "\"a\"", ":", "[", "]", "}">>}

\* A number, a value that cannot be encoded, and a foreign [/**/].
StrictInput == {<<"2">>, <<>>, <<"[", "/**/", "]">>}

\* A comment in every place where one may be, before and after commas, and the
\* gaps of {"a": 1,\n"b":[2]} and of a document that is one number.
JSON5Source == {
  <<"//", "\n", "[", " ", "//", "\n", "1", "/**/", ",", "/**/", "2", "//", "\n", "]", "/**/">>,
  <<"{", "/**/", "a", "/**/", ":", "/**/", "1", "/**/", ",", "//", "\n", "}">>,
  <<"[", "/**/", "]">>,
  <<"[", "\n", " ", "1", ",", "/**/", "\n", "]">>,
  <<"{", "\"a\"", ":", " ", "1", ",", "\n", "b", ":", "[", "2", "]", "}", "\n">>,
  <<"\n", "1">>}

\* A number, {"a":[]}, a foreign array with a comment, and one that is no value.
JSON5Input == {<<"2">>, <<"{", "\"a\"", ":", "[", "]", "}">>, <<"[", "//", "\n", "1", ",", "]">>, <<>>}

\* Comments are `//' and `/**/', whatever they say.  A line takes no end of line, a
\* block no `*/', and a block that is to say /2/ is two comments with a 2 between.
Bodies == {" ", "\n", "*/", "/2/"}
LineTable == (" " :> <<"//">>) @@ ("\n" :> <<>>) @@ ("*/" :> <<"//">>) @@ ("/2/" :> <<"//">>)
BlockTable == (" " :> <<"/**/">>) @@ ("\n" :> <<"/**/">>) @@ ("*/" :> <<>>)
              @@ ("/2/" :> <<"/*/", "2", "/*/">>)

View == <<doc, edits>>

-----------------------------------------------------------------------------
(***************************************************************************)
(* The instances for the claims: one document each, and what is inserted.  *)
(***************************************************************************)
\* [1,2]
PlainArray == {<<"[", "1", ",", "2", "]">>}

ANumber == {<<"2">>}

\* What a json.RawMessage `1 //' becomes: a foreign document with a comment behind it.
NumberAndComment == {<<"1", " ", "//">>}
=============================================================================
