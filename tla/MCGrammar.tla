----------------------------- MODULE MCGrammar -----------------------------
(***************************************************************************)
(* The grammar over a short alphabet: strict JSON with a number, a name, a *)
(* keyword, a space and a comment that is not allowed; JSON5 with a number,*)
(* a name quoted and bare, a keyword, a newline and both styles of comment.*)
(***************************************************************************)
EXTENDS Layout, TLC

QuotedNames == {"\"a\""}
NameTable == ("a" :> "a") @@ ("null" :> "null") @@ ("\"a\"" :> "a")

Signs == {"{", "}", "[", "]", ",", ":"}
StrictLexeme == Signs \union {"1", "\"a\"", "true", " ", "//"}
JSON5Lexeme == Signs \union {"1", "\"a\"", "a", "null", "//", "/**/", "\n"}

Indentations == {<<" ">>, <<" ", " ">>}
=============================================================================
