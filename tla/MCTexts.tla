------------------------------ MODULE MCTexts ------------------------------
\* The pieces that strings are typed of, for module Texts.
EXTENDS Texts

Pieces ==
  {<<c>> : c \in {"\"", "'", "\\", "a", "0", "n", "x", "<", "\n", "\r", "NUL", "LS", BadByte}}
    \union {<<"\\", "u">>, <<"d", "8", "3", "d">>, <<"d", "E", "0", "0">>, <<"0", "0", "4", "1">>}
=============================================================================
