------------------------------ MODULE MCStream ------------------------------
\* A small instance for module Stream: short streams of every kind, and a few longer ones.
EXTENDS Stream

\* Every text of up to MaxShort of these characters is a stream.
Short == {"1", " ", "/", "*", "\"", "\\", "\n", "a", "[", "]", ","}
MaxShort == 3

Curated == {
  <<"1", " ", "2", "3", " ">>,
  <<"[", "1", ",", "2", "]", "3">>,
  <<"[", "1", " ", "2", "]">>,
  <<"{", "\"", "a", "\"", ":", "1", ",", "\"", "a", "\"", ":", "2", "}">>,
  <<"{", "\"", "a", "\"", ":", "t", "r", "u", "e", "}", "n", "u", "l", "l">>,
  <<"\"", "\\", "\"", "\\", "\\", "\"", "1">>,
  <<"/", "*", "/", "1", "/", "/", "*", "\r", "\n", "2">>,
  <<"/", "*", "*", "/", "[", "/", "*", "*", "*", "/", "]", "/">>,
  <<"LS", "1", "\r", "\n", "LS", "\n", "2">>,
  <<"\"", "LS", "\"", "]", " ", "1", ":">>,
  <<"-", "1", ".", "5", "\"", "\"", "/", "1">>}

AllShort == UNION {[1 .. n -> Short] : n \in 0 .. MaxShort}

MCStreams == Curated \union AllShort

\* The only name in these streams.
KeyNames == [w \in {"\"a\""} |-> "a"]
=============================================================================
