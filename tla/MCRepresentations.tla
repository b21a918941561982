------------------------- MODULE MCRepresentations --------------------------
(* A container with two targets, and corpora of small texts, for TLC.       *)
EXTENDS Representations

BothParts == {"container", "corpus"}

TwoTargets == {1, 2}

Wide == <<"L", "T">>
SomeTexts ==
  {<<"a">>, <<"a", ".">>, Wide, <<"a", " ", "b">>, <<"b", ".", " ", "a">>,
   <<"b", "L", "T", "b">>}
Sizes == 2..6
NoStopWords == {}
StopA == {<<"a">>}
Stops == {NoStopWords, StopA}
=============================================================================
