----------------------------- MODULE MCUrlLock ------------------------------
(* Parsers for TLC: two of them on one URL, or one with a cache of two URLs *)
(* and with statements that may fail or may not.                            *)
EXTENDS UrlLock, TLC

CONSTANTS p1, p2

TwoParsers == {p1, p2}
Interchangeable == Permutations(TwoParsers)

SomeInstances ==
  {[parsers |-> TwoParsers, listed |-> 1, cacheSize |-> 1, dbFails |-> FALSE, commands |-> FALSE]}
    \cup [parsers : {{p1}, {p2}}, listed : {2}, cacheSize : {2}, dbFails : BOOLEAN, commands : {TRUE}]
=============================================================================
