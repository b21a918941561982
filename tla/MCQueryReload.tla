--------------------------- MODULE MCQueryReload ---------------------------
(* QueryReload for TLC: threads of any module, two queries, two ways to use them. *)
EXTENDS QueryReload
SameConfig == [t \in Threads |-> 1]
FewContents == {[list |-> <<1>>, ignore |-> <<2>>], [list |-> <<2, 1>>, ignore |-> <<>>]}
=============================================================================
