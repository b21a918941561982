---------------------------- MODULE MCServerData ----------------------------
(* ServerData for TLC.  Namespaces are sequences of words.                  *)
EXTENDS ServerData, TLC

CONSTANTS web, site

Plain == {<<web>>, <<site>>}
PlainLists == {<<"default">>, <<"list">>}
Default == <<"default">>

\* Namespaces that contain the character that joins them: web with site_default and
\* web_site with default have the same tables.
Nested == {<<web>>, <<web, site>>}
NestedLists == {<<"default">>, <<site, "default">>}

SmallIds == [t \in RowTables |-> IF t \in {"configs", "rows"} THEN 1 ELSE 2]
ThreeLists == [SmallIds EXCEPT !["lists"] = 3]

\* The names of websites can be exchanged, and so can the kinds of threads (in pairs):
\* a group, under which Next is symmetric.
Exchanges ==
  {f \in Permutations(Kinds) :
     /\ \A k \in Kinds : f[f[k]] = k
     /\ (\A k \in Kinds : f[k] = k) \/ (\A k \in Kinds : f[k] # k)}
Symmetry == {f @@ g : f \in Exchanges, g \in Permutations({web, site})}
=============================================================================
