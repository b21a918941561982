----------------------------- MODULE MCLibrary ------------------------------
(* Small instances of the parts of Library for TLC.                         *)
EXTENDS Library

CONSTANTS t1, t2, c1, c2

AllParts == {"config", "values", "targets", "topics", "lists", "moves"}

-----------------------------------------------------------------------------
(* Configurations: pairs that belong together, and values of every kind.    *)

Few == [bool |-> {<<"bool", FALSE>>}, int |-> {<<"int", 1>>}, float |-> {<<"float", "1.5">>},
        string |-> {<<"string", "name">>}]
Many == [bool |-> {<<"bool", TRUE>>, <<"int", 1>>, Null},
         int |-> {<<"int", n>> : n \in {-3, -1, 0, 1, 2, 7}} \cup {<<"string", "name">>, Null},
         float |-> {<<"float", "1.5">>, <<"int", 1>>, Null},
         string |-> {<<"string", s>> : s \in Strings} \cup {<<"bool", TRUE>>, Null}]
Counts == [Few EXCEPT !.int = {<<"int", n>> : n \in {0, 1, -1}}]

Configuration(groups, values, length, entries) ==
  [group : groups, values : {values}, length : {length}, entries : {entries}, malformed : {FALSE},
   essential : {TRUE}, fields : {0}]
Arrays == DOMAIN Groups \ {"counters", "otherTypes", "singles"}
SomeConfigurations ==
  Configuration(Arrays, Few, 2, 3) \cup Configuration({"counters"}, Counts, 1, 4)
  \cup Configuration({"counters"}, [Counts EXCEPT !.int = {<<"int", 0>>, <<"int", 1>>}], 2, 3)
  \cup Configuration({"otherTypes", "singles", "parserIds", "extractorDates", "inputs"}, Many, 2, 1)
  \cup [group : {"parserIds"}, values : {Few}, length : {1}, entries : {3}, malformed : {TRUE},
        essential : BOOLEAN, fields : {0}]

-----------------------------------------------------------------------------
(* Custom data.                                                             *)

Sql(name, unsigned) == [name |-> name, unsigned |-> unsigned]
SomeBytes == {<<"a">>, <<"a", "a", "a">>, <<"a", "lead", "trail">>}
AnyType == {"bool", "int32", "uint32", "int64", "uint64", "double", "string", "unknown"}
SomeUses ==
  {[columns |-> "n" :> Sql("bigint", TRUE), types |-> AnyType,
    numbers |-> {1, 6}, texts |-> {}, rows |-> 1],
   [columns |-> "t" :> Sql("text", FALSE), types |-> {"string", "unknown"}, numbers |-> {},
    texts |-> SomeBytes, rows |-> 2],
   [columns |-> "n" :> Sql("int", FALSE) @@ "d" :> Sql("double", FALSE),
    types |-> {"int32", "double"}, numbers |-> {1}, texts |-> {}, rows |-> 2]}

-----------------------------------------------------------------------------
(* Target tables of two threads.                                            *)

TwoThreads == {t1, t2}
Table(name, columns) ==
  [name |-> name, columns |-> columns, compressed |-> FALSE, delete |-> FALSE, reference |-> ""]
ContentColumn == <<"content", "bigint">>
ParsedTable == [Table("parsed", <<ContentColumn, <<"field", "longtext">>>>) EXCEPT !.compressed = TRUE]
OtherTable == Table("parsed", <<ContentColumn, <<"other", "longtext">>>>)
Analyzed(type) == Table("analyzed", <<<<"value", type>>>>)
Result(type) == [Analyzed(type) EXCEPT !.delete = TRUE]
LinkedTable == Table("linked", <<<<"id", "text">>>>)
LinkingTable == [Table("extracted", <<ContentColumn, <<"link", "bigint">>>>) EXCEPT !.reference = "linked"]

Both(first, second, alike) == [tables |-> t1 :> first @@ t2 :> second, alike |-> alike]
SomeTables ==
  {Both(<<ParsedTable>>, <<ParsedTable>>, <<>>), Both(<<ParsedTable>>, <<OtherTable>>, <<>>),
   Both(<<Result("double")>>, <<Result("bigint")>>, <<>>),
   Both(<<Analyzed("text")>>, <<Result("bigint")>>, <<>>),
   Both(<<Analyzed("text")>>, <<Analyzed("double")>>, <<>>),
   Both(<<LinkedTable, LinkingTable>>, <<LinkedTable, Table("extracted", <<ContentColumn>>)>>, <<>>),
   Both(<<Table("t_1", <<ContentColumn>>)>>, <<Table("tx1", <<ContentColumn>>)>>, "t_1" :> {"tx1"})}

-----------------------------------------------------------------------------
(* Topic models, URL lists with two crawlers, websites with two URLs.       *)

SomeDocuments == {"d"}
SomeNumbers == {0, 1}

TwoCrawlers == {c1, c2}
SomePaths == {"/a"}
Exchange == Permutations(TwoCrawlers)

\* One URL that has been crawled, one that may be added.
TwoUrls == {1, 2}
=============================================================================
