----------------------------- MODULE CustomData -----------------------------
(***************************************************************************)
(* Custom data in the tables of the analyzers (Main/Database.cpp:          *)
(* getCustomData(), insertCustomData(), updateCustomData(), and            *)
(* Data/Data.hpp): typed values are written to columns of SQL types and    *)
(* read back, one value, the fields of a row or whole columns at a time,   *)
(* with one type for all of them or one for each.  The upload of results   *)
(* reads a column with the type that it finds out itself.                  *)
(*                                                                         *)
(* Integers are scaled down: the code's 32 bits are Bits here, its 64 bits *)
(* WideBits.  What the server stores is a pair of a kind and a value.      *)
(***************************************************************************)
EXTENDS Integers, Sequences, SequencesExt, FiniteSetsExt

CONSTANTS
  Instances,   \* the possible tables and what callers do with them, see MCCustomData
  MaxPacket    \* the server's limit for the size of a string

VARIABLES
  table,     \* the SQL types of the columns, the types callers use for them, the
             \* numbers and strings (sequences of bytes) they write, and a bound
             \* on the number of rows
  rows,      \* the stored value of each column in each row
  meant,     \* the value that has been written last to it, as given (history)
  result     \* the values the caller has got, and what it has asked for

vars == <<table, rows, meant, result>>

columns == table.columns

Bits == 2
WideBits == 3

-----------------------------------------------------------------------------
(* Types and values.                                                        *)

Type == {"bool", "int32", "uint32", "int64", "uint64", "double", "string"}
Unknown == "unknown"

Signed(bits) == -(2^(bits - 1)) .. (2^(bits - 1) - 1)
Unsigned(bits) == 0 .. (2^bits - 1)
RangeOf ==
  [bool |-> {0, 1}, int32 |-> Signed(Bits), uint32 |-> Unsigned(Bits),
   int64 |-> Signed(WideBits), uint64 |-> Unsigned(WideBits)]
IsNumber(type) == type \in DOMAIN RangeOf

Null == <<"null", 0>>
Overflow == {"error", "trim", "empty", "null"}

\* The values of a type, a null value included; a string has its own overflow.
Value(type) ==
  LET given == CASE IsNumber(type) -> {<<"number", n>> : n \in table.numbers \cap RangeOf[type]}
                 [] type = "double" -> {<<"real", "1.5">>, <<"real", "nan">>}
                 [] type = "string" -> {<<"text", s>> : s \in table.texts}
                 [] OTHER -> {<<"real", "1.5">>}
  IN [v : given \cup {Null}, overflow : IF type = "string" THEN Overflow ELSE {"error"}]

\* The name of an SQL type, without its size, and whether "unsigned" follows.
SqlType == [name : STRING, unsigned : BOOLEAN]

ParsedType(sql) ==
  CASE sql.name \in {"bool", "boolean"} -> "bool"
    [] sql.name \in {"bit", "tinyint", "smallint", "mediumint", "int", "integer"} ->
         IF sql.unsigned THEN "uint32" ELSE "int32"
    [] sql.name = "bigint" -> IF sql.unsigned THEN "uint64" ELSE "int64"
    [] sql.name \in {"float", "double", "decimal"} -> "double"
    [] sql.name \in {"varchar", "text", "longtext", "blob", "enum"} -> "string"
    [] OTHER -> Unknown

\* The type is cut at the first blank, and so is "unsigned".
getColumnType(c) == [columns[c] EXCEPT !.unsigned = FALSE]

-----------------------------------------------------------------------------
(* The server: what it stores in strict mode, and what is read from it.     *)

IsValidText(s) ==
  \A i \in DOMAIN s :
    /\ s[i] = "lead" => i < Len(s) /\ s[i + 1] = "trail"
    /\ s[i] = "trail" => i > 1 /\ s[i - 1] = "lead"

\* Whether a column takes a value as it is.
Takes(c, v) ==
  LET type == ParsedType(columns[c])
  IN CASE v[1] = "number" -> IsNumber(type) /\ v[2] \in RangeOf[type]
       [] v[1] = "real" -> type = "double"
       [] v[1] = "text" -> type = "string" /\ IsValidText(v[2])
       [] OTHER -> TRUE

\* The possible values of a stored number that is read as some type: itself, if
\* the type can hold it, else anything the connector makes of it.
ReadAs(type, v) ==
  IF v = Null THEN {Null}
  ELSE IF v[1] = "number" /\ IsNumber(type) /\ v[2] \notin RangeOf[type]
  THEN {<<"number", n>> : n \in RangeOf[type]}
  ELSE {v}

\* Types and columns go together, apart from the width and sign of numbers.
Suits(type, c) ==
  LET own == ParsedType(columns[c])
  IN type = own \/ (IsNumber(type) /\ IsNumber(own))

-----------------------------------------------------------------------------
(* Writing.                                                                 *)

\* What is made of a value: not-a-number is null, and a string that is too
\* large is trimmed, emptied, nulled or refused.
Bound(value) ==
  CASE value.v = <<"real", "nan">> -> Null
    [] value.v[1] = "text" /\ Len(value.v[2]) > MaxPacket ->
         CASE value.overflow = "trim" -> <<"text", SubSeq(value.v[2], 1, MaxPacket)>>
           [] value.overflow = "empty" -> <<"text", <<>>>>
           [] OTHER -> Null
    [] OTHER -> value.v

Refused(value) ==
  value.v[1] = "text" /\ Len(value.v[2]) > MaxPacket /\ value.overflow = "error"

\* Single values and fields of one type need the type, even for null values.
SameType(fields) == \E type \in Type : \A i \in DOMAIN fields : fields[i].type = type

\* Mixed fields need a type only for values that are not null.
TypesGiven(fields) ==
  \A i \in DOMAIN fields : fields[i].type \in Type \/ fields[i].value.v = Null

IsInsertValue(fields) == Len(fields) = 1 /\ SameType(fields)
IsInsertFields(fields) == Len(fields) > 0 /\ SameType(fields)
IsInsertFieldsMixed(fields) == Len(fields) > 0 /\ TypesGiven(fields)

\* All values are bound before the statement is executed.
IsBound(fields) == \A i \in DOMAIN fields : ~Refused(fields[i].value)
Executes(fields) == \A i \in DOMAIN fields : Takes(fields[i].column, Bound(fields[i].value))

FieldOf(fields, c) == fields[CHOOSE i \in DOMAIN fields : fields[i].column = c]
Named(fields, c) == \E i \in DOMAIN fields : fields[i].column = c

Throw == result' = [asked |-> "thrown"] /\ UNCHANGED <<table, rows, meant>>
Written == result' = [asked |-> "none"] /\ UNCHANGED table

Row(fields) ==
  [c \in DOMAIN columns |-> IF Named(fields, c) THEN Bound(FieldOf(fields, c).value) ELSE Null]
Meaning(fields, old) ==
  [c \in DOMAIN columns |-> IF Named(fields, c) THEN FieldOf(fields, c).value.v ELSE old[c]]
NoMeaning == [c \in DOMAIN columns |-> Null]

Insert(fields) ==
  IF IsBound(fields) /\ Executes(fields)
  THEN /\ rows' = Append(rows, Row(fields))
       /\ meant' = Append(meant, Meaning(fields, NoMeaning))
       /\ Written
  ELSE Throw

insertValue(fields) ==
  /\ Len(rows) < table.rows /\ Len(fields) = 1
  /\ IF IsInsertValue(fields) THEN Insert(fields) ELSE Throw

insertFields(fields) ==
  /\ Len(rows) < table.rows
  /\ IF IsInsertFields(fields) THEN Insert(fields) ELSE Throw

insertFieldsMixed(fields) ==
  /\ Len(rows) < table.rows
  /\ IF IsInsertFieldsMixed(fields) THEN Insert(fields) ELSE Throw

\* All rows that fulfil the condition get the new values of the columns named.
Update(fields, matching) ==
  IF IsBound(fields) /\ (matching = {} \/ Executes(fields))
  THEN /\ rows' = [i \in DOMAIN rows |->
                     IF i \notin matching THEN rows[i]
                     ELSE [c \in DOMAIN columns |->
                             IF Named(fields, c) THEN Row(fields)[c] ELSE rows[i][c]]]
       /\ meant' = [i \in DOMAIN rows |->
                      IF i \in matching THEN Meaning(fields, meant[i]) ELSE meant[i]]
       /\ Written
  ELSE Throw

updateValue(fields, matching) ==
  /\ Len(fields) = 1
  /\ IF IsInsertValue(fields) THEN Update(fields, matching) ELSE Throw

updateFields(fields, matching) ==
  IF IsInsertFields(fields) THEN Update(fields, matching) ELSE Throw

updateFieldsMixed(fields, matching) ==
  IF IsInsertFieldsMixed(fields) THEN Update(fields, matching) ELSE Throw

-----------------------------------------------------------------------------
(* Reading: a sequence of columns with their types, from the rows that      *)
(* fulfil a condition, in the order of a column or that of the table.       *)

TypesAsked(asked) == \A i \in DOMAIN asked : asked[i].type \in Type
OneType(asked) == \E type \in Type : \A i \in DOMAIN asked : asked[i].type = type

Got(form, asked, from, values) ==
  /\ result' = [asked |-> form, columns |-> asked, rows |-> from, values |-> values]
  /\ UNCHANGED <<table, rows, meant>>

\* The value of a column in a row, which is null if that is null.
IsRead(value, a, row) == value \in ReadAs(a.type, rows[row][a.column])

\* A value that is not found leaves the old one in the caller's structure.
getValue(a, from) ==
  IF a.type = Unknown THEN Throw
  ELSE IF from = <<>>
  THEN IF result.asked = "value" THEN UNCHANGED vars
       ELSE Got("value", <<a>>, <<>>, <<<<Null>>>>)
  ELSE \E v \in ReadAs(a.type, rows[from[1]][a.column]) :
         Got("value", <<a>>, <<from[1]>>, <<<<v>>>>)

\* The fields of one row, none if no row is found.
Fields(form, asked, from) ==
  IF from = <<>> THEN Got(form, asked, <<>>, <<>>)
  ELSE \E values \in [DOMAIN asked -> UNION {ReadAs(asked[i].type, rows[from[1]][asked[i].column]) :
                                               i \in DOMAIN asked}] :
         /\ \A i \in DOMAIN asked : IsRead(values[i], asked[i], from[1])
         /\ Got(form, asked, <<from[1]>>, [i \in DOMAIN asked |-> <<values[i]>>])

getFields(asked, from) ==
  IF OneType(asked) THEN Fields("fields", asked, from) ELSE Throw

getFieldsMixed(asked, from) ==
  IF \A i \in DOMAIN asked :
       asked[i].type \in Type \/ from = <<>> \/ rows[from[1]][asked[i].column] = Null
  THEN Fields("fields", asked, from) ELSE Throw

\* Mutant: null values are left out.
WithoutNulls(a, from) ==
  LET kept == SelectSeq(from, LAMBDA row : rows[row][a.column] # Null)
  IN {values \in [DOMAIN kept -> UNION {ReadAs(a.type, rows[row][a.column]) : row \in Range(from)}] :
        \A i \in DOMAIN values : IsRead(values[i], a, kept[i])}

\* The values of a column, one for each row.
ColumnValues(a, from) ==
  {values \in [DOMAIN from -> UNION {ReadAs(a.type, rows[row][a.column]) : row \in Range(from)}] :
     \A i \in DOMAIN values : IsRead(values[i], a, from[i])}

getColumn(a, from) ==
  IF a.type = Unknown THEN Throw
  ELSE \E values \in ColumnValues(a, from) : Got("columns", <<a>>, from, <<values>>)

Columns(asked, from) ==
  \E values \in [DOMAIN asked -> UNION {ColumnValues(asked[i], from) : i \in DOMAIN asked}] :
    /\ \A i \in DOMAIN asked : values[i] \in ColumnValues(asked[i], from)
    /\ Got("columns", asked, from, values)

getColumns(asked, from) ==
  IF OneType(asked) THEN Columns(asked, from) ELSE Throw

getColumnsMixed(asked, from) ==
  IF \A i \in DOMAIN asked :
       asked[i].type \in Type \/ \A row \in Range(from) : rows[row][asked[i].column] = Null
  THEN Columns(asked, from) ELSE Throw

\* What becomes of a value in JSON: a null is zero or empty, and 64-bit integers
\* are cut to 32 bits without sign.
Json(type, v) ==
  CASE v = Null -> IF IsNumber(type) THEN <<"number", 0>>
                   ELSE IF type = "double" THEN <<"real", "0.0">> ELSE <<"text", <<>>>>
    [] type \in {"int64", "uint64"} -> <<"number", v[2] % 2^Bits>>
    [] OTHER -> v

\* The upload reads the target column with the type it finds out, all rows in
\* the order of the dates, if there are any.
uploadResult(c, from) ==
  LET asked == <<[column |-> c, type |-> ParsedType(getColumnType(c))]>>
  IN /\ Range(from) = DOMAIN rows
     /\ IF asked[1].type = Unknown THEN Throw
        ELSE \E values \in ColumnValues(asked[1], from) :
               Got("uploaded", asked, from, <<[j \in DOMAIN values |-> Json(asked[1].type, values[j])]>>)
-----------------------------------------------------------------------------
Field ==
  UNION {[column : {c}, type : {type}, value : Value(type)] :
           c \in DOMAIN columns, type \in table.types}

\* What callers write: types that suit the columns, each column once, and some
\* without type.
Written1 == {f \in Field : f.type = Unknown \/ Suits(f.type, f.column)}
FieldSeqs ==
  {<<f>> : f \in Written1}
    \cup {<<f, g>> : f, g \in {h \in Written1 : h.value.overflow \in {"error", "trim"}}}
Distinct(fields) == IsInjective([i \in DOMAIN fields |-> fields[i].column])

Asked ==
  {[column |-> c, type |-> type] : c \in DOMAIN columns, type \in table.types}
AskedSeqs ==
  LET suiting == {a \in Asked : a.type = Unknown \/ Suits(a.type, a.column)}
  IN {<<a>> : a \in suiting} \cup {<<a, b>> : a, b \in suiting}

Selections == UNION {SetToSeqs(S) : S \in SUBSET DOMAIN rows}

Init ==
  /\ table \in Instances
  /\ rows = <<>> /\ meant = <<>>
  /\ result = [asked |-> "none"]

\* A caller starts with a new structure, except for single values.
Write ==
  \E fields \in {f \in FieldSeqs : Distinct(f)} :
    /\ result.asked \in {"none", "thrown"}
    /\ \/ insertValue(fields)
       \/ insertFields(fields)
       \/ insertFieldsMixed(fields)
       \/ \E matching \in SUBSET DOMAIN rows :
            \/ updateValue(fields, matching)
            \/ updateFields(fields, matching)
            \/ updateFieldsMixed(fields, matching)

Read ==
  \E asked \in AskedSeqs, from \in Selections :
    \/ result.asked \in {"none", "value"} /\ Len(asked) = 1 /\ getValue(asked[1], from)
    \/ /\ result.asked = "none"
       /\ \/ Len(asked) = 1 /\ getColumn(asked[1], from)
          \/ getFields(asked, from)
          \/ getFieldsMixed(asked, from)
          \/ getColumns(asked, from)
          \/ getColumnsMixed(asked, from)

Upload ==
  \E c \in DOMAIN columns, from \in Selections :
    result.asked = "none" /\ uploadResult(c, from)

Next == Write \/ Read \/ Upload

Spec == Init /\ [][Next]_vars

-----------------------------------------------------------------------------
(* Properties.                                                              *)

\* Every row has a value for each column that the column can hold, and no
\* string exceeds the limit of the server, whichever overload has written it.
TypeOK ==
  /\ DOMAIN rows = DOMAIN meant
  /\ \A i \in DOMAIN rows : \A c \in DOMAIN columns :
       /\ Takes(c, rows[i][c])
       /\ rows[i][c][1] = "text" => Len(rows[i][c][2]) <= MaxPacket

\* What a caller that has written a value may find instead of it.
Lossy(v) == v = <<"real", "nan">> \/ (v[1] = "text" /\ Len(v[2]) > MaxPacket)

\* Whether a value of a column can be given back as it is.
Holds(type, v) == (IsNumber(type) /\ v[1] = "number") => v[2] \in RangeOf[type]

\* Whatever has been written last to a column of a row is read from it again, by
\* every way to read it, if the type asked for can hold it: a value that is not a
\* number or a string too large aside.
ReadsWhatWasWritten ==
  result.asked \in {"value", "fields", "columns"} =>
    \A i \in DOMAIN result.values : \A j \in DOMAIN result.rows \cap DOMAIN result.values[i] :
      LET v == meant[result.rows[j]][result.columns[i].column]
      IN Lossy(v) \/ ~Holds(result.columns[i].type, v) \/ result.values[i][j] = v

\* An upload has one value for each row, and the one that has been written, unless
\* that is null or a number for which 32 bits without sign are not enough.
UploadIsExact ==
  result.asked = "uploaded" =>
    /\ DOMAIN result.values[1] = DOMAIN rows
    /\ \A j \in DOMAIN result.rows :
         LET v == meant[result.rows[j]][result.columns[1].column]
         IN \/ Lossy(v) \/ v = Null
            \/ v[1] = "number" /\ v[2] \notin Unsigned(Bits)
            \/ result.values[1][j] = v

\* Columns that are read together have one value for each row, so that the values
\* at one position belong to one row, nulls included.
ColumnsAreParallel ==
  result.asked = "columns" =>
    /\ Len(result.values) = Len(result.columns)
    /\ \A i \in DOMAIN result.values : Len(result.values[i]) = Len(result.rows)

\* A null is only ever stored for a null, for what is not a number, or for a
\* string too large; other values are not lost.
NullsAreMeant ==
  \A i \in DOMAIN rows : \A c \in DOMAIN columns :
    rows[i][c] = Null => (meant[i][c] = Null \/ Lossy(meant[i][c]))
=============================================================================
