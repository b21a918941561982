---------------------------- MODULE ModuleConfig ----------------------------
(***************************************************************************)
(* The configuration of a module thread (Module/Config.hpp and the classes *)
(* that inherit from it): a JSON array of entries, each with a category, a *)
(* name and a value, is read entry by entry; every option has a type that  *)
(* decides what is made of its value.  Options that belong together are    *)
(* parallel arrays, whose lengths are adjusted after reading.              *)
(*                                                                         *)
(* Integers are scaled down: the code's 8 and 16 bits are SmallBits here,  *)
(* its 32 bits Bits, its 64 bits WideBits.  JSON values are pairs of a     *)
(* type and a value; a string stands for all strings of its form.          *)
(***************************************************************************)
EXTENDS Integers, Sequences, SequencesExt, FiniteSetsExt, TLC

CONSTANTS
  Configurations   \* what may be configured, see MCModuleConfig

VARIABLES
  given,     \* the configuration that is loaded
  options,   \* the value of each option; a single value is a sequence of one
  item,      \* currentItem: category and name that are left from an entry
  status,    \* "loading", "loaded", "rejected" or "unchecked"
  history    \* the option the last entry has named, whether it has been ignored,
             \* the number of entries, and the last array of each option

vars == <<given, options, item, status, history>>

SmallBits == 2
Bits == 3
WideBits == 4

Missing == "missing"
Invalid == "invalid"   \* a name that is no string
Null == <<"null", 0>>
NoValue == <<"none", 0>>
NoItem == [category |-> "", name |-> ""]

-----------------------------------------------------------------------------
(* The types of options.  A value of another JSON type, or that is not      *)
(* accepted, is replaced by the default; one that is not kept is left out.  *)

Signed(bits) == -(2^(bits - 1)) .. (2^(bits - 1) - 1)
Unsigned(bits) == 0 .. (2^bits - 1)
Same(S) == [v \in S |-> v]

\* The conversion from int to a smaller signed type, which is not checked
\* at its lower end.
Wrapped(n, bits) == ((n + 2^(bits - 1)) % 2^bits) - 2^(bits - 1)

Type(json, accepted, kept, value, default) ==
  [json |-> json, accepted |-> accepted, kept |-> kept, value |-> value, default |-> default,
   holds |-> {value[v] : v \in kept} \cup {default}]

\* Mutant: the upper end is not checked either.
SmallUnchecked(wider, low, high) ==
  [Type("int", wider, wider, [n \in wider |-> IF n < low THEN Wrapped(n, SmallBits) ELSE n], 0)
     EXCEPT !.holds = low .. high]

Small(wider, low, high) ==
  [Type("int", wider, {n \in wider : n <= high},
        [n \in wider |-> IF n < low THEN Wrapped(n, SmallBits) ELSE n], 0)
     EXCEPT !.holds = low .. high]

Bool == Type("bool", BOOLEAN, BOOLEAN, Same(BOOLEAN), FALSE)
Int16 == Small(Signed(Bits), -(2^(SmallBits - 1)), 2^(SmallBits - 1) - 1)
Int32 == Type("int", Signed(Bits), Signed(Bits), Same(Signed(Bits)), 0)
Int64 == Type("int", Signed(WideBits), Signed(WideBits), Same(Signed(WideBits)), 0)
UInt8 == Small(Unsigned(Bits), 0, 2^SmallBits - 1)
UInt16 == Small(Unsigned(Bits), 0, 2^SmallBits - 1)
UInt32 == Type("int", Unsigned(Bits), Unsigned(Bits), Same(Unsigned(Bits)), 0)
UInt64 == Type("int", Unsigned(WideBits), Unsigned(WideBits), Same(Unsigned(WideBits)), 0)
Float == Type("float", {"1.5"}, {"1.5"}, Same({"1.5"}), "0.0")

Strings == {"", "name", " name ", "two words", "/path", "https://host", "\\n"}
Bare == [s \in Strings \cup {"host"} |-> IF s = "https://host" THEN "host" ELSE s]

Text == Type("string", Strings, Strings, Same(Strings), "")
SqlName == Type("string", Strings, {"", "name"}, Same(Strings), "")
SubUrl ==
  Type("string", Strings, Strings,
       [s \in Strings |-> IF s \in {"/path", "https://host"} THEN s ELSE "/" \o s], "")
Trimmed ==
  Type("string", Strings, Strings, [s \in Strings |-> IF s = " name " THEN "name" ELSE s], "")
FirstChar ==
  Type("string", Strings, Strings,
       ("" :> "\\0" @@ "\\n" :> "newline" @@ " name " :> " " @@ "name" :> "n"
          @@ "two words" :> "t" @@ "/path" :> "/" @@ "https://host" :> "h"), "\\0")

IsChar(type) == type.json = "string" /\ type.default = "\\0"

\* Mutant: values of another type are left out.
ConvertedIfTyped(type, json) ==
  IF json[1] # type.json THEN <<>>
  ELSE IF json[2] \in type.accepted \cap type.kept THEN <<type.value[json[2]]>> ELSE <<>>

\* What one item of an array adds to it.
Converted(type, json) ==
  IF json[1] # type.json THEN <<type.default>>
  ELSE IF json[2] \notin type.accepted THEN <<type.default>>
  ELSE IF json[2] \in type.kept THEN <<type.value[json[2]]>> ELSE <<>>

ParsedArray(type, old, json) ==
  IF json[1] = "array"
  THEN FlattenSeq([i \in DOMAIN json[2] |-> Converted(type, json[2][i])])
  ELSE old

\* A value of the wrong type, or that is not kept, leaves the option alone;
\* null is accepted by all types but characters.
ParsedSingle(type, old, json) ==
  IF json = Null THEN IF IsChar(type) THEN old ELSE <<type.default>>
  ELSE IF json[1] # type.json THEN old
  ELSE IF json[2] \notin type.accepted \cap type.kept THEN old
  ELSE <<type.value[json[2]]>>

-----------------------------------------------------------------------------
(* The options of the modules, in groups of parallel arrays: the names that *)
(* make an element complete, and the names of its further properties.       *)

All(names, type) == [n \in names |-> type]
Group(category, required, others) ==
  [category |-> category, required |-> required, others |-> others, single |-> <<>>]

Variables ==
  Group("variables", "name" :> Text @@ "source" :> UInt8,
        All({"query", "skip.query"}, UInt64) @@ "alias.add" :> Int64
          @@ All({"parsed.table", "parsed.column", "datetime.format", "datetime.locale",
                  "alias"}, Text))
ExtractorTokens ==
  Group("variables", "tokens" :> Text @@ "tokens.source" :> Text @@ "tokens.query" :> UInt64,
        "tokens.cookies" :> Text @@ "tokens.use.post" :> Bool)
ExtractorDates ==
  Group("extracting", "datetime.queries" :> UInt64,
        All({"datetime.formats", "datetime.locales"}, Text))
ExtractorFields ==
  Group("extracting", "field.names" :> Text @@ "field.queries" :> UInt64,
        All({"field.datetime.formats", "field.datetime.locales"}, Text)
          @@ "field.delimiters" :> FirstChar
          @@ All({"field.ignore.empty", "field.json", "field.tidy.texts",
                  "field.warnings.empty"}, Bool))
LinkedFields ==
  Group("linked", "field.names" :> Text @@ "field.queries" :> UInt64,
        All({"datetime.formats", "datetime.locales"}, Text) @@ "delimiters" :> FirstChar
          @@ All({"ignore.empty", "json", "tidy.texts", "warnings.empty"}, Bool))
ParserDates ==
  Group("parser", "datetime.queries" :> UInt64 @@ "datetime.sources" :> UInt16,
        All({"datetime.formats", "datetime.locales"}, Text))
ParserFields ==
  Group("parser", "field.names" :> SqlName @@ "field.queries" :> UInt64
                    @@ "field.sources" :> UInt8,
        All({"field.datetime.formats", "field.datetime.locales"}, Text)
          @@ "field.delimiters" :> FirstChar
          @@ All({"field.ignore.empty", "field.json", "field.tidy.texts",
                  "field.warnings.empty"}, Bool))
ParserIds == Group("parser", "id.queries" :> UInt64 @@ "id.sources" :> UInt8, <<>>)
Archives ==
  Group("crawler", All({"archives.names", "archives.urls.timemap"}, Text)
                     @@ "archives.urls.memento" :> Trimmed, <<>>)
Counters ==
  Group("custom", "counters" :> Text @@ All({"counters.start", "counters.end"}, Int64),
        "counters.step" :> Int64 @@ "counters.alias.add" :> UInt64 @@ "counters.alias" :> Text)
CrawlerTokens ==
  Group("custom", "tokens" :> Text @@ "tokens.source" :> Text @@ "tokens.query" :> UInt64,
        "tokens.cookies" :> Text @@ "tokens.keep" :> UInt32
          @@ All({"tokens.use.post", "tokens.required"}, Bool))
RedirectVars ==
  Group("redirect", "var.names" :> Text @@ "var.queries" :> UInt64 @@ "var.sources" :> UInt8,
        <<>>)
Inputs ==
  Group("general", All({"input.fields", "input.tables"}, SqlName) @@ "input.sources" :> UInt8,
        <<>>)
Manipulators ==
  Group("tokenizer", "manipulators" :> UInt16, All({"dicts", "models", "languages"}, Text))
\* Options with one value.
Singles ==
  [Group("crawler", <<>>, <<>>) EXCEPT !.single =
     "archives" :> Bool @@ "logging" :> UInt8 @@ "url.chunks" :> UInt16
       @@ "lock" :> UInt32 @@ "restart.after" :> Int32 @@ "retries" :> Int64
       @@ "start" :> SubUrl]

\* Types that only algorithms use, or nothing yet, under names of their own.
OtherTypes ==
  [Group("other", <<>>, "int16s" :> Int16 @@ "floats" :> Float) EXCEPT !.single =
     "int16" :> Int16 @@ "float" :> Float @@ "char" :> FirstChar @@ "string" :> SqlName]

Groups ==
  [variables |-> Variables, extractorTokens |-> ExtractorTokens,
   extractorDates |-> ExtractorDates, extractorFields |-> ExtractorFields,
   linkedFields |-> LinkedFields, parserDates |-> ParserDates, parserFields |-> ParserFields,
   parserIds |-> ParserIds, archives |-> Archives, counters |-> Counters,
   crawlerTokens |-> CrawlerTokens, redirectVars |-> RedirectVars, inputs |-> Inputs,
   manipulators |-> Manipulators, singles |-> Singles, otherTypes |-> OtherTypes]

Category == Groups[given.group].category
Required == DOMAIN Groups[given.group].required
SingleOptions == DOMAIN Groups[given.group].single
Types ==
  [g \in DOMAIN Groups |-> Groups[g].required @@ Groups[g].others @@ Groups[g].single]
TypeOf(o) == Types[given.group][o]
Options == DOMAIN Types[given.group]

\* The options as they are constructed: one archive, single values, else nothing.
Constructed(g, o) ==
  IF g = "archives" THEN <<"name">>
  ELSE IF o \in DOMAIN Groups[g].single THEN <<Types[g][o].default>> ELSE <<>>

Init ==
  /\ given \in Configurations
  /\ options = [o \in Options |-> Constructed(given.group, o)]
  /\ item = NoItem
  /\ status = "loading"
  /\ history = [option |-> "", ignored |-> FALSE, count |-> 0, arrays |-> <<>>]

-----------------------------------------------------------------------------
(* Reading the entries: loadConfig().                                       *)

Values(o) ==
  LET sent == given.values[TypeOf(o).json]
  IN IF o \in SingleOptions THEN sent
     ELSE {<<"array", s>> : s \in BoundedSeq(sent, given.length)} \cup (sent \cap {Null})

WellFormed ==
  UNION {{[category |-> Category, name |-> o, value |-> v] : v \in Values(o)} : o \in Options}

\* Entries with a member that is missing or no string.
Malformed ==
  IF ~given.malformed THEN {}
  ELSE UNION {{[e EXCEPT !.category = s], [e EXCEPT !.name = s], [e EXCEPT !.value = NoValue]} :
                e \in WellFormed, s \in {Missing, Invalid}}

\* The members of currentItem, which an entry overwrites if it has them.
Member(sent, left) == IF sent \in {Missing, Invalid} THEN left ELSE sent
Named(e) == [category |-> Member(e.category, item.category), name |-> Member(e.name, item.name)]

Ignored(e) ==
  \/ Invalid \in {e.category, e.name}
  \/ "" \in {Named(e).category, Named(e).name}
  \/ e.value = NoValue

Read(e, arrays) ==
  history' = [option |-> IF e.category = Category THEN e.name ELSE "",
              ignored |-> Ignored(e), count |-> history.count + 1,
              arrays |-> arrays @@ history.arrays]

\* Mutant: currentItem is not cleared.
ItemKept(e) == Named(e)

\* What is left in currentItem by an entry that has been parsed.
ItemAfter(e) == NoItem

IgnoreEntry(e) ==
  /\ Ignored(e)
  /\ item' = Named(e)
  /\ Read(e, <<>>)
  /\ UNCHANGED <<given, options, status>>

Parsed(o, json) ==
  IF o \in SingleOptions THEN ParsedSingle(TypeOf(o), options[o], json)
  ELSE ParsedArray(TypeOf(o), options[o], json)

ParseEntry(e) ==
  LET o == Named(e).name
      found == Named(e).category = Category /\ o \in Options
  IN /\ ~Ignored(e)
     /\ item' = ItemAfter(e)
     /\ options' = IF found THEN [options EXCEPT ![o] = Parsed(o, e.value)] ELSE options
     /\ Read(e, IF found /\ e.value[1] = "array" THEN o :> e.value[2] ELSE <<>>)
     /\ UNCHANGED <<given, status>>

LoadEntry ==
  /\ status = "loading" /\ history.count < given.entries
  /\ \E e \in WellFormed \cup Malformed : IgnoreEntry(e) \/ ParseEntry(e)

\* An entry that is no object ends the loading without any check.
LoadNoObject ==
  /\ status = "loading" /\ given.malformed
  /\ status' = "unchecked"
  /\ UNCHANGED <<given, options, item, history>>

-----------------------------------------------------------------------------
(* Checking the options: checkOptions() of the modules.                     *)

\* The number of complete elements, which is that of the shortest array.
Complete == Min({Len(options[o]) : o \in Required})

\* What resize() appends to an array that is too short.
Filling(o) ==
  CASE o \in {"field.ignore.empty", "ignore.empty"} -> TRUE
    [] o = "counters.step" -> 1
    [] OTHER -> TypeOf(o).default

\* The formats of linked fields get the number of the fields that are not linked.
Size(o) ==
  IF given.group = "linkedFields" /\ o = "datetime.formats" THEN given.fields ELSE Complete

Resized(o) ==
  [i \in 1 .. Size(o) |-> IF i <= Len(options[o]) THEN options[o][i] ELSE Filling(o)]

\* Values with a meaning that is not their own.
Finished(o, v) ==
  CASE IsChar(TypeOf(o)) /\ v = "\\0" -> "newline"
    [] given.group \in {"extractorDates", "parserDates"} /\ o = "datetime.formats" /\ v = "" -> "%F %T"
    [] given.group = "extractorTokens" /\ o = "tokens.source" -> Bare[v]
    [] OTHER -> v

Checked ==
  IF Required = {} THEN options
  ELSE [o \in Options |-> [i \in DOMAIN Resized(o) |-> Finished(o, Resized(o)[i])]]

\* Counters whose loop would not end are removed, with all of their properties.
Endless(counters, i) ==
  LET start == counters["counters.start"][i]
      end == counters["counters.end"][i]
      step == counters["counters.step"][i]
  IN \/ step <= 0 /\ start < end
     \/ step >= 0 /\ start > end

WithoutEndless(counters) ==
  LET kept == SetToSortSeq({i \in DOMAIN counters["counters"] : ~Endless(counters, i)}, LAMBDA i, j : i < j)
  IN [o \in Options |-> [i \in DOMAIN kept |-> counters[o][kept[i]]]]

\* A crawler must have queries for links, a parser and an extractor a table.
CheckOptions ==
  /\ status = "loading" /\ history.count > 0
  /\ IF given.essential
     THEN /\ options' = IF given.group = "counters" THEN WithoutEndless(Checked) ELSE Checked
          /\ status' = "loaded"
     ELSE status' = "rejected" /\ UNCHANGED options
  /\ UNCHANGED <<given, item, history>>

Next == LoadEntry \/ LoadNoObject \/ CheckOptions

Spec == Init /\ [][Next]_vars

-----------------------------------------------------------------------------
(* Properties.                                                              *)

\* Every option has values of its type, single options exactly one: no number
\* is stored that its type cannot hold.
TypeOK ==
  /\ status \in {"loading", "loaded", "rejected", "unchecked"}
  /\ DOMAIN options = Options
  /\ status = "loading" => \A o \in Options : Range(options[o]) \subseteq TypeOf(o).holds
  /\ \A o \in SingleOptions : Len(options[o]) = 1

\* Once the options have been checked, the arrays of a group have one length,
\* so that the threads may use one index for all of them, whatever has been
\* given; apart from the formats of linked fields (Extractor/Config.hpp:1502).
ArraysAreParallel ==
  status = "loaded" /\ Required # {} =>
    \A a, b \in Options :
      \/ given.group = "linkedFields" /\ "datetime.formats" \in {a, b}
      \/ Len(options[a]) = Len(options[b])

Suits(type, json) == json[1] = type.json /\ json[2] \in type.accepted
LeftOut(type, json) == Suits(type, json) /\ json[2] \notin type.kept
Meant(type, json) == IF Suits(type, json) THEN type.value[json[2]] ELSE type.default

\* An element of an array stays at its position, also if elements before it are
\* of the wrong type, since the position is what connects it to its group;
\* unless a number too large or a name unfit for SQL has been left out before.
PositionsAreKept ==
  status = "loaded" /\ given.group # "counters" =>
    \A o \in DOMAIN history.arrays :
      \A i \in 1 .. Min({Len(options[o]), Len(history.arrays[o])}) :
        \/ \E j \in 1..i : LeftOut(TypeOf(o), history.arrays[o][j])
        \/ options[o][i] = Finished(o, Meant(TypeOf(o), history.arrays[o][i]))

\* Every counter that is left after checking ends, and is one of the counters
\* that have been given, with its own start and end.
CountersEnd ==
  status = "loaded" /\ given.group = "counters" =>
    \A i \in DOMAIN options["counters"] :
      LET start == options["counters.start"][i]
          end == options["counters.end"][i]
          step == options["counters.step"][i]
          Was(o, j) == j \in DOMAIN history.arrays[o] /\ Meant(Int64, history.arrays[o][j]) = options[o][i]
      IN /\ (start = end \/ IF start < end THEN step > 0 ELSE step < 0)
         /\ \E j \in 1 .. given.length : Was("counters.start", j) /\ Was("counters.end", j)

\* An entry changes only the option whose category and name it has, unless the
\* one before it has been ignored and left its own.
EntryIsIndependent ==
  status' = "loading" /\ ~history.ignored =>
    \A o \in Options : options'[o] # options[o] => o = history'.option
=============================================================================
