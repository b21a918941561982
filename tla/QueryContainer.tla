--------------------------- MODULE QueryContainer ---------------------------
(***************************************************************************)
(* The query target of a module thread and the subsets made from it        *)
(* (crawlserv/src/Query/Container.hpp).  Content is parsed when a query    *)
(* first needs it; the subsets a query finds are kept as parsed documents  *)
(* of the kind it works on, are turned into strings when a query of        *)
(* another kind needs them, and are visited one after the other, while     *)
(* queries on the current one insert more behind it.  One thread uses a    *)
(* container: what can go wrong is a sequence of calls.                    *)
(***************************************************************************)
EXTENDS Naturals, Sequences

CONSTANTS
  Targets,    \* contents, as positive numbers
  MaxSubSets, \* bound on the subsets of a target
  MaxResults  \* bound on the results of a query for subsets

ASSUME BoundsAssumption ==
  Targets \subseteq Nat \ {0} /\ MaxSubSets \in Nat /\ MaxResults \in 0 .. MaxSubSets

VARIABLES
  target,   \* queryTargetPtr and queryTargetSourcePtr: 0 is nullptr
  doc,      \* xmlParsed, jsonParsedRapid, jsonParsedCons: what has been parsed (0: nothing)
  docError, \* xmlParsingError, jsonParsingError are not empty
  subSet,   \* the subsets, see NoSubSets
  thrown,   \* what the last call has thrown
  order,    \* the subsets as the queries have found them
  made,     \* the query that has set the subsets
  seen      \* the current subset and what the last query on it has worked on

content == <<target, doc, docError>>
vars == <<content, subSet, thrown, order, made, seen>>

Parsers == {"xml", "rapid", "cons"}
Errors == {"xml", "json"}
DocumentTypes == {"xpath", "pointer", "path"}
Joined == {"xpathpointer", "xpathpath"}
Queries == {"regex"} \cup DocumentTypes \cup Joined

Parser == [xpath |-> "xml", pointer |-> "rapid", path |-> "cons",
           xpathpointer |-> "xml", xpathpath |-> "xml"]
ErrorOf(p) == IF p = "xml" THEN "xml" ELSE "json"
\* The kind of document a query for subsets returns.
ResultType ==
  [regex |-> "regex", xpath |-> "xpath", pointer |-> "pointer", path |-> "path",
   xpathpointer |-> "pointer", xpathpath |-> "path"]

\* A subset is its number; freed or moved from, it is lost.
Lost == MaxSubSets + 1
Nothing == [p \in Parsers |-> 0]
NoErrors == [e \in Errors |-> FALSE]

\* subSetType, subSetNumber, subSetCurrent; xPathSubSets, jsonPointerSubSets,
\* jsonPathSubSets; stringifiedSubSets; the parsing state of the current subset.
NoSubSets ==
  [type |-> "none", number |-> 0, current |-> 0,
   docs |-> [t \in DocumentTypes |-> <<>>], strings |-> <<>>,
   parsed |-> Nothing, error |-> NoErrors]

Init ==
  /\ target = 0 /\ doc = Nothing /\ docError = NoErrors
  /\ subSet = NoSubSets
  /\ thrown = "none" /\ order = <<>> /\ made = "regex" /\ seen = <<0, 0>>

-----------------------------------------------------------------------------
(* The target.                                                              *)

\* Mutant: what has been parsed is kept.
SetTargetOnly(t) ==
  /\ target' = t /\ UNCHANGED <<doc, docError>>
  /\ subSet' = NoSubSets
  /\ thrown' = "none" /\ order' = <<>> /\ made' = "regex" /\ seen' = <<0, 0>>

SetTarget(t) ==
  /\ target' = t /\ doc' = Nothing /\ docError' = NoErrors
  /\ subSet' = NoSubSets
  /\ thrown' = "none" /\ order' = <<>> /\ made' = "regex" /\ seen' = <<0, 0>>

\* setQueryTarget() clears the old target first.
SetQueryTarget == \E t \in Targets : SetTarget(t)

ClearQueryTarget == target # 0 /\ SetTarget(0)

\* The thread gives up a content when a call has thrown.
MayCall == thrown = "none"

Throw(what) == thrown' = what /\ UNCHANGED <<content, subSet, order, made, seen>>

\* parseXml(), parseJsonRapid(), parseJsonCons(); one error for both ways of
\* parsing JSON.
ParseContent(p, ok) ==
  IF doc[p] # 0 \/ docError[ErrorOf(p)] THEN UNCHANGED <<doc, docError>>
  ELSE IF ok THEN doc' = [doc EXCEPT ![p] = target] /\ UNCHANGED docError
  ELSE docError' = [docError EXCEPT ![ErrorOf(p)] = TRUE] /\ UNCHANGED doc

\* A query on the content parses it, if necessary, and returns values.
QueryContent(q) ==
  /\ MayCall
  /\ \/ target = 0 /\ Throw("container")
     \/ /\ target # 0 /\ q # "regex"
        /\ \E ok \in BOOLEAN : ParseContent(Parser[q], ok)
        /\ UNCHANGED <<target, subSet, thrown, order, made, seen>>

-----------------------------------------------------------------------------
(* Setting the subsets.                                                     *)

New(n) == [i \in 1 .. n |-> Len(order) + i]

\* The vector a query fills, and its type; the result of a RegEx query has none.
Filled(q, found) ==
  IF q = "regex" THEN [NoSubSets EXCEPT !.strings = found, !.number = Len(found)]
  ELSE [NoSubSets EXCEPT !.type = ResultType[q], !.docs[ResultType[q]] = found,
                         !.number = IF q \in Joined THEN 0 ELSE Len(found)]

SetSubSetsFromQuery(q) ==
  /\ MayCall
  /\ \/ /\ target = 0
        /\ thrown' = "container" /\ subSet' = Filled(q, <<>>)
        /\ UNCHANGED <<content, order, made, seen>>
     \/ /\ target # 0
        /\ \E ok \in BOOLEAN, n \in 0 .. MaxResults :
             /\ IF q = "regex" THEN UNCHANGED <<doc, docError>>
                ELSE ParseContent(Parser[q], ok)
             /\ LET found == IF q = "regex" \/ doc'[Parser[q]] # 0
                             THEN [i \in 1 .. n |-> i] ELSE <<>>
                IN subSet' = Filled(q, found) /\ order' = found
        /\ made' = q
        /\ seen' = <<0, 0>>
        /\ UNCHANGED <<target, thrown>>

-----------------------------------------------------------------------------
(* Functions of the subsets, used while a call is executed; "failed" is what *)
(* they throw, "added" how many subsets a query has found.                   *)

Fine(s) == [subSet |-> s, failed |-> "none", added |-> 0]
Failed(s, what) == [subSet |-> s, failed |-> what, added |-> 0]

\* stringifySubSets(): the content of a document that has been freed cannot be
\* printed as XML; as JSON it is null.
Stringify(s) ==
  IF s.strings # <<>> \/ s.type \notin DocumentTypes THEN Fine(s)
  ELSE IF s.type = "xpath" /\ \E i \in DOMAIN s.docs["xpath"] : s.docs["xpath"][i] = Lost
  THEN Failed(s, "xml")
  ELSE Fine([s EXCEPT !.strings = s.docs[s.type]])

OwnParser(s, p) == s.type \in DocumentTypes /\ Parser[s.type] = p

\* parseSubSetXml(), parseSubSetJsonRapid(), parseSubSetJsonCons()
ParseSubSet(s, p, ok) ==
  IF OwnParser(s, p) \/ s.parsed[p] # 0 \/ s.error[ErrorOf(p)] THEN Fine(s)
  ELSE LET e == Stringify(s) IN
    IF e.failed # "none" THEN e
    ELSE IF Len(e.subSet.strings) < s.current THEN Failed(e.subSet, "range")
    ELSE IF ok THEN Fine([e.subSet EXCEPT !.parsed[p] = e.subSet.strings[s.current]])
    ELSE Fine([e.subSet EXCEPT !.error[ErrorOf(p)] = TRUE])

\* What a query with this parser works on; 0: there is nothing, the query fails.
Document(s, p) ==
  IF ~OwnParser(s, p) THEN s.parsed[p]
  ELSE IF p = "xml" /\ s.docs["xpath"][s.current] = Lost THEN 0
  ELSE s.docs[s.type][s.current]

-----------------------------------------------------------------------------
(* Visiting the subsets.                                                    *)

Free(s) ==
  [s EXCEPT !.strings = [i \in DOMAIN @ |-> IF i = s.current THEN Lost ELSE @[i]],
            !.docs = [t \in DocumentTypes |-> [i \in DOMAIN @[t] |->
                        IF i = s.current THEN Lost ELSE @[t][i]]]]

\* The parsing state stays as it is.  The string to be freed is taken with at(),
\* whether there are strings or not.
NextSubSet ==
  /\ MayCall
  /\ LET s == subSet IN
       \/ s.number < s.current /\ Throw("container")
       \/ /\ s.current < s.number /\ s.current > Len(s.strings)
          /\ Throw("range")
       \/ /\ s.current < s.number /\ s.current <= Len(s.strings)
          /\ subSet' = [(IF s.current = 0 THEN s ELSE Free(s)) EXCEPT !.current = @ + 1]
          /\ seen' = <<0, 0>>
          /\ UNCHANGED <<content, thrown, order, made>>

Unselected == target = 0 \/ subSet.current = 0 \/ subSet.current > subSet.number

\* A query on the current subset: as a string, or parsed by its parser.
GetFromQueryOnSubSet(q) ==
  /\ MayCall
  /\ \/ Unselected /\ Throw("container")
     \/ /\ ~Unselected
        /\ \E ok \in BOOLEAN :
             LET e == IF q = "regex" THEN Stringify(subSet) ELSE ParseSubSet(subSet, Parser[q], ok)
                 range == q = "regex" /\ Len(e.subSet.strings) < subSet.current
                 used == IF q = "regex" THEN e.subSet.strings[subSet.current]
                         ELSE Document(e.subSet, Parser[q])
             IN /\ subSet' = e.subSet
                /\ thrown' = IF e.failed = "none" /\ range THEN "range" ELSE e.failed
                /\ seen' = IF thrown' # "none" \/ used = 0 THEN seen
                           ELSE <<order[subSet.current], used>>
        /\ UNCHANGED <<content, order, made>>

-----------------------------------------------------------------------------
(* Inserting subsets behind the current one.                                *)

\* Mutant: the new ones go before the current one.
MoveBefore(to, from, at) == SubSeq(to, 1, at - 1) \o from \o SubSeq(to, at, Len(to))

\* Helper::Container::moveInto()
MoveInto(to, from, at) == SubSeq(to, 1, at) \o from \o SubSeq(to, at + 1, Len(to))

\* insertSubSets() for the four kinds of results.  The new documents have been moved
\* when they are turned into strings.
InsertSubSets(s, t, new) ==
  LET counted == [s EXCEPT !.number = @ + Len(new)]
      emptied == [i \in DOMAIN new |-> Lost]
  IN IF t = s.type /\ t # "regex"
     THEN LET moved == [counted EXCEPT !.docs[t] = MoveInto(@, new, s.current)] IN
       IF s.strings = <<>> THEN Fine(moved)
       ELSE IF t = "xpath" THEN Failed(moved, "xml")
       ELSE Fine([moved EXCEPT !.strings = MoveInto(@, emptied, s.current)])
     ELSE IF Len(s.strings) < s.current THEN Failed(counted, "undefined")
     ELSE Fine([counted EXCEPT !.strings = MoveInto(@, new, s.current),
                               !.docs = NoSubSets.docs, !.type = "regex"])

\* The query is executed on the current subset as a string, or parsed.  For JSONPath,
\* it is parsed with RapidJSON, and the result of jsoncons is used.
AddSubSets(q, ok, n) ==
  LET p == IF q = "path" THEN "rapid" ELSE Parser[q]
      e == IF q = "regex" THEN Stringify(subSet) ELSE ParseSubSet(subSet, p, ok)
      range == q = "regex" /\ Len(e.subSet.strings) < subSet.current
      parsed == q = "regex" \/ Document(e.subSet, p) # 0
      found == parsed /\ (q = "path" => Document(e.subSet, "cons") # 0)
      \* the JSON found by XPath is not empty (ok): the strings will be needed
      f == IF q \in Joined /\ found /\ ok THEN Stringify(e.subSet) ELSE e
  IN IF e.failed # "none" THEN e
     ELSE IF range THEN Failed(e.subSet, "range")
     ELSE IF f.failed # "none" THEN f
     ELSE IF ~found \/ n = 0 THEN f
     ELSE [InsertSubSets(f.subSet, ResultType[q], New(n)) EXCEPT !.added = n]

\* Where the subsets a query finds belong: behind the one it has worked on.
Behind(at, new) ==
  [i \in 1 .. Len(order) + Len(new) |->
     IF i <= at THEN order[i]
     ELSE IF i <= at + Len(new) THEN new[i - at] ELSE order[i - Len(new)]]

AddSubSetsFromQueryOnSubSet(q) ==
  /\ MayCall
  /\ \/ Unselected /\ Throw("container")
     \/ /\ ~Unselected
        /\ \E ok \in BOOLEAN, n \in 0 .. MaxResults :
             /\ Len(order) + n <= MaxSubSets
             /\ LET e == AddSubSets(q, ok, n) IN
                  /\ subSet' = e.subSet /\ thrown' = e.failed
                  /\ order' = Behind(subSet.current, New(e.added))
        /\ seen' = <<0, 0>>
        /\ UNCHANGED <<content, made>>

Next ==
  \/ SetQueryTarget \/ ClearQueryTarget \/ NextSubSet
  \/ \E q \in Queries :
       \/ QueryContent(q) \/ SetSubSetsFromQuery(q)
       \/ GetFromQueryOnSubSet(q) \/ AddSubSetsFromQueryOnSubSet(q)

Spec == Init /\ [][Next]_vars

-----------------------------------------------------------------------------

Numbers == 0 .. Lost
SubSets ==
  [type : {"none", "regex"} \cup DocumentTypes, number : 0 .. MaxSubSets, current : 0 .. MaxSubSets,
   docs : [DocumentTypes -> Seq(Numbers)], strings : Seq(Numbers),
   parsed : [Parsers -> Numbers], error : [Errors -> BOOLEAN]]

\* Types; no more subsets are counted, and the cursor is no further, than the subsets
\* that have been found.
TypeOK ==
  /\ target \in Targets \cup {0}
  /\ doc \in [Parsers -> Targets \cup {0}] /\ docError \in [Errors -> BOOLEAN]
  /\ subSet \in SubSets
  /\ thrown \in {"none", "container", "range", "xml", "undefined"}
  /\ order \in Seq(1 .. MaxSubSets) /\ made \in Queries
  /\ seen \in Numbers \X Numbers

\* nextSubSet() never goes past the last subset, whatever has been inserted.
CursorIsInRange == subSet.current <= subSet.number

\* What has been parsed belongs to the target: a new one is parsed again.
ParsedContentIsTheTarget == \A p \in Parsers : doc[p] \in {0, target}

\* getNumberOfSubSets() counts the subsets the queries have found.  (Queries that apply
\* a JSON query to the result of an XPath query do not count: README.)
SubSetsAreCounted == made \notin Joined /\ thrown = "none" => subSet.number = Len(order)

\* There are documents of the type of the subsets only, one for each subset, or strings
\* for all of them, or both.
RepresentationsAreComplete ==
  thrown = "none" =>
    /\ \A t \in DocumentTypes :
         Len(subSet.docs[t]) = IF t = subSet.type THEN Len(order) ELSE 0
    /\ Len(subSet.strings) \in {0, Len(order)}
    /\ subSet.type \notin DocumentTypes => Len(subSet.strings) = Len(order)

\* Documents and strings keep the positions of their subsets, through all insertions:
\* a position never holds a subset that belongs to another one.
PositionsAgree ==
  thrown = "none" =>
    /\ \A t \in DocumentTypes : \A i \in DOMAIN subSet.docs[t] :
         subSet.docs[t][i] \in {order[i], Lost}
    /\ \A i \in DOMAIN subSet.strings : subSet.strings[i] \in {order[i], Lost}

\* Memory is freed behind the cursor only: a document is there until it has been visited.
UnvisitedAreKept ==
  thrown = "none" =>
    \A t \in DocumentTypes : \A i \in DOMAIN subSet.docs[t] :
      i >= subSet.current => subSet.docs[t][i] = order[i]

\* A query on a subset works on the current one, or on one that was visited before: what
\* nextSubSet() leaves of its parsing state (README, observations), or what has been freed.
\* It never works on a subset that is still to come or of another query.
QueriesUseVisitedSubSets ==
  seen[2] \in {0, Lost, seen[1]} \cup {order[i] : i \in 1 .. subSet.current - 1}

\* What has been parsed is that of the target, and a query on a subset is one on a subset
\* that has been reached.
QueriesUseTheirTarget == ParsedContentIsTheTarget /\ QueriesUseVisitedSubSets

\* The subsets that were found are counted, and kept until they have been visited, in all
\* their representations and at their positions.
SubSetsAreKept ==
  /\ CursorIsInRange /\ SubSetsAreCounted
  /\ RepresentationsAreComplete /\ PositionsAgree /\ UnvisitedAreKept
=============================================================================
