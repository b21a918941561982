---------------------------- MODULE WebsiteMove ----------------------------
(***************************************************************************)
(* A website gets another namespace, or another directory for its tables   *)
(* (Main::Database::updateWebsite(), moveWebsite(), cloneTable(),          *)
(* dropTable() and the Transaction they use): tables are renamed, or       *)
(* copied, dropped and replaced by their copies, statement by statement,   *)
(* while worker threads add and delete URLs and statements may fail.       *)
(*                                                                         *)
(* One URL list has four kinds of tables.  The tables of the database are  *)
(* a function from names to their directory, the table whose rows theirs   *)
(* belong to, and their rows, each standing for the URL it belongs to.     *)
(* The server ends a transaction with every statement that changes tables, *)
(* so that none of those that follow START TRANSACTION can be undone.      *)
(***************************************************************************)
EXTENDS Integers, Sequences, SequencesExt

CONSTANTS
  Urls,         \* URLs that the list may contain
  MaxUpdates    \* bound on the number of updates

VARIABLES
  website,   \* its row: namespace and directory
  tables,    \* the tables of the database
  todo,      \* the statements before the end of the update, <<kind, name>>
  wanted,    \* namespace and directory that the update is to set
  session,   \* of the main thread: are keys checked? constraints read by cloneTable()
  meant,     \* the URLs that the list and its content should have
  history    \* the updates so far, and what has gone wrong

vars == <<website, tables, todo, wanted, session, meant, history>>

Namespaces == {"ns", "other"}
Directories == {"default", "external"}
Kinds == <<"list", "status", "content", "target">>
Parent == [status |-> "list", content |-> "list", target |-> "content"]

Name(nameSpace, kind, tmp) == [nameSpace |-> nameSpace, kind |-> kind, tmp |-> tmp]
NoName == Name("none", "none", FALSE)
Original(name) == [name EXCEPT !.tmp = FALSE]
Copy(name) == [name EXCEPT !.tmp = TRUE]

\* The tables of the website, as its row names them.
Own(kind) == Name(website.nameSpace, kind, FALSE)
OwnTables == {Own(Kinds[i]) : i \in DOMAIN Kinds}
ParentName(name) == IF name.kind = "list" THEN NoName ELSE [name EXCEPT !.kind = Parent[name.kind]]

NoHistory == [updates |-> 0, failed |-> FALSE, refused |-> FALSE, repeated |-> FALSE, changed |-> FALSE]

-----------------------------------------------------------------------------
(* Statements on tables.                                                    *)

WithTable(name, table) == [n \in DOMAIN tables \cup {name} |-> IF n = name THEN table ELSE tables[n]]
WithoutTable(name) == [n \in DOMAIN tables \ {name} |-> tables[n]]
Referenced(name) == \E n \in DOMAIN tables : tables[n].parent = name

\* References follow the table.
Renamed(from, to) ==
  [n \in (DOMAIN tables \ {from}) \cup {to} |->
     LET table == tables[IF n = to THEN from ELSE n]
     IN IF table.parent = from THEN [table EXCEPT !.parent = to] ELSE table]

\* What the server accepts: tables exist, new names do not, and no table others refer
\* to is truncated or dropped as long as keys are checked.
Accepted(kind, name) ==
  CASE kind = "rename"      -> name \in DOMAIN tables
                               /\ [name EXCEPT !.nameSpace = wanted.nameSpace] \notin DOMAIN tables
    [] kind = "drop copy"   -> Copy(name) \in DOMAIN tables /\ session.checks => ~Referenced(Copy(name))
    [] kind = "clone"       -> name \in DOMAIN tables /\ Copy(name) \notin DOMAIN tables
    [] kind = "constrain"   -> session.constraints[name] # NoName =>
                                 session.constraints[name] \in DOMAIN tables
    [] kind = "copy"        -> name \in DOMAIN tables
    [] kind = "drop"        -> name \in DOMAIN tables /\ session.checks => ~Referenced(name)
    [] kind = "rename copy" -> name \notin DOMAIN tables
    [] OTHER                -> TRUE

\* A reference into the namespace of the website becomes one to the copy.
Reference(name) ==
  LET parent == tables[name].parent
  IN IF parent.nameSpace = wanted.nameSpace THEN Copy(parent) ELSE parent

Executed(kind, name) ==
  CASE kind = "rename"      -> Renamed(name, [name EXCEPT !.nameSpace = wanted.nameSpace])
    [] kind = "drop copy"   -> WithoutTable(Copy(name))
    [] kind = "clone"       -> WithTable(Copy(name), [dir |-> wanted.dir, parent |-> NoName, rows |-> {}])
    [] kind = "constrain"   -> [tables EXCEPT ![Copy(name)].parent = session.constraints[name]]
    [] kind = "copy"        -> [tables EXCEPT ![Copy(name)].rows = tables[name].rows]
    [] kind = "drop"        -> WithoutTable(name)
    [] kind = "rename copy" -> Renamed(Copy(name), name)
    [] OTHER                -> tables

-----------------------------------------------------------------------------
(* updateWebsite() and moveWebsite().                                       *)

Each(kind, names) == [i \in DOMAIN names |-> <<kind, names[i]>>]
Once(kind) == <<<<kind, NoName>>>>
Names(nameSpace) == [i \in DOMAIN Kinds |-> Name(nameSpace, Kinds[i], FALSE)]

Renaming(nameSpace) ==
  IF nameSpace = website.nameSpace THEN Once("record")
  ELSE Each("rename", Names(website.nameSpace)) \o Once("record")

\* Mutant: the last table is forgotten.
MovingMost(names) ==
  Each("drop copy", Reverse(names)) \o Each("clone", names) \o Each("constrain", names)
  \o Once("checks off") \o Each("copy", Front(names)) \o Once("checks on")
  \o Each("drop", Reverse(names)) \o Each("rename copy", names) \o Once("record dir")

\* Copies are made with their constraints, filled without checks, and take the place
\* of the tables, which are dropped before.
Moving(names) ==
  Each("drop copy", Reverse(names)) \o Each("clone", names) \o Each("constrain", names)
  \o Once("checks off") \o Each("copy", names) \o Once("checks on")
  \o Each("drop", Reverse(names)) \o Each("rename copy", names) \o Once("record dir")

Idle == todo = <<>>

\* Some table is there as a copy only: what an earlier update left.
Interrupted == \E name \in DOMAIN tables : name.tmp /\ Original(name) \notin DOMAIN tables

\* The properties of the website are to become those of the user.
updateWebsite(nameSpace, dir) ==
  /\ Idle /\ history.updates < MaxUpdates
  /\ todo' = Renaming(nameSpace) \o (IF dir = website.dir THEN <<>> ELSE Moving(Names(nameSpace)))
  /\ wanted' = [nameSpace |-> nameSpace, dir |-> dir]
  /\ history' = [history EXCEPT !.updates = @ + 1, !.repeated = @ \/ Interrupted]
  /\ UNCHANGED <<website, tables, session, meant>>

Statement(kind, name) ==
  /\ tables' = Executed(kind, name)
  /\ session' =
       [session EXCEPT
          !.checks = IF kind = "checks off" THEN FALSE ELSE IF kind = "checks on" THEN TRUE ELSE @,
          !.constraints[name] = IF kind = "clone" THEN Reference(name) ELSE @]
  /\ website' = CASE kind = "record"     -> [website EXCEPT !.nameSpace = wanted.nameSpace]
                  [] kind = "record dir" -> [website EXCEPT !.dir = wanted.dir]
                  [] OTHER               -> website

Execute ==
  /\ ~Idle /\ Accepted(Head(todo)[1], Head(todo)[2])
  /\ Statement(Head(todo)[1], Head(todo)[2])
  /\ todo' = Tail(todo)
  /\ UNCHANGED <<wanted, meant, history>>

\* An exception: the rest is not executed.  With a new connection keys are checked.
Fail(lost) ==
  /\ ~Idle
  /\ todo' = <<>>
  /\ session' = [session EXCEPT !.checks = @ \/ lost]
  /\ history' = [history EXCEPT !.failed = TRUE,
                   !.refused = @ \/ (~history.failed /\ ~Accepted(Head(todo)[1], Head(todo)[2]))]
  /\ UNCHANGED <<website, tables, wanted, meant>>

-----------------------------------------------------------------------------
(* Worker threads, with connections of their own.                           *)

\* Rows that belong to a row that is deleted.
Belonging(name) ==
  {n \in DOMAIN tables :
     \/ n = name
     \/ tables[n].parent = name
     \/ tables[n].parent \in DOMAIN tables /\ tables[tables[n].parent].parent = name}

ImportUrl(url) ==
  /\ Own("list") \in DOMAIN tables /\ url \notin tables[Own("list")].rows
  /\ tables' = [tables EXCEPT ![Own("list")].rows = @ \cup {url}]
  /\ meant' = [meant EXCEPT !.list = @ \cup {url}]
  /\ history' = [history EXCEPT !.changed = @ \/ ~Idle]
  /\ UNCHANGED <<website, todo, wanted, session>>

DeleteUrl(url) ==
  /\ Own("list") \in DOMAIN tables /\ url \in tables[Own("list")].rows
  /\ tables' = [n \in DOMAIN tables |->
                  IF n \in Belonging(Own("list")) THEN [tables[n] EXCEPT !.rows = @ \ {url}] ELSE tables[n]]
  /\ meant' = [kind \in DOMAIN meant |-> meant[kind] \ {url}]
  /\ history' = [history EXCEPT !.changed = @ \/ ~Idle]
  /\ UNCHANGED <<website, todo, wanted, session>>

-----------------------------------------------------------------------------
AllNames == {Name(ns, Kinds[i], FALSE) : ns \in Namespaces, i \in DOMAIN Kinds} \cup {NoName}

\* All but one of the URLs have been crawled, parsed and so on.
Init ==
  /\ website = [nameSpace |-> "ns", dir |-> "default"]
  /\ \E url \in Urls :
       /\ meant = [kind \in ToSet(Kinds) |-> Urls \ {url}]
       /\ tables = [name \in OwnTables |->
                      [dir |-> "default", parent |-> ParentName(name), rows |-> Urls \ {url}]]
  /\ todo = <<>> /\ wanted = website
  /\ session = [checks |-> TRUE, constraints |-> [name \in AllNames |-> NoName]]
  /\ history = NoHistory

Next ==
  \/ \E nameSpace \in Namespaces, dir \in Directories : updateWebsite(nameSpace, dir)
  \/ Execute
  \/ \E lost \in BOOLEAN : Fail(lost)
  \/ \E url \in Urls : ImportUrl(url) \/ DeleteUrl(url)

Spec == Init /\ [][Next]_vars

-----------------------------------------------------------------------------
(* Properties.                                                              *)

\* Rows stand for URLs of the list, and copies are made to refer to copies only.
TypeOK ==
  /\ website.nameSpace \in Namespaces /\ website.dir \in Directories
  /\ \A name \in DOMAIN tables : tables[name].rows \subseteq Urls
  /\ \A name \in AllNames : session.constraints[name] # NoName => session.constraints[name].tmp

\* Without failure, no statement of an update is refused: tables are copied, dropped
\* and renamed in an order that respects their references.
NothingIsRefused == ~history.refused

\* Every row the user has can be found in its table or in the table's copy, at every
\* point at which an update may fail, unless workers have changed the list during an
\* update, or an update began although an earlier one had left tables as copies only.
RowsSurvive ==
  ~history.changed /\ ~history.repeated =>
    \A kind \in DOMAIN meant :
      meant[kind] \subseteq UNION {tables[name].rows : name \in {n \in DOMAIN tables : n.kind = kind}}

\* Rows belong to rows, whichever URLs are deleted while keys are not checked.
RowsHaveTheirUrls ==
  Idle /\ ~history.failed =>
    \A name \in OwnTables :
      tables[name].parent # NoName => tables[name].rows \subseteq tables[tables[name].parent].rows

\* Where no update has failed, all tables have the namespace and the directory of the
\* website, refer to each other and not to copies, none is left over, and keys are
\* checked again.
UpdatesAreComplete ==
  Idle /\ ~history.failed =>
    /\ DOMAIN tables = OwnTables
    /\ \A name \in OwnTables : tables[name].dir = website.dir /\ tables[name].parent = ParentName(name)
    /\ session.checks

\* What a failing update has dropped is there again afterwards, so that no row is lost,
\* however often the user repeats the update.
MovesAreRolledBack ==
  ~history.changed =>
    \A kind \in DOMAIN meant :
      meant[kind] \subseteq UNION {tables[name].rows : name \in {n \in DOMAIN tables : n.kind = kind}}
=============================================================================
