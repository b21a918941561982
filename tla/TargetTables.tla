---------------------------- MODULE TargetTables ----------------------------
(***************************************************************************)
(* The target tables of a URL list: parsers, extractors and analyzers      *)
(* create the tables for their results, or extend them with the columns    *)
(* they need, and register them (Main/Database.cpp:                        *)
(* addOrUpdateTargetTable(), createTable(), addColumn(), dropTable(); the  *)
(* initialisations in the Database classes of the modules); the server     *)
(* deletes them with the list.  One action is one SQL statement, since no  *)
(* transaction and no lock joins them.                                     *)
(***************************************************************************)
EXTENDS Integers, Sequences, SequencesExt, FiniteSetsExt

CONSTANTS
  Threads,      \* module threads that use the list
  Instances,    \* the tables that the threads want, see MCTargetTables
  MaxEntries    \* bound on the IDs of registered tables

VARIABLES
  wanted,     \* the tables of each thread, and which names match a pattern
  tables,     \* the tables that exist: their columns, reference and format
  entries,    \* the registered tables: a set of records [id, name]
  nextId,     \* the AUTO_INCREMENT of the table that registers them
  thread,     \* the position of each thread in its initialisation
  deletion,   \* the entries of the list that the server still has to delete
  history     \* whether a table has been registered twice, whether something has
              \* crashed, and whether the server has refused to drop a table

vars == <<wanted, tables, entries, nextId, thread, deletion, history>>

NoDeletion == <<"none">>
NoId == 0

-----------------------------------------------------------------------------
(* The database server.                                                     *)

\* An underscore in a name that is compared by LIKE stands for any character.
Alike(pattern) == {pattern} \cup (IF pattern \in DOMAIN wanted.alike THEN wanted.alike[pattern] ELSE {})

Exists(name) == name \in DOMAIN tables
isTableExists(name) == \E t \in Alike(name) : Exists(t)

ColumnsLike(name, column) ==
  {<<t, c>> \in (DOMAIN tables) \X Alike(column) : t \in Alike(name) /\ c \in DOMAIN tables[t].columns}
isColumnExists(name, column) == ColumnsLike(name, column) # {}

\* A table cannot be dropped while the link of another table references it.
Referenced(name) == \E t \in DOMAIN tables \ {name} : tables[t].reference = name


-----------------------------------------------------------------------------
(* A thread: the tables it initialises one after the other.  A table has a   *)
(* name, columns (pairs of name and type without specifiers), a flag for     *)
(* compression, one for deleting the previous table, and possibly a table    *)
(* that its link references.                                                 *)

Wants(t) == wanted.tables[t]
Current(t) == Wants(t)[thread[t].table]
Column(t) == Current(t).columns[thread[t].column]

Goto(t, step) == thread' = [thread EXCEPT ![t].step = step]
Fails(t) == Goto(t, "failed")

NewThread == [step |-> "idle", table |-> 1, column |-> 1, ids |-> <<>>, disturbed |-> FALSE]

\* The other threads between their check of a table and its use (history).
Disturb(others) ==
  [t \in Threads |-> IF t \in others /\ thread[t].step # "idle" THEN [thread[t] EXCEPT !.disturbed = TRUE] ELSE thread[t]]
Sharing(t, name) == {u \in Threads \ {t} : \E i \in DOMAIN Wants(u) : Wants(u)[i].name = name}

FirstStep(table) == IF table.delete THEN "dropping" ELSE "checking"

StartThread(t) ==
  /\ thread[t].step = "idle" /\ deletion = NoDeletion
  /\ thread' = [thread EXCEPT ![t] = [NewThread EXCEPT !.step = FirstStep(Wants(t)[1])]]
  /\ UNCHANGED <<wanted, tables, entries, nextId, deletion, history>>

\* dropTable(): nothing to do if there is none; the table is emptied first.
CheckOld(t) ==
  /\ thread[t].step = "dropping"
  /\ Goto(t, IF isTableExists(Current(t).name) THEN "emptying" ELSE "checking")
  /\ UNCHANGED <<wanted, tables, entries, nextId, deletion, history>>

clearTable(t) ==
  /\ thread[t].step = "emptying"
  /\ IF Exists(Current(t).name) /\ ~Referenced(Current(t).name) THEN Goto(t, "removing") ELSE Fails(t)
  /\ UNCHANGED <<wanted, tables, entries, nextId, deletion, history>>

DropOld(t) ==
  LET name == Current(t).name
  IN /\ thread[t].step = "removing"
     /\ IF Exists(name) /\ ~Referenced(name)
        THEN /\ tables' = [n \in DOMAIN tables \ {name} |-> tables[n]]
             /\ thread' = [Disturb(Sharing(t, name)) EXCEPT ![t].step = "checking"]
        ELSE Fails(t) /\ UNCHANGED tables
     /\ UNCHANGED <<wanted, entries, nextId, deletion, history>>

\* addOrUpdateTargetTable()
CheckTable(t) ==
  /\ thread[t].step = "checking"
  /\ thread' = [thread EXCEPT ![t].step = IF isTableExists(Current(t).name) THEN "columns" ELSE "creating",
                              ![t].column = 1]
  /\ UNCHANGED <<wanted, tables, entries, nextId, deletion, history>>

CheckColumn(t) ==
  /\ thread[t].step = "columns" /\ thread[t].column <= Len(Current(t).columns)
  /\ Goto(t, IF isColumnExists(Current(t).name, Column(t)[1]) THEN "comparing" ELSE "adding")
  /\ UNCHANGED <<wanted, tables, entries, nextId, deletion, history>>

NextColumn(t) ==
  thread' = [thread EXCEPT ![t].step = "columns", ![t].column = thread[t].column + 1]

\* The type of a column that exists must be the same; that of any column found
\* is taken, and none if the table has been dropped.
CompareType(t) ==
  LET found == ColumnsLike(Current(t).name, Column(t)[1])
  IN /\ thread[t].step = "comparing"
     /\ \/ \E c \in found : IF tables[c[1]].columns[c[2]] = Column(t)[2] THEN NextColumn(t) ELSE Fails(t)
        \/ found = {} /\ Fails(t)
     /\ UNCHANGED <<wanted, tables, entries, nextId, deletion, history>>

addColumn(t) ==
  LET name == Current(t).name
      column == Column(t)
  IN /\ thread[t].step = "adding"
     /\ IF Exists(name) /\ column[1] \notin DOMAIN tables[name].columns
           /\ (column[1] = "link" => Exists(Current(t).reference))
        THEN /\ tables' = [tables EXCEPT
                  ![name].columns = [c \in DOMAIN @ \cup {column[1]} |->
                                       IF c = column[1] THEN column[2] ELSE @[c]],
                  ![name].reference = IF column[1] = "link" THEN Current(t).reference ELSE @]
             /\ NextColumn(t)
        ELSE Fails(t) /\ UNCHANGED tables
     /\ UNCHANGED <<wanted, entries, nextId, deletion, history>>

compressTable(t) ==
  LET name == Current(t).name
  IN /\ thread[t].step = "columns" /\ thread[t].column > Len(Current(t).columns)
     /\ IF ~Current(t).compressed THEN Goto(t, "finding") /\ UNCHANGED tables
        ELSE IF Exists(name)
        THEN tables' = [tables EXCEPT ![name].compressed = TRUE] /\ Goto(t, "finding")
        ELSE Fails(t) /\ UNCHANGED tables
     /\ UNCHANGED <<wanted, entries, nextId, deletion, history>>

Typed(pairs) ==
  [c \in {p[1] : p \in Range(pairs)} |-> (CHOOSE p \in Range(pairs) : p[1] = c)[2]]

\* CREATE TABLE IF NOT EXISTS
createTable(t) ==
  LET name == Current(t).name
      new == [columns |-> Typed(Current(t).columns), reference |-> Current(t).reference,
              compressed |-> Current(t).compressed]
  IN /\ thread[t].step = "creating"
     /\ IF Exists(name) THEN Goto(t, "finding") /\ UNCHANGED tables
        ELSE IF Current(t).reference # "" /\ ~Exists(Current(t).reference)
        THEN Fails(t) /\ UNCHANGED tables
        ELSE /\ tables' = [n \in DOMAIN tables \cup {name} |-> IF n = name THEN new ELSE tables[n]]
             /\ thread' = [Disturb(Sharing(t, name)) EXCEPT ![t].step = "finding"]
     /\ UNCHANGED <<wanted, entries, nextId, deletion, history>>

\* The next table of the thread, or its work.
Initialised(t, id) ==
  LET following == thread[t].table + 1
      more == following <= Len(Wants(t))
  IN thread' = [thread EXCEPT
       ![t].ids = Append(@, id),
       ![t].table = IF more THEN following ELSE @,
       ![t].column = 1,
       ![t].step = IF more THEN FirstStep(Wants(t)[following]) ELSE "ready"]

\* Mutant: the name of the table is not compared.
FindAnyEntry(t) ==
  /\ thread[t].step = "finding"
  /\ \/ \E e \in entries : Initialised(t, e.id)
     \/ entries = {} /\ Goto(t, "registering")
  /\ UNCHANGED <<wanted, tables, entries, nextId, deletion, history>>

FindEntry(t) ==
  LET found == {e \in entries : e.name \in Alike(Current(t).name)}
  IN /\ thread[t].step = "finding"
     /\ \/ \E e \in found : Initialised(t, e.id)
        \/ found = {} /\ Goto(t, "registering")
     /\ UNCHANGED <<wanted, tables, entries, nextId, deletion, history>>

\* The ID returned is that of the row the connection has inserted.
RegisterTable(t) ==
  /\ thread[t].step = "registering" /\ nextId <= MaxEntries
  /\ entries' = entries \cup {[id |-> nextId, name |-> Current(t).name]}
  /\ nextId' = nextId + 1
  /\ Initialised(t, nextId)
  /\ history' = [history EXCEPT !.twice = @ \/ \E e \in entries : e.name = Current(t).name]
  /\ UNCHANGED <<wanted, tables, deletion>>

\* Results are written to columns of the table; if they are missing, the thread
\* ends with an exception.
HasColumns(name, columns) ==
  Exists(name) /\ \A i \in DOMAIN columns : columns[i][1] \in DOMAIN tables[name].columns

WriteResult(t) ==
  /\ thread[t].step = "ready"
  /\ \E i \in DOMAIN Wants(t) : ~HasColumns(Wants(t)[i].name, Wants(t)[i].columns)
  /\ Fails(t)
  /\ UNCHANGED <<wanted, tables, entries, nextId, deletion, history>>

\* A thread is stopped; one that has failed stays until then.
EndThread(t) ==
  /\ thread[t].step \in {"ready", "failed"} /\ deletion = NoDeletion
  /\ thread' = [thread EXCEPT ![t] = NewThread]
  /\ UNCHANGED <<wanted, tables, entries, nextId, deletion, history>>

-----------------------------------------------------------------------------
(* The server: the list is deleted if no thread uses it, entry by entry.    *)

StartDeletion ==
  /\ deletion = NoDeletion
  /\ \A t \in Threads : thread[t].step = "idle"
  /\ deletion' = <<"entries", SetToSortSeq(entries, LAMBDA e, f : e.id < f.id)>>
  /\ UNCHANGED <<wanted, tables, entries, nextId, thread, history>>

DeleteEntry ==
  /\ deletion[1] = "entries" /\ deletion[2] # <<>>
  /\ entries' = entries \ {Head(deletion[2])}
  /\ deletion' = <<"table", deletion[2]>>
  /\ UNCHANGED <<wanted, tables, nextId, thread, history>>

\* The table of the entry is dropped, and the counter reset after the last one;
\* the server refuses to drop a table that is referenced, which ends it all.
DropTarget ==
  LET name == Head(deletion[2]).name
  IN /\ deletion[1] = "table"
     /\ IF Referenced(name)
        THEN /\ deletion' = NoDeletion
             /\ history' = [history EXCEPT !.refused = TRUE]
             /\ UNCHANGED <<tables, nextId>>
        ELSE /\ tables' = [n \in DOMAIN tables \ {name} |-> tables[n]]
             /\ nextId' = IF entries = {} THEN 1 ELSE nextId
             /\ deletion' = <<"entries", Tail(deletion[2])>>
             /\ UNCHANGED history
     /\ UNCHANGED <<wanted, entries, thread>>

\* Then the list itself and its own tables: that of the contents, which the target
\* tables of parsers and extractors reference, can be emptied only if none is left.
DeleteList ==
  /\ deletion = <<"entries", <<>>>>
  /\ deletion' = IF tables = <<>> THEN <<"deleted">> ELSE <<"stuck">>
  /\ UNCHANGED <<wanted, tables, entries, nextId, thread, history>>

\* The connection or the server is lost between two statements.
Crash ==
  /\ deletion \notin {<<"deleted">>, <<"stuck">>}
  /\ deletion' = NoDeletion
  /\ thread' = [t \in Threads |-> NewThread]
  /\ history' = [history EXCEPT !.crashed = TRUE]
  /\ UNCHANGED <<wanted, tables, entries, nextId>>

Init ==
  /\ wanted \in Instances
  /\ tables = <<>> /\ entries = {} /\ nextId = 1
  /\ thread = [t \in Threads |-> NewThread]
  /\ deletion = NoDeletion
  /\ history = [twice |-> FALSE, crashed |-> FALSE, refused |-> FALSE]

ThreadStep(t) ==
  \/ StartThread(t) \/ CheckOld(t) \/ clearTable(t) \/ DropOld(t)
  \/ CheckTable(t) \/ CheckColumn(t) \/ CompareType(t) \/ addColumn(t)
  \/ compressTable(t) \/ createTable(t) \/ FindEntry(t) \/ RegisterTable(t)
  \/ WriteResult(t) \/ EndThread(t)

DeletionStep == StartDeletion \/ DeleteEntry \/ DropTarget \/ DeleteList \/ Crash

Next == (\E t \in Threads : ThreadStep(t)) \/ DeletionStep

Spec == Init /\ [][Next]_vars

-----------------------------------------------------------------------------
(* Properties.                                                              *)

\* The IDs of entries are unique and below the counter, and a thread that works
\* has an ID for each of its tables.
TypeOK ==
  /\ \A e, f \in entries : e.id = f.id => e = f
  /\ \A e \in entries : e.id \in 1 .. (nextId - 1)
  /\ \A t \in Threads : thread[t].step = "ready" => Len(thread[t].ids) = Len(Wants(t))

\* The tables of a thread that works exist and have the columns that it has asked
\* for, of the types it has asked for, if no other thread has created or dropped
\* one of them meanwhile, and no other name matches theirs.
InitialisedTablesFit ==
  \A t \in Threads :
    thread[t].step = "ready" /\ ~thread[t].disturbed /\ wanted.alike = <<>> =>
      \A i \in DOMAIN Wants(t) :
        /\ HasColumns(Wants(t)[i].name, Wants(t)[i].columns)
        /\ \A p \in Range(Wants(t)[i].columns) : tables[Wants(t)[i].name].columns[p[1]] = p[2]

\* The IDs a thread works with are those of its own tables.
IdsAreOwn ==
  \A t \in Threads :
    thread[t].step = "ready" /\ wanted.alike = <<>> =>
      \A i \in DOMAIN Wants(t) : [id |-> thread[t].ids[i], name |-> Wants(t)[i].name] \in entries

Replaced(name) == \E t \in Threads : \E i \in DOMAIN Wants(t) : Wants(t)[i].name = name /\ Wants(t)[i].delete

\* A table that is registered exists, also after a crash, since it is registered
\* last and deleted first; unless two threads have registered it at the same time,
\* or its analyzer replaces it.
EntriesHaveTables ==
  wanted.alike = <<>> /\ ~history.twice =>
    \A e \in entries : Exists(e.name) \/ Replaced(e.name)

\* When a list has been deleted, all of its target tables have been; a deletion
\* gets stuck only if a crash or a table that is referenced has left one behind.
DeletionIsComplete ==
  /\ deletion = <<"deleted">> => tables = <<>> /\ entries = {}
  /\ deletion = <<"stuck">> => history.crashed \/ history.refused \/ wanted.alike # <<>>

\* The columns of a table keep their types as long as the table exists.
TypesAreKept ==
  \A n \in DOMAIN tables \cap DOMAIN tables' :
    \A c \in DOMAIN tables[n].columns : tables'[n].columns[c] = tables[n].columns[c]

=============================================================================
