----------------------------- MODULE ServerData -----------------------------
(***************************************************************************)
(* The data the server administers (crawlserv/src/Main/Server.cpp and      *)
(* Main/Database.cpp): websites, their URL lists, configurations, and the  *)
(* module threads that use them.  A command of the main thread checks its  *)
(* arguments and then executes one SQL statement after the other on the    *)
(* main connection, outside of any transaction.  In between, a worker      *)
(* thread executes merge, import or deleteurls on a connection of its own, *)
(* module threads end, a statement fails, or the server goes down.  Rows   *)
(* refer to each other by ID and foreign key; the tables of a URL list are *)
(* found by a name put together from two namespaces.                       *)
(***************************************************************************)
EXTENDS Naturals, Sequences, FiniteSets, Functions

CONSTANTS
  WebsiteNames, ListNames, \* namespaces, as sequences of words (joined by '_')
  DefaultName,             \* "default"
  Crawler, Parser, Extractor, Analyzer, \* the kinds of module threads
  MaxId,                   \* MaxId[t]: bound on the IDs of a table
  MaxEvents,               \* bound on worker commands, failing statements and crashes
  MaxLoad                  \* bound on these and the module threads in memory together

ASSUME DefaultNameAssumption == DefaultName \in ListNames

VARIABLES
  db,       \* the database, see Database
  threads,  \* module threads in memory, in the order in which they were started
  todo,     \* todo[c]: statements connection c still has to execute
  undone,   \* the website whose addition failed in the last command (0: none)
  faults,   \* number of failed statements and of crashes so far
  works,    \* number of worker commands so far
  raced,    \* a command was accepted while a worker was adding a URL list
  reused    \* IDs of rows given again while another thread object still had them

vars == <<db, threads, todo, undone, faults, works, raced, reused>>

Kinds == {Crawler, Parser, Extractor, Analyzer}
Connections == {"main", "worker"}
RowTables == {"websites", "lists", "configs", "rows"}

\* Rows are partial functions from IDs; tables is the set of the names
\* under which there are tables of a URL list; next holds the AUTO_INCREMENT values.
Id == Nat \ {0}
Table(S) == UNION {[D -> S] : D \in SUBSET Id}
TableNames == {w \o l : w \in WebsiteNames, l \in ListNames}

Row == [kind : Kinds, website : Id, list : Id, config : Id, paused : BOOLEAN]

Database ==
  [websites : Table(WebsiteNames), lists : Table([website : Id, name : ListNames]),
   configs : Table(Id), rows : Table(Row), tables : SUBSET TableNames, next : [RowTables -> Id]]

Events == faults + works
HasLoad == Len(threads) + Events < MaxLoad
HasEvent == HasLoad /\ Events < MaxEvents

Empty == [x \in {} |-> x]
Drop(f, S) == [x \in DOMAIN f \ S |-> f[x]]
Put(f, x, v) == [y \in DOMAIN f \cup {x} |-> IF y = x THEN v ELSE f[y]]

Init ==
  /\ db = [websites |-> Empty, lists |-> Empty, configs |-> Empty, rows |-> Empty,
           tables |-> {}, next |-> [t \in RowTables |-> 1]]
  /\ threads = <<>>
  /\ todo = [c \in Connections |-> <<>>]
  /\ undone = 0 /\ faults = 0
  /\ works = 0 /\ raced = FALSE /\ reused = {}

-----------------------------------------------------------------------------
(* The database: rows, foreign keys with ON DELETE CASCADE, AUTO_INCREMENT. *)

\* Bound: as many IDs are left as the statements will take.
HasRoom(t, n) == db.next[t] + n <= MaxId[t] + 1

Insert(d, t, v) ==
  [d EXCEPT ![t] = Put(@, d.next[t], v), !.next[t] = @ + 1]

\* resetAutoIncrement(), called by the functions that delete from a table.
ResetIfEmpty(d, t) ==
  IF DOMAIN d[t] = {} THEN [d EXCEPT !.next[t] = 1] ELSE d

\* The rows a deletion takes along: crawlserv_threads refers to all of them.
Cascade(d) ==
  LET lists == {l \in DOMAIN d.lists : d.lists[l].website \notin DOMAIN d.websites}
      configs == {c \in DOMAIN d.configs : d.configs[c] \notin DOMAIN d.websites}
      e == [d EXCEPT !.lists = Drop(@, lists), !.configs = Drop(@, configs)]
  IN [e EXCEPT !.rows = Drop(@, {r \in DOMAIN e.rows :
        \/ e.rows[r].website \notin DOMAIN e.websites
        \/ e.rows[r].list \notin DOMAIN e.lists
        \/ e.rows[r].config \notin DOMAIN e.configs})]

Delete(d, t, id) == ResetIfEmpty(Cascade([d EXCEPT ![t] = Drop(@, {id})]), t)

\* "crawlserv_" + namespace of the website + "_" + namespace of the URL list
TableName(d, list) == d.websites[d.lists[list].website] \o d.lists[list].name

ListsOf(w) == {l \in DOMAIN db.lists : db.lists[l].website = w}

\* The members of a set of IDs in their order: a set of one sequence.
Ascending(S) ==
  {s \in Bijection(1 .. Cardinality(S), S) : \A i, j \in DOMAIN s : i < j => s[i] < s[j]}

-----------------------------------------------------------------------------
(* SQL statements: an operation with its arguments.                         *)

InsertWebsite(name) == [op |-> "insertWebsite", name |-> name]
\* undo: the website to delete again if the statement fails (0: none)
InsertList(website, name, undo) ==
  [op |-> "insertList", website |-> website, name |-> name, undo |-> undo]
CreateTables(name, undo) == [op |-> "createTables", name |-> name, undo |-> undo]
InsertConfig(website) == [op |-> "insertConfig", website |-> website]
DeleteWebsiteRow(id) == [op |-> "deleteWebsite", id |-> id]
DeleteListRow(id) == [op |-> "deleteList", id |-> id]
DropTables(name) == [op |-> "dropTables", name |-> name]
RenameTables(from, to) == [op |-> "renameTables", from |-> from, to |-> to]
RenameWebsite(id, name) == [op |-> "renameWebsite", id |-> id, name |-> name]
RenameList(id, name) == [op |-> "renameList", id |-> id, name |-> name]

Statement ==
  {InsertWebsite(n) : n \in WebsiteNames}
  \cup {InsertList(w, n, u) : w \in Id, n \in ListNames, u \in Nat}
  \cup {CreateTables(n, u) : n \in TableNames, u \in Nat}
  \cup {InsertConfig(w) : w \in Id}
  \cup {DeleteWebsiteRow(w) : w \in Id} \cup {DeleteListRow(l) : l \in Id}
  \cup {DropTables(n) : n \in TableNames}
  \cup {RenameTables(n, m) : n \in TableNames, m \in TableNames}
  \cup {RenameWebsite(w, n) : w \in Id, n \in WebsiteNames}
  \cup {RenameList(l, n) : l \in Id, n \in ListNames}

\* One statement of s, one of t, in turn.
InTurn(s, t) ==
  [k \in 1 .. 2 * Len(s) |-> IF k % 2 = 1 THEN s[(k + 1) \div 2] ELSE t[k \div 2]]

AddUrlList(website, name, tableName, undo) ==
  <<InsertList(website, name, undo), CreateTables(tableName, undo)>>

\* deleteUrlList(): the row goes before the tables.
DeleteList(list) == <<DeleteListRow(list), DropTables(TableName(db, list))>>

\* Mutant: the website goes, its lists only by the foreign key.
DeleteWebsiteOnly(w, lists) == <<DeleteWebsiteRow(w)>>

\* deleteWebsite(): one URL list after the other, then the website.
DeleteWebsite(w, lists) ==
  InTurn([i \in DOMAIN lists |-> DeleteListRow(lists[i])],
         [i \in DOMAIN lists |-> DropTables(TableName(db, lists[i]))])
  \o <<DeleteWebsiteRow(w)>>

\* updateWebsite(): the tables of all lists, then the website.
RenameAll(w, lists, name) ==
  [i \in DOMAIN lists |->
     RenameTables(TableName(db, lists[i]), name \o db.lists[lists[i]].name)]
  \o <<RenameWebsite(w, name)>>

\* updateUrlList()
RenameOne(list, name) ==
  <<RenameTables(TableName(db, list), db.websites[db.lists[list].website] \o name),
    RenameList(list, name)>>

-----------------------------------------------------------------------------
(* The execution of a statement on a connection.                            *)

Next1(c) == Head(todo[c])
IsNext(c, op) == todo[c] # <<>> /\ Next1(c).op = op
Proceed(c) == todo' = [todo EXCEPT ![c] = Tail(@)]

Undo(s) == IF s.op \in {"insertList", "createTables"} THEN s.undo ELSE 0

\* An exception ends the command; addWebsite() catches it while it adds the default
\* URL list, and deletes the website again.
Fail(c) ==
  LET w == Undo(Next1(c))
  IN /\ IF w = 0 THEN todo' = [todo EXCEPT ![c] = <<>>] /\ undone' = undone
        ELSE /\ \E lists \in Ascending(ListsOf(w)) :
                  todo' = [todo EXCEPT ![c] = DeleteWebsite(w, lists)]
             /\ undone' = w
     /\ UNCHANGED <<db, threads>>

Done(c) == Proceed(c) /\ UNCHANGED <<threads, undone, faults, works, raced, reused>>

ExecInsertWebsite(c) ==
  /\ IsNext(c, "insertWebsite")
  /\ db' = Insert(db, "websites", Next1(c).name)
  /\ Done(c)

ExecInsertList(c) ==
  /\ IsNext(c, "insertList")
  /\ LET s == Next1(c) IN
       IF s.website \in DOMAIN db.websites
       THEN /\ db' = Insert(db, "lists", [website |-> s.website, name |-> s.name])
            /\ Done(c)
       ELSE Fail(c) /\ UNCHANGED <<faults, works, raced, reused>>

\* CREATE TABLE IF NOT EXISTS
ExecCreateTables(c) ==
  /\ IsNext(c, "createTables")
  /\ db' = [db EXCEPT !.tables = @ \cup {Next1(c).name}]
  /\ Done(c)

ExecInsertConfig(c) ==
  /\ IsNext(c, "insertConfig")
  /\ db' = Insert(db, "configs", Next1(c).website)
  /\ Done(c)

ExecDeleteWebsite(c) ==
  /\ IsNext(c, "deleteWebsite")
  /\ db' = Delete(db, "websites", Next1(c).id)
  /\ Done(c)

ExecDeleteList(c) ==
  /\ IsNext(c, "deleteList")
  /\ db' = Delete(db, "lists", Next1(c).id)
  /\ Done(c)

\* dropTable() does nothing if there is no such table.
ExecDropTables(c) ==
  /\ IsNext(c, "dropTables")
  /\ db' = [db EXCEPT !.tables = @ \ {Next1(c).name}]
  /\ Done(c)

ExecRenameTables(c) ==
  /\ IsNext(c, "renameTables")
  /\ LET s == Next1(c) IN
       IF s.from \in db.tables /\ s.to \notin db.tables
       THEN db' = [db EXCEPT !.tables = (@ \ {s.from}) \cup {s.to}] /\ Done(c)
       ELSE Fail(c) /\ UNCHANGED <<faults, works, raced, reused>>

ExecRenameWebsite(c) ==
  /\ IsNext(c, "renameWebsite")
  /\ db' = [db EXCEPT !.websites[Next1(c).id] = Next1(c).name]
  /\ Done(c)

ExecRenameList(c) ==
  /\ IsNext(c, "renameList")
  /\ db' = [db EXCEPT !.lists[Next1(c).id].name = Next1(c).name]
  /\ Done(c)

Execute(c) ==
  \/ ExecInsertWebsite(c) \/ ExecInsertList(c) \/ ExecCreateTables(c)
  \/ ExecInsertConfig(c) \/ ExecDeleteWebsite(c) \/ ExecDeleteList(c)
  \/ ExecDropTables(c) \/ ExecRenameTables(c) \/ ExecRenameWebsite(c)
  \/ ExecRenameList(c)

\* Any statement may fail without an effect.
Fault(c) ==
  /\ todo[c] # <<>> /\ HasEvent
  /\ Fail(c) /\ faults' = faults + 1 /\ UNCHANGED <<works, raced, reused>>

-----------------------------------------------------------------------------
(* Commands for websites, URL lists and configurations (main thread).       *)

Idle == todo["main"] = <<>>

Inserts(statements, op) == Len(SelectSeq(statements, LAMBDA s : s.op = op))

Fits(statements) ==
  /\ HasRoom("websites", Inserts(statements, "insertWebsite"))
  /\ HasRoom("lists", Inserts(statements \o todo["main"] \o todo["worker"], "insertList"))
  /\ HasRoom("configs", Inserts(statements, "insertConfig"))

\* A command is accepted after its checks, which read the database.
Accept(statements) ==
  /\ Idle /\ Fits(statements)
  /\ todo' = [todo EXCEPT !["main"] = statements]
  /\ undone' = 0
  /\ raced' = (raced \/ \E i \in DOMAIN todo["worker"] : todo["worker"][i].op = "createTables")
  /\ UNCHANGED <<db, threads, faults, works, reused>>

IsWebsiteNamespace(name) == \E w \in DOMAIN db.websites : db.websites[w] = name
IsUrlListNamespace(w, name) == \E l \in ListsOf(w) : db.lists[l].name = name

IsWebsiteInUse(w) == \E i \in DOMAIN threads : threads[i].website = w
IsUrlListInUse(l) == \E i \in DOMAIN threads : threads[i].list = l

\* The ID that addWebsite() will get: only the main thread adds websites.
AddWebsiteAs(w, name) ==
  <<InsertWebsite(name)>> \o AddUrlList(w, DefaultName, name \o DefaultName, w)

AddWebsite(name) ==
  /\ ~IsWebsiteNamespace(name)
  /\ Accept(AddWebsiteAs(db.next["websites"], name))

\* Mutant: the new namespace may be that of another website.
UpdateWebsiteUnchecked(w, name) ==
  /\ w \in DOMAIN db.websites /\ ~IsWebsiteInUse(w) /\ name # db.websites[w]
  /\ \E lists \in Ascending(ListsOf(w)) : Accept(RenameAll(w, lists, name))

UpdateWebsite(w, name) ==
  /\ w \in DOMAIN db.websites /\ ~IsWebsiteInUse(w)
  /\ name # db.websites[w] /\ ~IsWebsiteNamespace(name)
  /\ \E lists \in Ascending(ListsOf(w)) : Accept(RenameAll(w, lists, name))

DeleteWebsiteCommand(w) ==
  /\ w \in DOMAIN db.websites /\ ~IsWebsiteInUse(w)
  /\ \E lists \in Ascending(ListsOf(w)) : Accept(DeleteWebsite(w, lists))

\* duplicateWebsite(): a new namespace, the URL lists (the default one exists
\* already) and the configurations; not the URLs.
DuplicateWebsite(w, name) ==
  /\ w \in DOMAIN db.websites /\ ~IsWebsiteNamespace(name)
  /\ \E lists \in Ascending({l \in ListsOf(w) : db.lists[l].name # DefaultName}),
        configs \in Ascending({c \in DOMAIN db.configs : db.configs[c] = w}) :
       LET new == db.next["websites"]
           Name(i) == db.lists[lists[i]].name
       IN Accept(AddWebsiteAs(new, name)
                 \o InTurn([i \in DOMAIN lists |-> InsertList(new, Name(i), 0)],
                           [i \in DOMAIN lists |-> CreateTables(name \o Name(i), 0)])
                 \o [i \in DOMAIN configs |-> InsertConfig(new)])

AddUrlListCommand(w, name) ==
  /\ w \in DOMAIN db.websites /\ ~IsUrlListNamespace(w, name)
  /\ Accept(AddUrlList(w, name, db.websites[w] \o name, 0))

UpdateUrlList(l, name) ==
  /\ l \in DOMAIN db.lists /\ ~IsUrlListInUse(l)
  /\ name # db.lists[l].name /\ ~IsUrlListNamespace(db.lists[l].website, name)
  /\ Accept(RenameOne(l, name))

\* Mutant: the use of the list is not checked.
DeleteUrlListUnchecked(l) ==
  /\ l \in DOMAIN db.lists
  /\ Accept(DeleteList(l))

DeleteUrlList(l) ==
  /\ l \in DOMAIN db.lists /\ ~IsUrlListInUse(l)
  /\ Accept(DeleteList(l))

AddConfig(w) ==
  /\ w \in DOMAIN db.websites
  /\ Accept(<<InsertConfig(w)>>)

\* deleteconfig does not ask whether a thread uses the configuration.
DeleteConfig(c) ==
  /\ Idle /\ c \in DOMAIN db.configs
  /\ db' = Delete(db, "configs", c)
  /\ undone' = 0
  /\ UNCHANGED <<threads, todo, faults, works, raced, reused>>

DuplicateConfig(c) ==
  /\ c \in DOMAIN db.configs
  /\ Accept(<<InsertConfig(db.configs[c])>>)

DataCommand ==
  \/ \E name \in WebsiteNames : AddWebsite(name)
  \/ \E w \in DOMAIN db.websites :
       \/ \E name \in WebsiteNames : UpdateWebsite(w, name) \/ DuplicateWebsite(w, name)
       \/ \E name \in ListNames : AddUrlListCommand(w, name)
       \/ DeleteWebsiteCommand(w) \/ AddConfig(w)
  \/ \E l \in DOMAIN db.lists :
       DeleteUrlList(l) \/ \E name \in ListNames : UpdateUrlList(l, name)
  \/ \E c \in DOMAIN db.configs : DeleteConfig(c) \/ DuplicateConfig(c)

-----------------------------------------------------------------------------
(* Module threads.                                                          *)

Command == Idle /\ undone' = 0 /\ UNCHANGED <<todo, faults, works, raced>>

ThreadOf(id, row) ==
  [id |-> id, state |-> "running", kind |-> row.kind, website |-> row.website,
   list |-> row.list, config |-> row.config, paused |-> row.paused]

\* checkWebsite(), checkUrlList(), checkConfig(), then the thread object adds its
\* row and starts.  Nobody asks for which module the configuration is.
Start(kind) ==
  /\ Command /\ HasLoad /\ HasRoom("rows", 1)
  /\ \E w \in DOMAIN db.websites, l \in DOMAIN db.lists, c \in DOMAIN db.configs :
       /\ db.lists[l].website = w /\ db.configs[c] = w
       /\ LET row == [kind |-> kind, website |-> w, list |-> l, config |-> c, paused |-> FALSE]
          IN /\ db' = Insert(db, "rows", row)
             /\ threads' = Append(threads, ThreadOf(db.next["rows"], row))
  /\ reused' = reused \cup ({db.next["rows"]} \cap {threads[i].id : i \in DOMAIN threads})

StartCrawler == Start(Crawler)
StartParser == Start(Parser)
StartExtractor == Start(Extractor)
StartAnalyzer == Start(Analyzer)

\* find_if() in the vector of the kind: the first thread with the ID.
First(kind, id) ==
  LET S == {i \in DOMAIN threads : threads[i].kind = kind /\ threads[i].id = id}
  IN {i \in S : \A j \in S : i <= j}

\* setThreadStatus(): UPDATE ... WHERE id = ?
SetPaused(d, id, p) == IF id \in DOMAIN d.rows THEN [d EXCEPT !.rows[id].paused = p] ELSE d

SetPause(kind, p) ==
  /\ Command
  /\ \E id \in 1 .. MaxId["rows"] : \E i \in First(kind, id) :
       /\ threads[i].paused # p
       /\ threads' = [threads EXCEPT ![i].paused = p]
       /\ db' = SetPaused(db, id, p)
  /\ UNCHANGED reused

PauseCrawler == SetPause(Crawler, TRUE)
PauseParser == SetPause(Parser, TRUE)
PauseExtractor == SetPause(Extractor, TRUE)
PauseAnalyzer == SetPause(Analyzer, TRUE)

UnpauseCrawler == SetPause(Crawler, FALSE)
UnpauseParser == SetPause(Parser, FALSE)
UnpauseExtractor == SetPause(Extractor, FALSE)
UnpauseAnalyzer == SetPause(Analyzer, FALSE)

Stop(kind) ==
  /\ Command
  /\ \E id \in 1 .. MaxId["rows"] : \E i \in First(kind, id) :
       /\ threads[i].state = "running"
       /\ threads' = [threads EXCEPT ![i].state = "stopped", ![i].paused = FALSE]
       /\ db' = db
  /\ UNCHANGED reused

StopCrawler == Stop(Crawler)
StopParser == Stop(Parser)
StopExtractor == Stop(Extractor)
StopAnalyzer == Stop(Analyzer)

\* All threads of all kinds, one after the other.
SetAllPaused(p) ==
  /\ Command
  /\ threads' = [i \in DOMAIN threads |-> [threads[i] EXCEPT !.paused = p]]
  /\ db' = [db EXCEPT !.rows = [r \in DOMAIN @ |->
       IF \E i \in DOMAIN threads : threads[i].id = r /\ threads[i].paused # p
       THEN [@[r] EXCEPT !.paused = p] ELSE @[r]]]
  /\ UNCHANGED reused

PauseAll == SetAllPaused(TRUE)
UnpauseAll == SetAllPaused(FALSE)

\* Mutant: the thread goes, its row stays.
EndKeepsRow(i) ==
  /\ i \in DOMAIN threads /\ threads[i].state = "stopped"
  /\ threads' = [threads EXCEPT ![i].state = "ended"]
  /\ UNCHANGED <<db, todo, undone, faults, works, raced, reused>>

\* A stopped thread deletes its row as its last action.
End(i) ==
  /\ i \in DOMAIN threads /\ threads[i].state = "stopped"
  /\ threads' = [threads EXCEPT ![i].state = "ended"]
  /\ db' = Delete(db, "rows", threads[i].id)
  /\ UNCHANGED <<todo, undone, faults, works, raced, reused>>

\* The tick removes the objects of threads that have ended.
RemoveFinished ==
  /\ Idle
  /\ \E i \in DOMAIN threads : threads[i].state = "ended"
  /\ \E left \in Ascending({i \in DOMAIN threads : threads[i].state # "ended"}) :
       threads' = [k \in DOMAIN left |-> threads[left[k]]]
  /\ UNCHANGED <<db, todo, undone, faults, works, raced, reused>>

ThreadCommand ==
  \/ StartCrawler \/ PauseCrawler \/ UnpauseCrawler \/ StopCrawler
  \/ StartParser \/ PauseParser \/ UnpauseParser \/ StopParser
  \/ StartExtractor \/ PauseExtractor \/ UnpauseExtractor \/ StopExtractor
  \/ StartAnalyzer \/ PauseAnalyzer \/ UnpauseAnalyzer \/ StopAnalyzer
  \/ PauseAll \/ UnpauseAll

-----------------------------------------------------------------------------
(* Worker threads.                                                          *)

\* import(website, urllist-target = 0): a worker adds a URL list on a connection of
\* its own, before it adds the imported URLs; one worker at a time here.
ImportNew ==
  /\ Idle /\ todo["worker"] = <<>>
  /\ HasEvent /\ works' = works + 1
  /\ \E w \in DOMAIN db.websites, name \in ListNames :
       /\ ~IsUrlListNamespace(w, name)
       /\ LET statements == AddUrlList(w, name, db.websites[w] \o name, 0)
          IN Fits(statements) /\ todo' = [todo EXCEPT !["worker"] = statements]
  /\ undone' = 0
  /\ UNCHANGED <<db, threads, faults, raced, reused>>

-----------------------------------------------------------------------------
(* The server goes down, in the middle of a command or not, and comes up again:
   initThreads() continues the threads that have a row.                     *)

Restart ==
  /\ LET crash == \E c \in Connections : todo[c] # <<>>
     IN /\ crash => HasEvent
        /\ faults' = faults + IF crash THEN 1 ELSE 0
  /\ \E ids \in Ascending(DOMAIN db.rows) :
       threads' = [i \in DOMAIN ids |-> ThreadOf(ids[i], db.rows[ids[i]])]
  /\ todo' = [c \in Connections |-> <<>>]
  /\ undone' = 0 /\ reused' = {}
  /\ UNCHANGED <<db, works, raced>>

Next ==
  \/ \E c \in Connections : Execute(c) \/ Fault(c)
  \/ DataCommand \/ ThreadCommand
  \/ \E i \in DOMAIN threads : End(i)
  \/ RemoveFinished \/ ImportNew \/ Restart

Spec == Init /\ [][Next]_vars

-----------------------------------------------------------------------------

Thread ==
  [id : Id, state : {"running", "stopped", "ended"}, kind : Kinds, website : Id, list : Id,
   config : Id, paused : BOOLEAN]

\* Type invariant: rows, threads and statements.
TypeOK ==
  /\ db \in Database /\ threads \in Seq(Thread)
  /\ todo \in [Connections -> Seq(Statement)]
  /\ undone \in Nat /\ faults \in Nat /\ works \in Nat
  /\ raced \in BOOLEAN /\ reused \subseteq Id

\* Every thread object has its website, and its URL list is one of this website:
\* nothing the server deletes or renames is in use.
UsedDataExists ==
  \A i \in DOMAIN threads :
    /\ threads[i].website \in DOMAIN db.websites
    /\ threads[i].list \in ListsOf(threads[i].website)

\* No two websites have the same namespace (isWebsiteNamespace()), although it is
\* asked for before the statements that need the answer, and statements fail.
WebsiteNamespacesAreUnique == IsInjective(db.websites)

\* Each row of crawlserv_threads is that of a thread the server has, with the same
\* website, URL list and configuration: a restart continues those and only those.  It
\* has its pause state, too, unless its ID was that of an older object that is still
\* in memory and is paused in its stead (resetAutoIncrement(), cmdPauseCrawler()).
RowsHaveThreads ==
  \A r \in DOMAIN db.rows : \E i \in DOMAIN threads :
    /\ threads[i].id = r /\ threads[i].state # "ended"
    /\ \A f \in {"kind", "website", "list", "config"} : threads[i][f] = db.rows[r][f]
    /\ threads[i].state = "running" => threads[i].paused = db.rows[r].paused \/ r \in reused

\* Between two commands the tables are those of the URL lists: adding, renaming,
\* duplicating and deleting websites and lists leaves no table behind and no list
\* without tables, unless a statement has failed, or a command has come between the
\* two statements with which a worker adds a list.
TablesAreThoseOfLists ==
  Idle /\ todo["worker"] = <<>> /\ faults = 0 /\ ~raced =>
    db.tables = {TableName(db, l) : l \in DOMAIN db.lists}

\* addWebsite(): a website whose default URL list could not be added is deleted again,
\* unless that fails, too.
FailedWebsitesAreGone ==
  Idle /\ faults <= 1 /\ undone # 0 => undone \notin DOMAIN db.websites

\* Whatever a command has begun, it leaves no rows without tables, and no tables without rows.
NothingIsLeftBehind == TablesAreThoseOfLists /\ FailedWebsitesAreGone

\* README.md: the namespaces of website and URL list `determine the names of the tables
\* used for each URL list', one of which is the `content of the URL list'.  Namespaces
\* may contain the character that joins them, and addUrlList() only asks for lists
\* of the same website with the same namespace: two lists may get the same tables.
ListsHaveTheirOwnTables ==
  \A k, l \in DOMAIN db.lists : TableName(db, k) = TableName(db, l) => k = l
=============================================================================
