---------------------------- MODULE QueryReload ----------------------------
(***************************************************************************)
(* Configurations and queries that change while module threads use them    *)
(* (crawlserv/src/Main/Server.cpp, Query/Container.hpp and the four        *)
(* modules' Thread.cpp).  A thread reads its configuration, then the rows  *)
(* of the queries it names, one by one, compiles them into its container   *)
(* and registers their IDs; the server's main thread changes a row first   *)
(* and then looks for threads that need a reset, by configuration or by    *)
(* registered ID.  A thread sees the reset before its next tick, clears    *)
(* its queries and starts over.                                            *)
(***************************************************************************)
EXTENDS Naturals, Sequences

CONSTANTS
  Threads,     \* the module threads
  ConfigOf,    \* ConfigOf[t]: its configuration, which never changes
  Configs,     \* the configurations
  Contents,    \* what a configuration may say: [Roles -> Seq(QueryIds)]
  MaxId,       \* bound on the IDs of queries
  MaxStamp     \* bound on the changes to rows

Kinds == {"crawler", "parser", "extractor", "analyzer"}
\* Two lists of queries stand for all: the parser's content-ignore queries, which it
\* treats differently, and any other list.
Roles == {"list", "ignore"}
QueryIds == 1 .. MaxId

ASSUME ConfigOfAssumption == ConfigOf \in [Threads -> Configs]
ASSUME ContentsAssumption == Contents \subseteq [Roles -> Seq(QueryIds)]
ASSUME BoundsAssumption == MaxId \in Nat /\ MaxStamp \in Nat

VARIABLES
  kind,     \* per thread: its module
  stamp,    \* counts the changes: the version of a row is the stamp of its last change
  config,   \* crawlserv_configs: config[c] = [stamp, lists]
  query,    \* crawlserv_queries: the version of each query's row, 0: there is none
  srv,      \* main thread: [cmd, id, left]
  toReset, paused, pc, \* per thread: its flags; where it is
  loaded,   \* per thread: its configuration, as loaded
  todo,     \* per thread: the queries that are not loaded yet
  row,      \* per thread: the row it has just read
  queries,  \* per thread: its container, the rows that have been compiled
  queriesId,\* per thread: the registered IDs
  lists,    \* per thread: its lists, of indices in the container (0: none)
  missed    \* per thread: IDs changed while it was loading their rows

server == <<stamp, config, query, srv>>
thread == <<pc, loaded, todo, row, queries, queriesId, lists>>
vars == <<kind, server, toReset, paused, thread, missed>>

NoRow == [id |-> 0, version |-> 0]
Idle == [cmd |-> "idle", id |-> 0, left |-> {}]
NoLists == [r \in Roles |-> <<>>]

Init ==
  /\ kind \in [Threads -> Kinds]
  /\ stamp = 0
  /\ config \in [Configs -> [stamp : {0}, lists : Contents]]
  /\ query = [q \in QueryIds |-> 0]
  /\ srv = Idle
  /\ toReset = [t \in Threads |-> FALSE] /\ paused = [t \in Threads |-> FALSE]
  /\ pc = [t \in Threads |-> "none"]
  /\ loaded = [t \in Threads |-> [stamp |-> 0, lists |-> NoLists]]
  /\ todo = [t \in Threads |-> <<>>] /\ row = [t \in Threads |-> NoRow]
  /\ queries = [t \in Threads |-> <<>>] /\ queriesId = [t \in Threads |-> {}]
  /\ lists = [t \in Threads |-> NoLists]
  /\ missed = [t \in Threads |-> {}]

Alive(t) == pc[t] \notin {"none", "ended"}
\* Between the reading of a row and the registration of its ID.
Loading(t, q) == pc[t] \in {"compile", "register"} /\ row[t].id = q

-----------------------------------------------------------------------------
(* Commands of the main thread, one at a time.                              *)

Rows == {q \in QueryIds : query[q] # 0}
MayChange == srv.cmd = "idle" /\ stamp < MaxStamp

\* The queries the threads have read rows of, or will before they can be reset.
Changed(q) == missed' = [t \in Threads |-> IF Loading(t, q) THEN missed[t] \cup {q} ELSE missed[t]]

\* The next free ID; resetAutoIncrement() when the table is empty.
NewIds == {q \in QueryIds : \A r \in Rows : q > r}

\* cmdAddQuery(): nobody is reset, although a deleted query's ID may return.
AddQuery ==
  \E q \in NewIds :
    /\ MayChange
    /\ Rows = {} => q = 1
    /\ stamp' = stamp + 1
    /\ query' = [query EXCEPT ![q] = stamp']
    /\ missed' = [t \in Threads |-> IF q \in queriesId[t] \/ Loading(t, q)
                                    THEN missed[t] \cup {q} ELSE missed[t]]
    /\ UNCHANGED <<kind, config, srv, toReset, paused, thread>>

\* cmdDeleteQuery(): nobody is asked.
DeleteQuery ==
  \E q \in Rows :
    /\ srv.cmd = "idle"
    /\ query' = [query EXCEPT ![q] = 0]
    /\ UNCHANGED <<kind, stamp, config, srv, toReset, paused, thread, missed>>

\* cmdUpdateQuery(): the row first, then all threads.
UpdateQuery(q) ==
  /\ MayChange /\ stamp' = stamp + 1
  /\ query' = [query EXCEPT ![q] = stamp']
  /\ srv' = [cmd |-> "query", id |-> q, left |-> Threads]
  /\ Changed(q)
  /\ UNCHANGED <<kind, config, toReset, paused, thread>>

\* Mutant: nobody is reset.
UpdateConfigOnly(c) ==
  /\ MayChange /\ stamp' = stamp + 1
  /\ \E l \in Contents : config' = [config EXCEPT ![c] = [stamp |-> stamp', lists |-> l]]
  /\ UNCHANGED <<kind, query, srv, toReset, paused, thread, missed>>

\* cmdUpdateConfig()
UpdateConfig(c) ==
  /\ MayChange /\ stamp' = stamp + 1
  /\ \E l \in Contents : config' = [config EXCEPT ![c] = [stamp |-> stamp', lists |-> l]]
  /\ srv' = [cmd |-> "config", id |-> c, left |-> Threads]
  /\ UNCHANGED <<kind, query, toReset, paused, thread, missed>>

\* Mutant: the analyzers have been forgotten.
NeedsResetUnlessAnalyzer(t) ==
  kind[t] # "analyzer" /\ IF srv.cmd = "config" THEN ConfigOf[t] = srv.id ELSE srv.id \in queriesId[t]

\* getConfig(), isQueryUsed()
NeedsReset(t) ==
  IF srv.cmd = "config" THEN ConfigOf[t] = srv.id ELSE srv.id \in queriesId[t]

\* reset() of one thread after the other.
Visit(t) ==
  /\ t \in srv.left
  /\ toReset' = [toReset EXCEPT ![t] = @ \/ (Alive(t) /\ NeedsReset(t))]
  /\ srv' = IF srv.left = {t} THEN Idle ELSE [srv EXCEPT !.left = @ \ {t}]
  /\ UNCHANGED <<kind, stamp, config, query, paused, thread, missed>>

\* Threads that have ended are removed and started again, with empty members.
Start(t) ==
  /\ srv.cmd = "idle" /\ ~Alive(t)
  /\ pc' = [pc EXCEPT ![t] = "config"]
  /\ toReset' = [toReset EXCEPT ![t] = FALSE] /\ paused' = [paused EXCEPT ![t] = FALSE]
  /\ UNCHANGED <<kind, server, loaded, todo, row, queries, queriesId, lists, missed>>

SetPaused(t) ==
  /\ srv.cmd = "idle" /\ Alive(t)
  /\ paused' = [paused EXCEPT ![t] = ~@]
  /\ UNCHANGED <<kind, server, toReset, thread, missed>>

-----------------------------------------------------------------------------
(* A module thread.                                                         *)

Goto(t, l) == pc' = [pc EXCEPT ![t] = l]

\* setUpConfig(): the lists in the order in which initQueries() adds them.
LoadConfig(t) ==
  /\ pc[t] = "config"
  /\ LET c == config[ConfigOf[t]]
         named(r) == [i \in DOMAIN c.lists[r] |-> [role |-> r, id |-> c.lists[r][i]]]
     IN /\ loaded' = [loaded EXCEPT ![t] = c]
        /\ todo' = [todo EXCEPT ![t] = named("list") \o named("ignore")]
  /\ Goto(t, "read")
  /\ UNCHANGED <<kind, server, toReset, paused, row, queries, queriesId, lists, missed>>

\* getQueryProperties(): without a row, the properties are empty.
ReadRow(t) ==
  /\ pc[t] = "read" /\ todo[t] # <<>>
  /\ LET q == Head(todo[t]).id IN
       row' = [row EXCEPT ![t] = [id |-> q, version |-> query[q]]]
  /\ Goto(t, "compile")
  /\ UNCHANGED <<kind, server, toReset, paused, loaded, todo, queries, queriesId, lists, missed>>

\* addQuery(): a query without text gets no index.
Compile(t) ==
  /\ pc[t] = "compile"
  /\ LET new == IF row[t].version = 0 THEN <<>> ELSE <<row[t]>>
         index == IF new = <<>> THEN 0 ELSE Len(queries[t]) + 1
         role == Head(todo[t]).role
     IN /\ queries' = [queries EXCEPT ![t] = @ \o new]
        /\ lists' = [lists EXCEPT ![t][role] = Append(@, index)]
  /\ Goto(t, "register")
  /\ UNCHANGED <<kind, server, toReset, paused, loaded, todo, row, queriesId, missed>>

\* The members of a thread that has ended are of no use any more.
End(t) ==
  /\ Goto(t, "ended")
  /\ todo' = [todo EXCEPT ![t] = <<>>] /\ row' = [row EXCEPT ![t] = NoRow]
  /\ queries' = [queries EXCEPT ![t] = <<>>] /\ queriesId' = [queriesId EXCEPT ![t] = {}]
  /\ lists' = [lists EXCEPT ![t] = NoLists] /\ missed' = [missed EXCEPT ![t] = {}]
  /\ UNCHANGED <<kind, server, toReset, paused, loaded>>

\* addQuery(): the expression cannot be compiled.  The thread ends: the exception
\* reaches init(), which interrupts it, or main().
CompileFails(t) == pc[t] = "compile" /\ row[t].version # 0 /\ End(t)

Register(t) ==
  /\ pc[t] = "register"
  /\ queriesId' = [queriesId EXCEPT ![t] = @ \cup {row[t].id}]
  /\ todo' = [todo EXCEPT ![t] = Tail(@)] /\ row' = [row EXCEPT ![t] = NoRow]
  /\ Goto(t, "read")
  /\ UNCHANGED <<kind, server, toReset, paused, loaded, queries, lists, missed>>

Initialized(t) ==
  /\ pc[t] = "read" /\ todo[t] = <<>>
  /\ Goto(t, "loop")
  /\ UNCHANGED <<kind, server, toReset, paused, loaded, todo, row, queries, queriesId, lists, missed>>

\* main(): the flag is tested and cleared before every tick.
TakeReset(t) ==
  /\ pc[t] = "loop" /\ toReset[t]
  /\ toReset' = [toReset EXCEPT ![t] = FALSE]
  /\ Goto(t, "clear")
  /\ UNCHANGED <<kind, server, paused, loaded, todo, row, queries, queriesId, lists, missed>>

\* ... which may fail spuriously.  A paused thread waits.
NoReset(t) ==
  /\ pc[t] = "loop" /\ ~paused[t]
  /\ Goto(t, "tick")
  /\ UNCHANGED <<kind, server, toReset, paused, loaded, todo, row, queries, queriesId, lists, missed>>

\* vector::at() throws in a tick if an index is behind the end: the thread pauses.
Dangling(t) == \E r \in Roles : \E i \in DOMAIN lists[t][r] : lists[t][r][i] > Len(queries[t])

Tick(t) ==
  /\ pc[t] = "tick"
  /\ \/ paused' = paused
     \/ Dangling(t) /\ paused' = [paused EXCEPT ![t] = TRUE]
  /\ Goto(t, "loop")
  /\ UNCHANGED <<kind, server, toReset, loaded, todo, row, queries, queriesId, lists, missed>>

\* Analyzer::onTick() starts the algorithm again when it has been idle for some time.
Restart(t) ==
  /\ pc[t] = "tick" /\ kind[t] = "analyzer"
  /\ Goto(t, "clear")
  /\ UNCHANGED <<kind, server, toReset, paused, loaded, todo, row, queries, queriesId, lists, missed>>

\* The lists that onClear() empties.
Cleared(k) == IF k = "parser" THEN Roles \ {"ignore"} ELSE Roles

\* Mutant: the container is emptied, the lists of its indices are not.
ClearContainerOnly(t) ==
  /\ pc[t] = "clear"
  /\ queries' = [queries EXCEPT ![t] = <<>>] /\ missed' = [missed EXCEPT ![t] = {}]
  /\ Goto(t, "config")
  /\ UNCHANGED <<kind, server, toReset, paused, loaded, todo, row, queriesId, lists>>

\* onClear(), resetBase(): the registered IDs stay.
Clear(t) ==
  /\ pc[t] = "clear"
  /\ lists' = [lists EXCEPT ![t] = [r \in Roles |-> IF r \in Cleared(kind[t]) THEN <<>> ELSE @[r]]]
  /\ queries' = [queries EXCEPT ![t] = <<>>]
  /\ missed' = [missed EXCEPT ![t] = {}]
  /\ Goto(t, "config")
  /\ UNCHANGED <<kind, server, toReset, paused, loaded, todo, row, queriesId>>

\* stop()
Stop(t) == pc[t] = "loop" /\ End(t)

Step(t) ==
  \/ LoadConfig(t) \/ ReadRow(t) \/ Compile(t) \/ Register(t) \/ Initialized(t)
  \/ TakeReset(t) \/ NoReset(t) \/ Tick(t) \/ Clear(t)

Next ==
  \/ AddQuery \/ DeleteQuery
  \/ \E q \in Rows : UpdateQuery(q)
  \/ \E c \in Configs : UpdateConfig(c)
  \/ \E t \in Threads :
       Visit(t) \/ Start(t) \/ SetPaused(t) \/ Step(t) \/ CompileFails(t) \/ Restart(t) \/ Stop(t)

Spec == Init /\ [][Next]_vars

\* The operating system runs the threads and the server; a weak exchange does not fail
\* forever.
Fairness ==
  \A t \in Threads : WF_vars(Visit(t)) /\ WF_vars(Step(t)) /\ SF_vars(TakeReset(t))

FairSpec == Spec /\ Fairness

-----------------------------------------------------------------------------

Entry == [role : Roles, id : QueryIds]
Row == [id : QueryIds, version : 0 .. MaxStamp]

TypeOK ==
  /\ kind \in [Threads -> Kinds] /\ stamp \in 0 .. MaxStamp
  /\ config \in [Configs -> [stamp : 0 .. MaxStamp, lists : Contents]]
  /\ query \in [QueryIds -> 0 .. MaxStamp]
  /\ srv \in [cmd : {"idle"}, id : {0}, left : {{}}] \cup
             [cmd : {"query"}, id : QueryIds, left : SUBSET Threads] \cup
             [cmd : {"config"}, id : Configs, left : SUBSET Threads]
  /\ toReset \in [Threads -> BOOLEAN] /\ paused \in [Threads -> BOOLEAN]
  /\ pc \in [Threads -> {"none", "config", "read", "compile", "register", "loop", "tick",
                         "clear", "ended"}]
  /\ loaded \in [Threads -> [stamp : 0 .. MaxStamp, lists : Contents \cup {NoLists}]]
  /\ todo \in [Threads -> Seq(Entry)] /\ row \in [Threads -> Row \cup {NoRow}]
  /\ queries \in [Threads -> Seq(Row)] /\ queriesId \in [Threads -> SUBSET QueryIds]
  /\ lists \in [Threads -> [Roles -> Seq(Nat)]] /\ missed \in [Threads -> SUBSET QueryIds]

\* A reset is on its way to a thread, by its flag or by the server.
ResetComes(t) == toReset[t] \/ pc[t] \in {"clear", "config"} \/ (t \in srv.left /\ NeedsReset(t))

\* cmdUpdateConfig(): "if necessary, reset threads currently using this configuration".
\* A thread that works with a configuration that has been changed will be reset, whatever
\* it was doing when the row was written.
OutdatedConfigsAreReset ==
  \A t \in Threads : Alive(t) /\ loaded[t].stamp # config[ConfigOf[t]].stamp => ResetComes(t)

Outdated(t) ==
  {queries[t][i].id : i \in {j \in DOMAIN queries[t] :
                               query[queries[t][j].id] \notin {0, queries[t][j].version}}}

\* The same for the queries in the container, unless the row was changed, or its ID given
\* to another query, between the thread's reading and the server's search.
OutdatedQueriesAreReset ==
  \A t \in Threads : Alive(t) =>
    \A q \in Outdated(t) : q \in missed[t] \/ Loading(t, q) \/ ResetComes(t)

\* Nobody goes on working with what has been changed.
OutdatedDataIsReset == OutdatedConfigsAreReset /\ OutdatedQueriesAreReset

Named(t, r) == [i \in DOMAIN lists[t][r] |->
                  IF lists[t][r][i] \in DOMAIN queries[t] THEN queries[t][lists[t][r][i]].id ELSE 0]

\* A list the thread works through names the queries of its configuration, in their order:
\* its indices never refer to a container that has been cleared since.
ListsAreThoseOfTheConfig(t, r) ==
  /\ Len(lists[t][r]) = Len(loaded[t].lists[r])
  /\ \A i \in DOMAIN lists[t][r] : lists[t][r][i] # 0 => Named(t, r)[i] = loaded[t].lists[r][i]

ListsMatch ==
  \A t \in Threads : pc[t] \in {"loop", "tick"} =>
    \A r \in Cleared(kind[t]) : ListsAreThoseOfTheConfig(t, r)

\* A changed configuration reaches each thread that goes on running.
ConfigsArrive ==
  \A t \in Threads :
    []<>(~Alive(t) \/ paused[t] \/ loaded[t].stamp = config[ConfigOf[t]].stamp)
=============================================================================
