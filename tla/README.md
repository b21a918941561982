# Formal models of crawlserv++

TLA+ models of the crawlserv++ server (`src/crawlserv/src`), the TLC runs that
check them on small instances, and TLAPS proofs for every value of the constants.
File names below are relative to `src/crawlserv/src`.

## 1. The system

crawlserv++ is a server that crawls web sites, parses what it has crawled, extracts
data and analyzes text.  A front end sends commands over HTTP; the work is done by
*module threads* that live until a user stops them and survive restarts of the
server, and by *worker threads* that execute one long command each.  All data is
in a MySQL database.

| Component | State | Operations | Interacts with |
|---|---|---|---|
| `Module::Thread` | eight atomic flags, last and target ID, condition variable; a row in `crawlserv_threads` | `main`, `init`, `tick`, `wait`, `clear`; `pause`, `unpause`, `stop`, `interrupt`, `reset`, `warpTo`, `end` | its own thread and the server's main thread share the flags |
| `Main::Server` | vectors of module threads and of workers, running flags of the workers | commands, `tick`, start and destructor | calls the operations above; workers report their end |
| `Main::Database` | connections; websites, lists, configurations, queries, tables | statements, mostly outside of transactions | everything |
| Named locks | static vector of names | add (waits), try, remove; two RAII guards | all module threads |
| `Module::Parser`, `Module::Extractor` | cache of URLs and lock times, results, queue of finished URLs; target tables | fetch, lock, renew, parse or extract, save, mark | others with the same table; the database clock |
| `Module::Crawler` | current and retried URL, custom URLs, archive queue; crawling table | select, lock, crawl, retry, archive | other crawlers, parsers that read its list |
| `Module::Analyzer` | corpus, state of the algorithm | create or load a corpus, tick of the algorithm, upload | parsers and extractors (sources) |
| `Query`, `Parsing` | query target, subsets and their representations | set target, find, visit and insert subsets | the thread that owns the container |
| `Data` | corpus, topic model, typed values | create, tokenize, filter, store, load | analyzers |
| `Module::Config` | options, parallel arrays | load entry by entry, adjust | each module |
| `Main::WebServer` | connections | poll, send, send from a worker | workers write, the main thread polls and closes |
| Network, Timer, Helper, Wrapper, Struct | mostly values | libcurl, parsers of markup, text processing | called by the modules |
| `Main::App`, front end, SQL scripts, dictionaries | one signal flag, none | start-up; presentation | |

What is hard in it, and what makes each part correct:

- **Threads and flags.** `stop()`, `unpause()` and `interrupt()` clear flags one by
  one, the condition variable is signalled afterwards, and between the two is a
  database statement that may throw.  The thread must not sleep through its end, the
  destructor must join every thread, and the row must go after the thread and only
  if a user wants it: it is what the next server continues from.  `deleteconfig` takes the row from
  a thread that runs, whose ID may then be given to another.
- **Workers.** A worker reports its end by a position in a vector that shrinks
  meanwhile, under the lock under which the tick joins workers.  No thread object may
  go before its thread, and nobody may wait for anybody for good.
- **Named locks.** The vector does not know who added a name; waiters may give up;
  some guards are temporaries.  Sections must exclude each other and leave no name.
- **URL locks and saving.** Locks expire by the database clock, in seconds; selecting
  and locking are different statements; results, marks and the last ID are saved by
  different statements.  A URL should be processed by one thread at a time, a finished URL
  must have its results, and no result may be lost for good by a crash.
- **Commands.** A command checks first and then executes statements one by one, next to
  threads that end, workers, failures and crashes.  What is in use must not disappear.
- **Reloading.** Rows of configurations and queries change while threads read them,
  compile them and register for them, in several steps.
- **Data structures with several representations.** Subsets of a query target, the maps of a
  corpus, the parallel arrays of a configuration and the members that
  describe a topic model must agree after any sequence of calls.

`PROJECT.json` lists every component, and every hazard with its line, the properties
that cover it and, where there is none, why.

## 2. Modules and how they correspond to the code

| Module | Models | Extends or instantiates |
|---|---|---|
| `ThreadLifecycle` | abstract: what a user sees of a thread and of its row | |
| `ModuleThread` | Module/Thread.cpp with the server's side of it | `ThreadLifecycle` by refinement |
| `WorkerRegistry` | `cmd()`, `workerEnd()`, `tickRemoveFinishedWorkerThreads()`, `clearWorkerThreads()` | |
| `NamedMutex` | abstract: a mutex per name that is tried, not waited for | |
| `NamedLock` | the named locks and their two guards in the ways modules use them | `NamedMutex` by refinement |
| `Processes` | the two before, for one run | `NamedLock`, `WorkerRegistry` |
| `UrlLock` | parsers that share a parsing table | |
| `ServerData` | commands for websites, URL lists and configurations, and the threads that use them | |
| `QueryReload` | configurations and queries that change under threads | |
| `QueryContainer` | Query/Container.hpp | |
| `Crawler` | Module/Crawler/Thread.cpp and its database | |
| `Extractor` | Module/Extractor/Thread.cpp and its database | |
| `Corpus` | Data/Corpus.hpp | |
| `Representations` | the container and the corpus, for one run | `QueryContainer`, `Corpus` |
| `ModuleConfig` | Module/Config.hpp and the classes that inherit from it | |
| `CustomData` | typed values in tables of results (Main/Database.cpp, Data/Data.hpp), the upload of Module/Analyzer/Thread.hpp | |
| `TargetTables` | creating, extending, registering and deleting target tables | |
| `TopicModel` | Data/TopicModel.hpp | |
| `UrlList` | hashes and duplicates of URLs: crawlers, workers, website update | |
| `WebsiteMove` | `updateWebsite()`, `moveWebsite()` with their transactions | |
| `Library` | the six before, for one run | `ModuleConfig`, INSTANCEs of the others |
| `MC...` | instances for TLC | the module of that name |
| `...Proofs` | theorems (those of `NamedLock` and `WorkerRegistry` in `ProcessesProofs`) | the module of that name, TLAPS |

**ModuleThread.**  `flag` holds the atomic Boolean members, `cond` the condition
variable with its mutex, `th` where the thread is in the code, `srv` where the
server's main thread is inside an operation.  Each atomic access and each SQL
statement that the other side can observe is a step.  Callbacks (`onInit`, `onTick`, ...)
are *contexts*: within one the thread may set its status message (three steps: `interrupted`,
`paused`, the UPDATE), set its last ID, throw, or return; `Handlers` says which
catch clause an exception reaches from each context.  `compare_exchange_weak` may
fail spuriously (`LoopNoReset`, `NoWarp`), condition variables may wake up
spuriously (`WaitSpurious`).  The server handles one command at a time, so its
operations never overlap each other; its orderly exit interrupts and joins,
a crash may come at any point, and `Restart` continues whatever row is left.  Statements find the
row by its ID, so `row.of` says whose it is: this thread's, nobody's, or that of *another* thread that was
given the ID (`IdGivenAgain`).  `DeleteConfig` is the foreign key that takes the row from a running thread.
`earlier` (chosen, like `pausable`, by `Instances`) is the same seen from the other side: a thread without row runs on with the ID that this one has
got, changes its row (`EarlierWrites`) and in the end deletes it (`EarlierEnds`).  `stopped` and
`orphaned` are history variables: who or what has caused the loss of the row.
Left out: run and pause times, progress, log texts.

**WorkerRegistry.**  The vectors `workers` and `workersRunning`, the position each
worker was told when it started, and the lock; the tick is a loop over positions with
one step per look, join and erasure, since workers can end in between.  A position
behind the end of the vector makes `at()` throw in the worker, which ends the
process (`terminated`).

**NamedLock.**  A thread asks its callback, tries to add, sleeps and asks again; the
four values of `Use` are the four ways the modules use a name (see the
head of the module).  A waiter that gives up is constructed a guard like any other
thread, and the destructor removes the name whoever added it.

**UrlLock.**  One step per SQL statement; `now` is `NOW()` of the database and advances
between any two of them up to `MaxTime`.  `Renewable`, `Removable`, `Fetchable` and
`NextUrls` are the WHERE clauses.  Parsing is abstracted to its outcome: success,
failure, skipped by a query, or cancelled.  `owner`, `intruded` and `lost` are history
variables: a URL is *intruded* when a lock that is still alive is changed by a parser that
has not set it.  `instance` holds what does not change: which parsers run, whether
their statements may fail (`dbFails`), the size of the cache.

**ServerData.**  A command checks against `db` and leaves statements in `todo["main"]`, which
are executed one by one; a worker has statements of its own.  Rows are partial functions
from IDs, deletions cascade along foreign keys, and AUTO_INCREMENT starts over when a table
is empty.  The tables of a list are a name, put together from two namespaces.

**QueryReload.**  A thread reads its configuration, then one row after the other
(`read`, `compile`, `register`); the main thread changes a row and then visits one thread
after the other.  `missed` records what was changed between the reading of a row and
the registration of its ID.

**QueryContainer.**  The target, what has been parsed of it, and the subsets in their three
representations (strings, XML, two kinds of JSON), with the cleaning of memory; parsers may fail.

**Crawler.**  Manual mode (custom pages, start page), automatic mode, retries, archives
and their mementos, jumps, and restarts.  Other crawlers lock and finish URLs in between.
Lock times are the seconds that remain, so that the clock is finite.  `large` has the URLs whose content may exceed
`max_allowed_packet`: `saveContent()` then stores nothing and says so in the log only (`Stored`).

**Extractor.**  Pages (numbered or found by queries), tokens, expectations, retries, linked
datasets, saving in its order of statements, failures of each kind.  Locks of other extractors
are choices, as `UrlLock` is about them.  `seen`, `links`, `partial`, `left` and `lost` are history variables: what the last attempt
of a URL has found, which URLs were not attempted from the beginning, which ones an exception has left in the cache, and what a
failed statement has lost.

**Corpus.**  Texts are sequences of bytes with characters of two bytes; the maps of
articles, dates and sentences hold positions and lengths.  `expected` is the reference: the
articles the corpus should consist of.

**The parts of Library.**  `ModuleConfig` reads entries of JSON with every kind of value;
integers are scaled down (see the head of the module), so that their limits can be met.
`CustomData` writes and reads values through SQL types.  `TargetTables` has one step per
statement.  `TopicModel` keeps the settings of the class next to the state of the library's
model.  `UrlList` has rows with hashes that depend on the website's and the list's settings.
`WebsiteMove` has one step per statement, each of which may fail, and transactions that the
server's DDL ends.


## 3. What the runs check

| Run | Instance | States | Shows |
|---|---|---|---|
| `thread_safety` | either pausability, IDs 0..2, failing statements of both connections, crashes, `deleteconfig`, with or without an earlier thread | 603,536 | a thread loses its row after it has been stopped and has ended, or because a configuration was deleted; a thread that has not lost its row this way spares the row of a later one with its ID; the destructor never skips a join; the thread implements `ThreadLifecycle` |
| `thread_live` | the same threads, IDs 0..1, failing statements of the thread's connection, fairness | 143,250 | no wakeup is lost; a stopped thread leaves `main()`; a finished one is removed |
| `processes` | two threads and one name of each use; four workers; fairness | 11,767 | exclusion until somebody gives up, stopped threads leave, try-locks are mutexes; no running worker is erased, the tick ends unless a worker was reported by another |
| `urls` | leases of 1 s in 3 s, stops and crashes: two parsers, one listed URL, a cache of one, without commands (pauses, jumps, resets); one parser, two URLs, a cache of two, with commands and statements that may fail | 1,234,504 | a URL is parsed by one parser at a time; a finished one has its results; unsaved results are ahead of the last ID |
| `data` | two websites, two lists, one configuration, one row, one event (failure, crash, worker), two threads or events together | 776,534 | what is in use exists; namespaces are unique; rows are those of threads; tables are those of lists |
| `reload` | one thread of any module, one configuration, two queries, four changes, fairness | 883,785 | outdated configurations and queries are reset; lists match the configuration; changes arrive |
| `representations` | a container with two targets, three subsets, one result per query for subsets; a corpus of three articles, two dates, chunks of several sizes | 193,853 | queries use the target that is set; subsets are kept until they have been visited, and agree in all representations; texts, tokens, articles, dates and sentences are those of the sources; chunks fit |
| `crawler` | three URLs, one custom page, leases of 1 s, one memento, seven configurations, fairness | 489,335 | finished URLs have their content, if the database server takes it; URLs are left in order and released; all are visited |
| `extractor` | two URLs, one dataset ID, one token, two pages, two fields, fairness | 436,015 | results are complete; unsaved ones are ahead of the last ID; a stopped extractor ends |
| `library` | the six parts of `Library` | 1,105,184 | options fit, values are exact, threads have their tables, members describe the model, URLs are found, websites keep their rows, nothing else is disturbed |
| `crawler_archives` | as `crawler`, configurations that retry archives | | violated: see section 4 |
| `data_names` | as `data`, without events and threads, for namespaces that contain the character that joins them | | violated: see section 4 |

**Type invariants.**  The types of `ModuleThread`, `NamedLock`, `WorkerRegistry`, `UrlLock` and
`QueryReload` are proved (section 5), as are those of `ServerData`, `Crawler`, `Extractor` and `QueryContainer`; those of the
parts of `Library` are checked as `EveryPartIsTyped`.  The types of `Corpus` are stated with the variables they describe.

**Bounds.**  One module thread is enough for `ModuleThread`: threads share no flags with
each other.  IDs up to 2 allow a warp forwards, a warp backwards and the target that is
refused.  Four workers let an erasure shift two others and let a shifted one be shifted
again.  Two threads suffice to exclude, to wait, to give up and to intrude on a name.  In
`urls`, a lease of 1 in 3 seconds lets a lock be fetched, renewed early (longer by a second),
expire, and be taken over; `MaxTime` only stops the clock, so that every state before it is
complete.  Two parsers run without the user's commands, and one parser with them: that
jumps and resets keep locks apart as well when there are two parsers, or caches with several URLs, is not in this
instance but follows from the theorem `UrlsHaveOneParser`.  In `data`, one event at a time shows every single failure, crash and worker between
any two statements, and `MaxLoad` lets two threads, or one thread with an event, meet;
what two failures in a row do is left out.  In `reload`, a thread with two queries and four
changes lets a row be changed, deleted and added again between any of its steps; threads
do not share anything but the rows, which the main thread changes for all of them.  In a container,
three subsets leave one before, one at and one behind the current one.  In `crawler`,
three URLs are a start page, a custom page and one that is found later.  In a corpus, three
articles with two dates, or none, give each map a first, a middle and a last entry, and sizes of
chunks from one character on cut everywhere.  In `extractor`, two URLs fill the cache, and two pages have
a first and a last one.  The theorems have none of these bounds where they apply.

**Deadlock** is checked in `thread_safety`, `thread_live`, `urls` and `data`.  The others may really stop:
the tick of `WorkerRegistry` can wait for good (section 4, observations), in `reload` the changes are used up,
a container may have no call left within its bounds, a crawler, extractor or update ends, and so
do a corpus that has been put together again and the parts of `Library`.

**Symmetry** is used with invariants: parsers (`urls`), website names and, in pairs, kinds
of threads (`data`), and threads and crawlers (`library`, whose only temporal property is an action
property that names neither).

**Fairness.**
`ModuleThread`: weak fairness of the steps of the thread and of the server inside
an operation (the operating system runs them, `pauseLock` is held for a few steps
only); strong fairness of the return of callbacks, which may set their status any number of
times before, and of the removal of finished threads, as the main loop comes back to
its tick between two commands (Main/Server.cpp 174-181).  Nothing forces a user to
send a command, and no failure is fair.  `WorkerRegistry`: every worker's command ends
and the tick runs, strongly where another worker may hold the lock.  `NamedLock`: a thread in or
before its section is run; nobody has to request one.  `QueryReload`: the main thread finishes its
visits, threads are run, and a reset is taken strongly fairly, because `compare_exchange_weak` may fail
any number of times, but not for ever.  `Crawler`: a crawler that runs is run, and the clock
goes on, so that locks of others end.  `Extractor`: its thread is run, while the source may answer
anything: a stopped extractor ends whether or not its retries are limited.

## 4. Findings

*Retrying archives outlives its URL* (`crawler_archives`, Module/Crawler/Thread.cpp:3643).  When a page
of a timemap is to be retried, `crawlingRetry()` sets `archiveRetry` (4432); the URL is then finished
nevertheless, and the flag stays.  `crawlingContent()` skips the content of the next URL
(1973), which is marked as crawled without content.  Module/Crawler/Thread.hpp:292
says of the flag "only archive needs to be retried".

*Two lists, one set of tables* (`data_names`, Main/Database.cpp:3895).  The tables of a list are named by the
namespaces of website and list, joined by `_`, which namespaces may contain (Helper/Strings.hpp 1079).  `addUrlList()` only
asks whether the *same* website has a list of that namespace; website `news` with list `site_default` and
`news_site` with list `default` have the same tables, which CREATE TABLE IF NOT EXISTS (10592) adopts, and the deletion of
either list drops.  README.md:365 says "These namespaces determine the names of the tables used for each URL list".
For such namespaces `NothingIsLeftBehind` cannot be proved (`NamesAreUnambiguous`, section 5).

### Observations without a run

Seen while modelling; the models contain those marked with the name of what shows them.

Threads, workers and locks:

- `unpause()` clears `paused`, writes to the database, then notifies; when the statement throws,
  nobody notifies, and the next `unpause()` does nothing (Module/Thread.cpp:312; `NoLostWakeup` holds
  only without failing statements of the server).
- A `pause()` between the first flag of `stop()` and the second leaves the stopped thread asleep.
- A thread ended by an exception in `main()` is never removed by the tick.
- `deleteconfig` deletes the rows of running threads by the foreign key (Main/Server.cpp 3008-3035).  Nobody tells the
  threads.  Once `addThread()` has given the ID again (the auto-increment of an empty table starts over,
  Main/Database.cpp 1478-1481), the old thread changes the new one's pause state and last ID, and deletes its row
  when it is stopped; the next server does not continue the new thread, although nobody has stopped it (`EarlierWrites`,
  `EarlierEnds`; the reservation `orphaned` in `RowsAreKept` and `OthersAreSpared`).
- `onInit()` failing after `stop()` sets `interrupted` again: the row of the stopped thread survives.
- `warpTo(1)` stores 0, the value for "no target"; `setLast()` that fails never retries the same ID;
  `setStatusMessage()` may overwrite the saved pause state with the one before.
- After an erasure a worker clears the flag of a younger one; the tick then joins that one under
  `workersLock`, which it needs to report its end (Main/Server.cpp:4867; the reservation in `TickCompletes`).
- `DatabaseLock(...)` without a variable unlocks at its semicolon (Module/Parser/Thread.cpp:517, 1674;
  Module/Extractor/Thread.cpp:627, 3338, 3409; Module/Analyzer/Database.cpp:960; the use "temporary" of `NamedLock`).
  No name is leaked by it (`LocksHaveGuards`, section 5, holds), and no property claims exclusion for this use.
- A waiter that gave up removes the lock of the holder with its guard; from then on exclusion is not claimed.

Parsers (`UrlLock`):

- Two parsers that select the same URL before either locks it may both parse it
  (Module/Parser/Database.cpp:1984; `intruded`).
- A renewed lock is one second longer than reported, and the URL is not marked (993).
- With failing statements two parsers may parse one URL: a parser skips and unlocks a URL as the last
  of its cache, saving other results throws, and the URL stays in its cache with its old lock time
  (the reservation `dbFails` in `UrlsAreParsedOnce`).
- `updateOrAddEntries()` takes an entry from its queue before the statement: if that throws, the entry is
  lost (`lost`).  After a failed save during a jump the old cache is kept although the last ID is the target.
- `lastUrl` is 0 until a URL has left the cache; a continued parser that saves before starts over.
- A stopped parser unlocks its URL in `onTick()` and again in `onClear()`, when the lock may be another's.

Server data and reloading:

- `deleteconfig` does not ask for threads: their rows cascade away, their IDs are used again
  (Main/Database.cpp:1009), and an ended object with the same ID is paused in place of the new one (`reused`).
- `addUrlList()`, `deleteUrlList()` and `updateWebsite()` are not transactional; CREATE TABLE IF NOT EXISTS adopts old
  tables.
- An import that adds a list checks first and inserts later (`raced`); merge, import and deleteurls look up the
  table names once; deleteurls does not look for running threads.
- Starting a thread does not ask for which module the configuration is.
- The parser's `onClear()` forgets `queriesContentIgnore` (Module/Parser/Thread.cpp 385-391, used at 1101).
- A query changed between its reading and its registration is missed (Main/Server.cpp:2664; `missed`).

Containers and configurations:

- `nextSubSet()` throws when there are no strings (Query/Container.hpp 823-826) and does not reset what was parsed of the
  subset before (799-802); turning a freed subset into a string throws; `addSubSets()` for JSONPath parses with RapidJSON
  and then uses the document of jsoncons (3421); `setSubSetsFromQuery()` with joined queries never sets the
  number of subsets (3124-3131); `getTarget()` returns true without a target (501).
- A configuration entry that is ignored leaves its category and name for the next one (Module/Config.hpp 439-460,
  reset only in 504-507); numbers that are too large push nothing, so that later values of an array shift.

Crawler:

- Content larger than `max_allowed_packet` is not stored; there is a warning in the log, and the URL counts as crawled
  (Module/Crawler/Database.cpp 1663-1703; `large`, the reservation in `FinishedUrlsHaveContent` and `CrawledUrlsHaveContent`).
- `retryArchive` with an HTTP error on the timemap unlocks the URL and then fails for lack of a lock time;
  a UTF-8 error skips twice (Module/Crawler/Thread.cpp 2089-2105).
- Failed content with archives leaves the lock and an old lock time; several mementos count several
  retries (4033-4140); an error on a redirected timemap loops for ever.
- A stop between locking and `crawlingUrl` leaves the lock (1579, comment 1640); a stop while links are added finishes
  the URL all the same (3568); a jump during a restarted manual mode is overwritten (1487-1496).
- Local counting drops custom URLs beyond the number of counters (546-567); counters near the limits of 64 bits
  overflow (939, 1005).

Extractor:

- `setUrlsFinishedIfLockOk()` and `setLast()` may throw like the statements before them; the model lets only those
  fail that save data and links.
- The step of numbered pages never pushes the next number (Module/Extractor/Thread.cpp 1644-1647, comment 1645);
  tokens that depend on headers are never resolved (1973-1981).
- The IDs found are kept after an exception, so that the datasets of the retried URL are dropped as duplicates (275-277);
  a pause after an exception saves an ID behind a URL that is still in the cache (`left`), may finish it, and lets it be extracted
  a second time (`partial`).
- A stop between pages finishes a URL that is partly extracted (280); `linkedIndex` grows with each reset
  (Module/Extractor/Database.cpp:316); a failing `error.retry` query retries without limit (1467-1479).
- `linkedDateTimeFormats` gets the number of the other fields (Module/Extractor/Config.hpp:1502).

Results and lists:

- Results written as 64-bit numbers are cut to 32 bits in JSON (Module/Analyzer/Thread.hpp 298-306); `getColumnType()` drops
  "unsigned" (Main/Database.cpp:7746); a value that is asked for without a row keeps its old content (8172).
- Two threads that initialise the same new table at once register it twice; a referenced table of a deleted list
  cannot be dropped (doc at Main/Database.cpp:4922); "if it does not exist" (Module/Parser/Database.cpp:144) leaves a
  thread whose registered table was dropped without one.
- A website update leaves hashes stale until a crawler starts (Main/Database.cpp:2547); URLs with and without `www.`
  become one URL twice; crawlers with different settings for cases turn the flag and the hashes of the list back and forth.
- A website that could not be moved loses a table when the move is tried again: after a failure between DROP and
  RENAME (Main/Database.cpp 3759, 3771) the next move drops the only copy (3492-3495); the checks of foreign keys stay off
  after an error (3594); transactions around DDL roll nothing back (comment at 3806).

Data:

- Corpus: a last token without end in a corpus without dates uses the end of an empty map (Data/Corpus.hpp 3941-3947);
  articles of separators only hide later ones (4265); manipulators behind one that writes back are skipped
  because the iterator is a reference (2982-3003; doc 2767-2770); `SliceText` may be out of range (1922-1935).
- Topic model: the interval of parameter optimization is never passed on (Data/TopicModel.hpp:1521); a loaded, trained
  model gets the version of the current program (1688, 2283); a broken file leaves a model that refuses settings until it is cleared.
- Analyzers, not modelled: token counts are written with ID and count exchanged
  (Module/Analyzer/Algo/AllTokens.cpp 627-632); the last article without date counts as one of the first
  date (AssocOverTime); an average is divided twice (SentimentOverTime 732, 900).
- The web server answers an upload that is too large twice (Main/WebServer.cpp 488-576).


## 5. What is proved

All theorems hold for every value of the constants that the assumptions allow.  These are named in
the modules (`InstancesAssumption`, `MaxIdAssumption`, `DbFailsAssumption`, `UseAssumption`, `NamesAssumption`, `DefaultNameAssumption`,
`CrawlerAssumption`, and those of `UrlLock`, `QueryReload`, `Extractor` and `QueryContainer`) and evaluated by TLC in the runs; they only say what kind
of value a constant is.

**ModuleThreadProofs** (any set of IDs, either pausability, with or without an earlier thread, any failing connections):

- `TypeCorrect`: `TypeOK`.
- `ThreadsAreNotLost` (`OnlyStopDeletes`), `RowsOutliveThreads`, both together as `RowsAreSafe` (`RowsAreKept`), and
  `DestructorIsSafe`.  The first three except rows that `deleteconfig` has cost the thread (`orphaned`): what they say is that
  the server's own deletion, in `end()`, only meets threads that were stopped and have ended.  None of them is inductive by itself.  The strengthening `DeletionInv` adds: `shutdown` without
  `stopped` means `interrupted`, so that `end()` keeps the row; inside the operations that end a
  thread its flags are as the first step left them; between join and deletion the thread has exited.
- `LaterThreadsAreSafe` (`OthersAreSpared`): once the row of a thread is gone, other than by `deleteconfig`, no step of it, or of
  the server on its behalf, touches a row that has got its ID.  It follows from `RegistrationInv`: without row and not
  orphaned, the thread has exited and is no longer registered.
- `PauseLockIsScoped` (`LockIsScoped`), and `WakeupsAreNotLost` (`NoLostWakeup`), the latter
  under the condition that the property states: the server's statements do not fail.  The invariant is `WaitInv`:
  it ties the mutex to the control state, which rules out a signal between the test of the
  flag and the sleep, and adds that a thread about to fall asleep unpaused will be notified.
- `ThreadImplementsLifecycle` (`ImplementsLifecycle`): initial states map to initial states and each
  step to a step or a stutter.  `RegistrationInv` says when the thread is registered and its
  row present.  So the threads that are continued after an exit or a crash are those that nobody has stopped,
  apart from the ones that `deleteconfig` has cost their row (`Orphan`).

**ProcessesProofs**, named locks (any threads, names and uses): `LocksAreTyped`, `LocksHaveGuards`,
`SectionsExclude`, `TryLocksImplementMutexes`, from the invariant `LockInv` (that no name is left behind,
`NoLockIsLeaked`, is proved only, not checked by a run): every name in the
vector has a guard object, and while nobody has given up on it, only one.

**ProcessesProofs**, worker threads (any number of them): `RegistryIsTyped`, `VectorsStayParallel`, `WorkersAreKept`,
`FlagsComeFromAbove`, `DestructorJoinsAll`.  The invariant `IInv` relates the position a worker was told to the
one it has: erasing moves workers down, never up (`Known`).  The flag that a worker clears is
therefore its own or that of a younger one; or the position is behind the end of the vector, `at()` throws in
the worker and the process ends (`terminated`).  The tick, which joins before it erases, never erases a worker that runs.  `RunImplementsBothParts`: a behaviour of `ProcessesSpec`, which
the run checks, is one of both parts (`StepOfOnePart`), so that all these theorems hold in it (`LocksInTheRun`, `WorkersInTheRun`).

**UrlLockProofs** (any parsers, URLs, lease, cache size and end of time):

- `TypeCorrect`: `TypeOK` with `Control`, what a parser's variables are in each control state: the cache is not
  empty where the code reads its head, and `locked` stays below its length.
- `FinishedUrlsHaveResults` (`FinishedHasResults`).  Inductive with `QueuedHasResults`: each URL in the queue of finished ones
  has results, saved, lost or still in memory; and memory is empty once the queue is worked off.
- `ResultsAreAhead` (`UnsavedResultsAreAhead`).  The invariant `Order` says that the cache is sorted, that it lies behind
  the last URL and the last ID wherever the code compares or saves them, and how a jump suspends this until
  the results have been saved and the cache has been unlocked.
- `CountedLocksStayLive` (`CountedLocksAreLive`) and `UrlsHaveOneParser` (`UrlsAreParsedOnce`).  A parser makes *claims*: by its
  cache, by the URL it parses and by the queue of finished ones it believes that a URL is locked until a time.
  `LockInv` says that a claim whose time has not come is covered by a lock of its own that is at least as long
  (`Live`), unless the URL is intruded or a statement of the parser may fail (`dbFails`).  Two things keep it: a step of another parser changes only locks
  that are over or its own, or the intrusion is recorded (`TakesOwn`); and a parser that unlocks or renews does so
  with the time of its claim, and has no older claims on that URL that are not over (`OldLocksAreOver`).
  Two live claims on one URL would need two owners.

**QueryReloadProofs** (any threads, configurations, queries and numbers of changes):

- `TypeCorrect`: `TypeOK` with `Control`.
- `ChangesLeadToResets` (`OutdatedDataIsReset`).  Each query in a container is registered, or will be next (`Registered`);
  the row that is being loaded is current or its change is recorded in `missed` (`Loads`); and whatever is outdated
  will be reset: the flag is set, or the main thread has still to visit the thread (`ResetComes`).
- `ListsAlwaysMatch` (`ListsMatch`).  While a thread loads, what is left to load and what has been listed
  make up the configuration, in its order (`Listing`).

**ServerDataProofs** (any websites, lists, configurations, names, events and threads):

- `TypeCorrect` (`TypeInv`): `TypeOK`, with two facts of the tables that the code relies on: the next
  ID is ahead of every row's (`Fresh`), and rows refer to rows (`Referring`).
- `UsedDataIsKept` (`UsedDataExists`) and `NamespacesStayUnique` (`WebsiteNamespacesAreUnique`).  A command checks first
  and changes the tables later, so neither is inductive.  `UseInv` adds `Plan`: no statement that a command has left
  to do deletes anything in use, nor does what its failure undoes, and the name of a website it has left to write is
  still free.  It holds because everything that could start to use data is a command as well, and workers only add lists.
  `Executed` says what each kind of statement does to the tables; `DataCommandPlans` what each
  command leaves to do.
- `RowsKeepThreads` (`RowsHaveThreads`), with `SameIds`: two threads that have the same ID have it from a configuration
  that was deleted (`reused`).
- `FailedWebsitesGo` (`FailedWebsitesAreGone`, the second half of `NothingIsLeftBehind`).  `UndoInv`: when a statement has failed
  once, the website to take back is gone or its deletion is the last thing its connection has left to do.
- `TablesFollowLists` (`NothingIsLeftBehind`), if `NamesAreUnambiguous`: no two pairs of namespaces make the same table name.
  Whoever runs this program can choose such namespaces, the run `data` does, but nothing enforces it: `data_names` violates what
  follows from it.  `TablesInv` speaks of the states in which no statement has failed and no command has come between the
  statements of a worker.  At most one connection then has statements left (`Balanced`), and the tables are those of the lists
  but for what these statements will still do: add one (`Adding`), delete a website or a list (`Deleting`), or rename them
  (`RenamingWebsite`, `RenamingList`).  It rests on `UniqueLists`, no website has two lists with the same
  namespace, and on the foreign keys.  `DataCommandBalances` shows that what each command starts is of one of these forms,
  `BalancedStep` that each statement keeps it so, down to the last one, after which tables and lists agree.

**CrawlerProofs** (any list, configurations, pages, leases and other crawlers):

- `TypeCorrect` (`TypeOK`), `FinishedUrlsKeepContent` (`FinishedUrlsHaveContent`), `UrlsStayInOrder` (`UrlsAreLeftInOrder`),
  all from one invariant, `Inv`, because they need each other.  Its parts: `Control`, which URL the tick has in each
  control state; `ContentFirst`, a URL that is about to be finished has its content unless that is `large`, and without retried
  archives the flag `archiveRetry` is never set; `Modes`, in manual mode there is no last ID and only pages are crawled, and
  once it is over there is no way back; `Positions`, all URLs up to the last ID, and before the one the
  crawler is at, are *covered* (crawled, skipped, somebody else's or jumped over), so that advancing to it passes nobody;
  `Locks`, a lock that lives is another crawler's, or that of a thread that is gone, or the crawler knows
  its time and its URL, and what the crawler believes is never less than what the table says.
- The first part of the module says what `Advance`, `Unlock`, `CrawlingSkip`, `CrawlingRetry` and `CrawlingSuccess` do to
  any memory and tables (`SkipEffect` and so on), the steps are built from these.  The case that needs care is a
  crawler that is stopped in the archives of its last URL: it goes back by `penultimate`, which must not lie ahead of the last ID.

**ExtractorProofs** (any list, cache, configurations, datasets, tokens, fields and pages):

- `TypeCorrect` (`TypeOK`), `FinishedUrlsAreComplete` (`ResultsAreComplete`) and `LastIdStaysBehind`
  (`UnsavedResultsAreAhead`), from one invariant, `ExtractorInv`.  `CachesFit` and `CallersFit`: what the caches hold in each
  control state, and who has called `extractingSaveResults()`; `Complete`: what the current attempt has found is in
  memory, and what the last attempt of a finished URL has found is in memory, lost, or in the table with its links; `Ordered`:
  the cache is ascending and lies ahead of both the last ID and the last URL.
- Stated for any instance, the two properties had counterexamples the run was too small for, which TLC confirmed with two
  URLs: a URL that an exception leaves in the cache may be finished by a pause and then extracted once more
  (`left`, `partial`), and once `linkedIndex` has grown past the last field, saving throws before a jump has been completed.  Both
  are behaviours of the code (Module/Extractor/Thread.cpp 275-277, Module/Extractor/Database.cpp:316), and are now reservations of
  the properties.

**QueryContainerProofs** (any targets, and bounds on the subsets):

- `TypeCorrect` (`TypeOK`), `QueriesStayWithTheirTarget` (`QueriesUseTheirTarget`) and `NoSubSetIsLost` (`SubSetsAreKept`), from
  the invariant `ContainerInv`.  Its core, `Kept`, relates the subsets to the order in which the queries have found
  them: counted (`Bounded`), as documents of one type or as strings or as both (`Lengths`), each at its position (`Places`), while
  what is left of the parsing state is that of a subset that has been reached (`ParsedAreReached`).
- There is a lemma for each function of the code: `Stringified`, `SubSetParsed`, `MovedInto` (`moveInto()` inserts behind
  the current subset), `Inserted` (`insertSubSets()`), `FilledKept`, `Visited` (`nextSubSet()`), and `SubSetsAdded` puts them together.
- `RunImplementsContainer`, `ContainersInTheRun`: a behaviour of `RepresentationsSpec`, which the run checks, is one of the container.

**Only model-checked.**  Liveness: `StoppedThreadExits`, `FinishedThreadIsRemoved`, `StoppedThreadLeaves`, `TickCompletes`, `ConfigsArrive`,
`UrlsAreVisited` and `StoppedExtractorExits` rest on fairness and ENABLED, which the prover does not
handle.  `Corpus`, and the parts of `Library`, compute with recursive definitions and folds, whose
values for all inputs need induction over data, which is out of its reach too.

## 6. Not modelled, and the plan

Not modelled: the algorithms of the analyzers (Module/Analyzer/Algo), the save points between the
manipulators of a corpus and the check for changed sources, `Main::WebServer`, `Main::App`, the network,
merge, export, deleteurls of many URLs at once and testquery, logs, duplicate rows of the parsing table, re-parsing and
batches in the parser, what pages, queries and texts contain; a thread that cannot be created; the wrappers of libraries;
reconnecting (`checkConnection()`, Main/Database.cpp:6677).

Next:

1. `Reconnect`: `checkConnection()` and statements prepared before.
2. The framework of the analyzers (Module/Analyzer/Thread.cpp: corpora, gaps of dates) and an algorithm over time
   (AssocOverTime, SentimentOverTime, WordsOverTime), with its restarts after exceptions.
3. `WebServer`: connections shared by the main thread and workers that reply.
