------------------------------ MODULE UrlList ------------------------------
(***************************************************************************)
(* The URLs of one URL list: its rows in the database with their hashes,   *)
(* the crawlers that check the list when they start and add URLs to it     *)
(* (Module/Crawler/Database.cpp, Module/Crawler/Thread.cpp), the worker    *)
(* threads of the server that import, merge and delete URLs, and the       *)
(* website update that rewrites them when a website becomes cross-domain   *)
(* or stops being so (Main/Database.cpp, Main/Server.cpp).  Every SQL      *)
(* statement is a step of its own, and atomic.                             *)
(***************************************************************************)
EXTENDS Integers, Sequences, SequencesExt, FiniteSets, FiniteSetsExt

CONSTANTS
  Crawlers,    \* crawler threads of the website
  Paths,       \* parts of URLs behind the host
  MaxId        \* bound on the number of URLs ever added

VARIABLES
  domain,         \* of the website, or NoDomain if it is cross-domain
  caseSensitive,  \* the flag of the URL list
  rows,           \* id -> URL and hash
  nextId,         \* the auto-increment value
  crawler,        \* the crawlers
  worker,         \* a worker thread of the server
  update,         \* the website update on the main thread
  history         \* what makes the promises void: see NoHistory

vars == <<domain, caseSensitive, rows, nextId, crawler, worker, update, history>>

NoDomain == "none"
Domain == "x"
Hosts == {Domain, "www.x", "y"}

\* A URL; in the list of a website with a domain it has no host.
Url(host, path, upper) == [host |-> host, path |-> path, upper |-> upper]
UrlsOf(d) ==
  IF d # NoDomain THEN {Url(NoDomain, p, u) : p \in Paths, u \in BOOLEAN}
  ELSE {Url(h, p, FALSE) : h \in Hosts, p \in Paths} \cup {Url(Domain, p, TRUE) : p \in Paths}

\* CRC32 of the URL, or of the URL in lower case; no collisions.
Hash(url, sensitive) == IF sensitive THEN url ELSE [url EXCEPT !.upper = FALSE]

\* The collation of the column ignores the case.
Same(a, b) == Hash(a, FALSE) = Hash(b, FALSE)

\* Rows that the list does not tell apart.
Double(i, j) == Hash(rows[i].url, caseSensitive) = Hash(rows[j].url, caseSensitive)

NoCrawler == [state |-> "none", sensitive |-> FALSE]
NoWorker == [state |-> "none", urls |-> <<>>, sensitive |-> FALSE, ids |-> {}]
NoUpdate == [state |-> "none", to |-> NoDomain, changed |-> 0, lost |-> 0, announced |-> <<0, 0>>]

\* unfit: hashes may not fit; doubled: there may be duplicates; broken: an update
\* failed or met URLs read before it; late: rows were added or deleted during the update.
NoHistory == [unfit |-> FALSE, doubled |-> FALSE, broken |-> FALSE, late |-> FALSE]

-----------------------------------------------------------------------------
(* Statements.                                                              *)

\* The first row with this URL, or 0; only rows with the right hash are compared.
getUrlId(in, url, sensitive) ==
  LET found == {i \in DOMAIN in : in[i].hash = Hash(url, sensitive) /\ Same(in[i].url, url)}
  IN IF found = {} THEN 0 ELSE Min(found)

\* INSERT IGNORE with the ID of the URL, if it exists, as primary key.
Insert(in, url, sensitive, id) ==
  IF getUrlId(in, url, sensitive) # 0 THEN in
  ELSE [i \in DOMAIN in \cup {id} |->
          IF i = id THEN [url |-> url, hash |-> Hash(url, sensitive)] ELSE in[i]]

Updating == update.state \notin {"none", "ended"}

\* A URL is added, if it does not exist yet.
addUrlIfNotExists(url, sensitive) ==
  /\ nextId <= MaxId
  /\ rows' = Insert(rows, url, sensitive, nextId)
  /\ nextId' = IF nextId \in DOMAIN rows' THEN nextId + 1 ELSE nextId
  /\ history' =
       IF rows' = rows THEN history
       ELSE [history EXCEPT !.late = @ \/ Updating,
                            !.broken = @ \/ Updating \/ (url.host = NoDomain) # (domain # NoDomain)]

Keep(ids) == rows' = [i \in DOMAIN rows \cap ids |-> rows[i]]

-----------------------------------------------------------------------------
(* Crawlers.                                                                *)

Running == {c \in Crawlers : crawler[c].state # "none"}
Goto(c, state) == crawler' = [crawler EXCEPT ![c].state = state]

\* Those who work with hashes agree on how to calculate them.
Agree(sensitive) ==
  /\ \A c \in Running : crawler[c].sensitive = sensitive
  /\ worker.state = "merge" => worker.sensitive = sensitive

\* A thread starts: the flag of the list becomes that of its configuration.  A
\* website is not updated as long as threads use it.
setUrlCaseSensitive(c, sensitive) ==
  /\ crawler[c].state = "none" /\ ~Updating
  /\ crawler' = [crawler EXCEPT ![c] = [state |-> "prepared", sensitive |-> sensitive]]
  /\ caseSensitive' = sensitive
  /\ history' =
       IF sensitive = caseSensitive /\ Agree(sensitive) THEN history
       ELSE [history EXCEPT !.unfit = TRUE, !.doubled = TRUE]
  /\ UNCHANGED <<domain, rows, nextId, worker, update>>

\* All hashes are corrected if one of them is wrong.
CorrectHashes(sensitive) ==
  /\ rows' = [i \in DOMAIN rows |-> [rows[i] EXCEPT !.hash = Hash(rows[i].url, sensitive)]]
  /\ history' = [history EXCEPT !.unfit = @ /\ ~(Agree(sensitive) /\ sensitive = caseSensitive)]

\* The hashes are checked at every start, under a lock, and again after the other
\* checks, which are optional.
urlHashCheck(c) ==
  /\ \/ crawler[c].state = "last"
     \/ crawler[c].state = "prepared" /\ \A o \in Crawlers : crawler[o].state \notin {"check", "last"}
  /\ CorrectHashes(crawler[c].sensitive)
  /\ \E next \in {"check", "run"} :
       /\ next = "check" => crawler[c].state = "prepared"
       /\ Goto(c, next)
  /\ UNCHANGED <<domain, caseSensitive, nextId, worker, update>>

\* Another crawler is checking the list: no check is made.
SkipCheck(c) ==
  /\ crawler[c].state = "prepared" /\ \E o \in Crawlers : crawler[o].state \in {"check", "last"}
  /\ Goto(c, "run")
  /\ UNCHANGED <<domain, caseSensitive, rows, nextId, worker, update, history>>

\* URLs that occur more than once, in lower case if the crawler ignores the case.
Duplicates(sensitive) ==
  {url \in {Hash(rows[i].url, sensitive) : i \in DOMAIN rows} :
     Cardinality({i \in DOMAIN rows : Hash(rows[i].url, sensitive) = url}) > 1}

\* Of every duplicate, the rows behind the first one, if their hashes are right.
Removed(sensitive) ==
  {i \in DOMAIN rows : \E url \in Duplicates(sensitive) :
     /\ i > getUrlId(rows, url, sensitive)
     /\ rows[i].hash = Hash(url, sensitive) /\ Hash(rows[i].url, sensitive) = Hash(url, sensitive)}

\* When there were duplicates, an exception follows their removal.
urlDuplicationCheck(c) ==
  LET sensitive == crawler[c].sensitive
  IN /\ crawler[c].state \in {"check", "run"}
     /\ Keep(DOMAIN rows \ Removed(sensitive))
     /\ Goto(c, IF Duplicates(sensitive) # {} THEN "none"
                ELSE IF crawler[c].state = "check" THEN "last" ELSE "run")
     /\ history' = [history EXCEPT !.doubled = @ /\ (history.unfit \/ sensitive # caseSensitive)]
     /\ UNCHANGED <<domain, caseSensitive, nextId, worker, update>>

\* Links of a page, start pages, robots.txt and sitemaps.
CrawlerAdds(c, url) ==
  /\ crawler[c].state = "run" /\ url \in UrlsOf(domain)
  /\ addUrlIfNotExists(url, crawler[c].sensitive)
  /\ UNCHANGED <<domain, caseSensitive, crawler, worker, update>>

StopCrawler(c) ==
  /\ crawler[c].state # "none" /\ Goto(c, "none")
  /\ UNCHANGED <<domain, caseSensitive, rows, nextId, worker, update, history>>

-----------------------------------------------------------------------------
(* Worker threads: import, merge, deleteurls.                               *)

\* The URLs of a file, or of another list of the website, have been read, and hashes
\* are calculated as the list has it at this time.
StartMerge(urls) ==
  /\ worker.state = "none" /\ Range(urls) \subseteq UrlsOf(domain)
  /\ worker' = [NoWorker EXCEPT !.state = "merge", !.urls = urls, !.sensitive = caseSensitive]
  /\ history' = IF Agree(caseSensitive) THEN history ELSE [history EXCEPT !.unfit = TRUE, !.doubled = TRUE]
  /\ UNCHANGED <<domain, caseSensitive, rows, nextId, crawler, update>>

\* A bound: a statement adds one URL.
mergeUrls ==
  /\ worker.state = "merge"
  /\ IF worker.urls = <<>>
     THEN worker' = NoWorker /\ UNCHANGED <<rows, nextId, history>>
     ELSE /\ worker' = [worker EXCEPT !.urls = Tail(@)]
          /\ addUrlIfNotExists(Head(worker.urls), worker.sensitive)
  /\ UNCHANGED <<domain, caseSensitive, crawler, update>>

\* The query, here one for a path, is applied to all URLs.
getUrlsWithIds(path) ==
  LET ids == {i \in DOMAIN rows : rows[i].url.path = path}
  IN /\ worker.state = "none" /\ ids # {}
     /\ worker' = [NoWorker EXCEPT !.state = "delete", !.ids = ids]
     /\ UNCHANGED <<domain, caseSensitive, rows, nextId, crawler, update, history>>

deleteUrls ==
  /\ worker.state = "delete"
  /\ Keep(DOMAIN rows \ worker.ids)
  /\ worker' = NoWorker
  /\ history' = [history EXCEPT !.late = @ \/ Updating]
  /\ UNCHANGED <<domain, caseSensitive, nextId, crawler, update>>

\* The connection is lost: what has been added stays.
FailWorker ==
  /\ worker.state # "none" /\ worker' = NoWorker
  /\ UNCHANGED <<domain, caseSensitive, rows, nextId, crawler, update, history>>

-----------------------------------------------------------------------------
(* Update of the website.                                                   *)

\* Both spellings of the domain.
OwnHost(url) == url.host \in {Domain, "www.x"}

\* Mutant: only the domain itself.
ChangedWithoutPrefix(to) ==
  IF to = NoDomain THEN DOMAIN rows ELSE {i \in DOMAIN rows : rows[i].url.host = to}

getChangedUrlsByWebsiteUpdate(to) ==
  IF to = NoDomain THEN DOMAIN rows ELSE {i \in DOMAIN rows : OwnHost(rows[i].url)}

getLostUrlsByWebsiteUpdate(to) ==
  IF to = NoDomain THEN {} ELSE {i \in DOMAIN rows : ~OwnHost(rows[i].url)}

\* The numbers are announced, and the update is confirmed.
StartUpdate ==
  LET to == IF domain = NoDomain THEN Domain ELSE NoDomain
  IN /\ update.state = "none" /\ Running = {}
     /\ update' = [NoUpdate EXCEPT !.state = "modify", !.to = to,
                     !.announced = <<Cardinality(getChangedUrlsByWebsiteUpdate(to)),
                                     Cardinality(getLostUrlsByWebsiteUpdate(to))>>]
     /\ UNCHANGED <<domain, caseSensitive, rows, nextId, crawler, worker, history>>

\* URLs lose or get their host; their hashes stay.
ModifyUrls ==
  LET to == update.to
      changed == IF to = NoDomain THEN DOMAIN rows ELSE {i \in DOMAIN rows : OwnHost(rows[i].url)}
      modified(url) == [url EXCEPT !.host = IF to = NoDomain THEN Domain ELSE NoDomain]
  IN /\ update.state = "modify"
     /\ rows' = [i \in DOMAIN rows |->
                   IF i \in changed THEN [rows[i] EXCEPT !.url = modified(@)] ELSE rows[i]]
     /\ update' = [update EXCEPT !.state = IF to = NoDomain THEN "record" ELSE "delete",
                                 !.changed = Cardinality(changed)]
     /\ history' = IF changed = {} THEN history ELSE [history EXCEPT !.unfit = TRUE, !.doubled = TRUE]
     /\ UNCHANGED <<domain, caseSensitive, nextId, crawler, worker>>

\* Everything that is not a sub-URL now.
DeleteUrls ==
  LET lost == {i \in DOMAIN rows : rows[i].url.host # NoDomain}
  IN /\ update.state = "delete"
     /\ Keep(DOMAIN rows \ lost)
     /\ update' = [update EXCEPT !.state = "record", !.lost = Cardinality(lost)]
     /\ UNCHANGED <<domain, caseSensitive, nextId, crawler, worker, history>>

RecordDomain ==
  /\ update.state = "record"
  /\ domain' = update.to
  /\ update' = [update EXCEPT !.state = "done"]
  /\ UNCHANGED <<caseSensitive, rows, nextId, crawler, worker, history>>

\* A bound: there is one update.
EndUpdate ==
  /\ update.state = "done" /\ update' = [NoUpdate EXCEPT !.state = "ended"]
  /\ history' = [history EXCEPT !.late = FALSE]
  /\ UNCHANGED <<domain, caseSensitive, rows, nextId, crawler, worker>>

\* A statement fails: what has been done before is not taken back.
FailUpdate ==
  /\ update.state \in {"modify", "delete", "record"} /\ update' = NoUpdate
  /\ history' = [history EXCEPT !.late = FALSE, !.broken = @ \/ update.state # "modify"]
  /\ UNCHANGED <<domain, caseSensitive, rows, nextId, crawler, worker>>

-----------------------------------------------------------------------------
Init ==
  /\ domain \in {Domain, NoDomain} /\ caseSensitive \in BOOLEAN
  /\ rows = [i \in {} |-> NoDomain] /\ nextId = 1
  /\ crawler = [c \in Crawlers |-> NoCrawler] /\ worker = NoWorker /\ update = NoUpdate
  /\ history = NoHistory

CrawlerStep(c) ==
  \/ \E sensitive \in BOOLEAN : setUrlCaseSensitive(c, sensitive)
  \/ urlHashCheck(c) \/ SkipCheck(c) \/ urlDuplicationCheck(c) \/ StopCrawler(c)
  \/ \E url \in UrlsOf(domain) : CrawlerAdds(c, url)

\* A bound: a file has one line.
WorkerStep ==
  \/ \E url \in UrlsOf(domain) : StartMerge(<<url>>)
  \/ \E path \in Paths : getUrlsWithIds(path)
  \/ mergeUrls \/ deleteUrls \/ FailWorker

UpdateStep == StartUpdate \/ ModifyUrls \/ DeleteUrls \/ RecordDomain \/ EndUpdate \/ FailUpdate

Next == (\E c \in Crawlers : CrawlerStep(c)) \/ WorkerStep \/ UpdateStep

Spec == Init /\ [][Next]_vars

-----------------------------------------------------------------------------
(* Properties.                                                              *)

\* IDs are never given twice, and the steps of an update have their direction.
TypeOK ==
  /\ \A i \in DOMAIN rows : i < nextId
  /\ update.state = "delete" => update.to = Domain
  /\ Cardinality({c \in Crawlers : crawler[c].state \in {"check", "last"}}) <= 1

\* Every hash is the one by which the URL is looked up, as long as all who use the
\* list agree on its case, and after a crawler has checked it.
HashesFit ==
  ~history.unfit => \A i \in DOMAIN rows : rows[i].hash = Hash(rows[i].url, caseSensitive)

\* No URL is in the list twice, whoever added it, once a check has found none.
UrlsAreUnique ==
  ~history.unfit /\ ~history.doubled => \A i, j \in DOMAIN rows : Double(i, j) => i = j

\* The URLs have the form that belongs to the website, unless an update failed or
\* overtook URLs that had been read before.
UrlsHaveTheirForm ==
  ~Updating /\ ~history.broken =>
    \A i \in DOMAIN rows : (rows[i].url.host = NoDomain) = (domain # NoDomain)

\* What the user confirmed is what happened, if no worker added or deleted URLs
\* meanwhile.
LossIsAnnounced ==
  update.state = "done" /\ ~history.late /\ ~history.broken =>
    update.announced = <<update.changed, update.lost>>

\* A row disappears because its URL matched a query, because it belongs to another
\* domain, or because the same URL stays in a row before it.
RowsVanishForAReason ==
  \A i \in DOMAIN rows \ DOMAIN rows' :
    \/ worker.state = "delete" /\ i \in worker.ids
    \/ update.state = "delete" /\ (history.late \/ rows[i].url.host \in Hosts \ {Domain, "www.x"})
    \/ \E j \in DOMAIN rows' : j < i /\ Same(rows[i].url, rows[j].url)
=============================================================================
