----------------------------- MODULE Extractor -----------------------------
(***************************************************************************)
(* An extractor (Module/Extractor/Thread.cpp and Extractor/Database.cpp):  *)
(* it takes the parsed URLs of a list, requests pages that belong to them, *)
(* keeps the datasets and the linked data it finds in memory, and saves    *)
(* them with the last URL of its cache, when it is paused, sent to another *)
(* ID, or cleared.  What the pages contain and whether requests succeed is *)
(* up to the source.  Locks of URLs are those of UrlLock: here, another    *)
(* extractor may have taken one whenever this one asks.  Datasets are      *)
(* overwritten, and finished URLs are not extracted again.                 *)
(***************************************************************************)
EXTENDS Naturals, Sequences, FiniteSets, Functions

CONSTANTS
  Configurations, \* see Configuration
  MaxUrl,         \* the URLs of the list are 1 .. MaxUrl
  CacheSize,      \* largest number of URLs fetched at once
  DataIds,        \* IDs of datasets
  Tokens,         \* tokens to be requested for a URL or for its pages
  NumFields,      \* number of custom fields
  MaxPages        \* bound on the pages requested for one URL

ASSUME BoundsAssumption ==
  /\ MaxUrl \in Nat \ {0} /\ CacheSize \in Nat \ {0}
  /\ NumFields \in Nat \ {0} /\ MaxPages \in Nat \ {0}
  /\ IsFiniteSet(DataIds)

Urls == 1 .. MaxUrl

\* The options the control depends on; retries is at most MaxPages or Unlimited.
Unlimited == MaxPages + 1
Configuration ==
  [listed : Urls,               \* length of the list
   removeDuplicates : BOOLEAN,  \* extractingRemoveDuplicates
   numberFrom : BOOLEAN,        \* queryPagingNumberFrom is valid
   isNextFrom : BOOLEAN,        \* queryPagingIsNextFrom is valid
   nextFrom : {"none", "single", "multi"}, \* queryPagingNextFrom
   expectedFrom : BOOLEAN,      \* queryExpected is valid
   errorIfSmaller : BOOLEAN, errorIfLarger : BOOLEAN,
   retries : 0 .. Unlimited,    \* generalReTries
   linkedField : 0 .. NumFields - 1, \* position of the field that holds the link
   pagingVariable : BOOLEAN,    \* there is one
   pagedTokens : SUBSET Tokens, \* their source or cookies contain the paging variable
   pagedHeaders : BOOLEAN,      \* the headers for all tokens contain it
   dbFails : BOOLEAN]           \* the statements that save data may fail

ASSUME ConfigurationsAssumption == Configurations \subseteq Configuration

VARIABLES
  cfg,         \* the configuration
  success, target, linkedTarget, \* extracting table; rows of the two target tables
  last,        \* the last ID of the thread, saved with its row
  running, pc, after, \* isRunning(), control state, caller of extractingSaveResults()
  urls,        \* the URLs in the cache
  results, linked, \* datasets and linked data that have not been saved
  ids,         \* IDs that have been extracted, for removing duplicates
  finished,    \* URLs to be marked as finished
  lastUrl, warped, \* last processed URL; the thread has been sent to another ID
  linkedIndex, \* Database::linkedIndex
  local,       \* local variables of extractingNext()
  seen,        \* history: datasets seen in the pages of a URL in its last attempt
  links,       \* history: those of them whose linked data has been seen, too
  partial,     \* history: URLs whose last attempt has begun with IDs an exception had left,
               \* or when they had been marked as finished already
  left,        \* history: URLs an exception has left in the cache
  lost         \* history: datasets of a last attempt, or their linked data, lost to a
               \* failed statement

database == <<success, target, linkedTarget>>
memory == <<results, linked, ids, finished, lastUrl, warped, linkedIndex>>
history == <<seen, links, partial, left, lost>>
vars == <<cfg, database, last, running, pc, after, urls, memory, local, history>>

Datasets == [url : Urls, id : DataIds]

\* pages: names in the queue; visited: pages requested so far; tries: of the current
\* request; tokens: those still to be requested now; values: those with a value.
Locals ==
  [pages : Nat, visited : 0 .. MaxPages, first : BOOLEAN, total : Nat, counter : Nat,
   expecting : BOOLEAN, expected : Nat, extracted : Nat, tries : 0 .. MaxPages,
   tokens : SUBSET Tokens, values : SUBSET Tokens]
NoLocals ==
  [pages |-> 0, visited |-> 0, first |-> TRUE, total |-> 0, counter |-> 0,
   expecting |-> FALSE, expected |-> 0, extracted |-> 0, tries |-> 0,
   tokens |-> {}, values |-> {}]

ControlStates ==
  {"loop", "tick", "fetch", "check", "content", "tokens", "pages", "pageTokens",
   "request", "page", "first", "extract", "linked", "next", "compare", "done",
   "pop", "ticked", "saveLinked", "save", "setLast", "finishing", "unlockAll", "exited"}
Returns == {"ticked", "pause", "warp", "reset", "clear"}

\* A thread that has just been initialized, apart from its position in the list.
Initialized ==
  /\ pc' = "loop" /\ after' = "ticked" /\ running' = TRUE /\ urls' = <<>>
  /\ results' = {} /\ linked' = {} /\ ids' = {} /\ finished' = {}
  /\ lastUrl' = 0 /\ warped' = FALSE /\ linkedIndex' = cfg.linkedField
  /\ local' = NoLocals

Init ==
  /\ cfg \in Configurations
  /\ success = {} /\ target = {} /\ linkedTarget = {} /\ last = 0
  /\ running = TRUE /\ pc = "loop" /\ after = "ticked" /\ urls = <<>>
  /\ results = {} /\ linked = {} /\ ids = {} /\ finished = {}
  /\ lastUrl = 0 /\ warped = FALSE /\ linkedIndex = cfg.linkedField
  /\ local = NoLocals
  /\ seen = {} /\ links = {} /\ partial = {} /\ left = {} /\ lost = {}

Goto(from, to) == pc = from /\ pc' = to
Url == Head(urls)

-----------------------------------------------------------------------------
(* main() and onTick()                                                      *)

Begin(from, to, return) ==
  /\ Goto(from, to) /\ after' = return
  /\ UNCHANGED <<cfg, database, last, running, urls, local, history>>

Loop == running /\ Begin("loop", "tick", "ticked") /\ UNCHANGED memory
\* onPause(), onReset() and onClear(): extractingSaveResults() first
Pause == Begin("tick", "saveLinked", "pause") /\ UNCHANGED memory
Reset == running /\ Begin("loop", "saveLinked", "reset") /\ UNCHANGED memory
Clear == ~running /\ Begin("loop", "saveLinked", "clear") /\ UNCHANGED memory

TickWarped ==
  /\ warped /\ warped' = FALSE
  /\ Begin("tick", "saveLinked", "warp")
  /\ UNCHANGED <<results, linked, ids, finished, lastUrl, linkedIndex>>

Tick ==
  /\ ~warped
  /\ Begin("tick", IF urls = <<>> THEN "fetch" ELSE "check", "ticked")
  /\ UNCHANGED memory

\* fetchUrls(): the next URLs that are not finished, by ID, now locked; idle without any.
Fetchable == {u \in 1 .. cfg.listed : u > last /\ u \notin success}
AreNext(next) ==
  /\ \A j, k \in DOMAIN next : j < k => next[j] < next[k]
  /\ \A u \in Fetchable \ Range(next) :
       Len(next) = CacheSize /\ \A k \in DOMAIN next : next[k] < u

FetchUrls ==
  /\ urls' \in UNION {[1 .. n -> Fetchable] : n \in 0 .. CacheSize} /\ AreNext(urls')
  /\ Goto("fetch", IF urls' = <<>> THEN "ticked" ELSE "check")
  /\ left' = {}
  /\ UNCHANGED <<cfg, database, last, running, after, memory, local, seen, links, partial, lost>>

\* renewUrlLockIfOk(): another extractor has the lock, and the URL is skipped ...
UrlFinished == IF Len(urls) = 1 THEN "saveLinked" ELSE "pop"
Locked ==
  /\ Goto("check", UrlFinished) /\ after' = "ticked"
  /\ UNCHANGED <<cfg, database, last, running, urls, memory, local, history>>

\* ... or extractingNext() begins.
Renew ==
  /\ Goto("check", "content") /\ local' = NoLocals
  /\ LET others(S) == {x \in S : x.url # Url}
     IN seen' = others(seen) /\ links' = others(links) /\ lost' = others(lost)
  /\ partial' = IF ids = {} /\ Url \notin success THEN partial \ {Url} ELSE partial \cup {Url}
  /\ UNCHANGED <<cfg, database, last, running, after, urls, memory, left>>

Thread == <<cfg, database, last, running, after, urls>>
Continue(from, to) == Goto(from, to) /\ UNCHANGED <<Thread, memory, history>>

\* extractingNext() returns the number n of datasets.
Return(from, n) ==
  /\ Continue(from, "done")
  /\ local' = [NoLocals EXCEPT !.extracted = n]

\* An exception leaves onTick(): the URL stays in the cache, the IDs do, too.
Throw(from) ==
  /\ Goto(from, "ticked") /\ local' = NoLocals
  /\ left' = left \cup Range(urls)
  /\ UNCHANGED <<Thread, memory, seen, links, partial, lost>>

-----------------------------------------------------------------------------
(* extractingNext(): variables and tokens                                   *)

\* There is no content, or a variable tells to skip the URL.
SkipUrl == Return("content", 0)

\* Tokens are requested for the URL when nothing in their requests depends on the page.
GlobalTokens ==
  IF ~cfg.pagingVariable THEN Tokens
  ELSE IF cfg.pagedHeaders THEN {} ELSE Tokens \ cfg.pagedTokens

\* The headers are searched for the paging variable after it has been replaced.
PageTokens == IF cfg.pagingVariable THEN cfg.pagedTokens ELSE {}

Variables ==
  /\ Continue("content", "tokens")
  /\ local' = [local EXCEPT !.tokens = GlobalTokens]

\* A request for a token or a page: a libcurl error resets the connection, and the
\* request is made again while the thread runs and has tries left; too many
\* redirects and invalid UTF-8 end it.  Without a limit, tries are counted modulo 2.
TriesLeft == cfg.retries = Unlimited \/ local.tries < cfg.retries

TryAgain(from) ==
  /\ running /\ TriesLeft
  /\ Continue(from, from)
  /\ local' = [local EXCEPT !.tries = IF cfg.retries = Unlimited THEN (@ + 1) % 2 ELSE @ + 1]

\* extractingGetTokenValue(): the value may remain empty.
HaveToken(from) ==
  \E t \in local.tokens :
    /\ Continue(from, from)
    /\ local' = [local EXCEPT !.tokens = @ \ {t}, !.values = @ \cup {t}, !.tries = 0]

GlobalToken == HaveToken("tokens")
RetryGlobalToken == local.tokens # {} /\ TryAgain("tokens")

\* The first page, by number or name.
FirstPage ==
  /\ local.tokens = {}
  /\ Continue("tokens", "pages")
  /\ local' = [local EXCEPT !.pages = 1]

-----------------------------------------------------------------------------
(* extractingNext(): pages                                                  *)

\* Bound: no more than MaxPages pages of a URL are looked at.
NextPage ==
  /\ running /\ local.pages > 0 /\ local.visited < MaxPages
  /\ Continue("pages", "pageTokens")
  /\ local' = [local EXCEPT !.tokens = PageTokens]

PageToken == HaveToken("pageTokens")
RetryPageToken == local.tokens # {} /\ TryAgain("pageTokens")

Request ==
  /\ local.tokens = {}
  /\ Continue("pageTokens", "request")
  /\ UNCHANGED local

\* Mutant: the request is made again although the thread has been stopped.
RetryPageAnyway ==
  /\ TriesLeft
  /\ Continue("request", "request")
  /\ local' = [local EXCEPT !.tries = IF cfg.retries = Unlimited THEN (@ + 1) % 2 ELSE @ + 1]

\* extractingPageContent()
RetryPage == TryAgain("request")

\* The page has no URL or no content: continue with the next one.
NoPage ==
  /\ Continue("request", "pages")
  /\ local' = [local EXCEPT !.pages = @ - 1, !.visited = @ + 1, !.tries = 0,
                            !.values = @ \ PageTokens]

HasPage ==
  /\ running
  /\ Continue("request", "page")
  /\ local' = [local EXCEPT !.tries = 0]

\* A query on the page tells to skip the URL: its other pages are not looked at.
PageIsSkip == Continue("page", "compare") /\ UNCHANGED local

\* A query on the page finds an error: the page is requested again.
PageIsRetry == Continue("page", "pages") /\ local' = [local EXCEPT !.values = @ \ PageTokens]

AcceptPage ==
  /\ Continue("page", IF local.first THEN "first" ELSE "extract")
  /\ local' = [local EXCEPT !.pages = @ - 1, !.visited = @ + 1]

\* The first page may tell the number of pages and of datasets.
PageNumbers ==
  /\ \E total \in IF cfg.numberFrom THEN 1 .. MaxPages ELSE {0} :
     \E expecting \in IF cfg.expectedFrom THEN BOOLEAN ELSE {FALSE} :
     \E expected \in IF expecting THEN 0 .. Cardinality(DataIds) ELSE {0} :
       local' = [local EXCEPT !.first = FALSE, !.total = total,
                              !.expecting = expecting, !.expected = expected]
  /\ Continue("first", "extract")

NoPages == cfg.numberFrom /\ Return("first", 0)

\* extractingPage(): a query finds an error ...
PageFails == Throw("extract")

NewIds(found) == IF cfg.removeDuplicates THEN found \ ids ELSE found

\* ... or the datasets go to the results, duplicates excepted.
ExtractPage(found) ==
  /\ Goto("extract", "linked")
  /\ results' = results \cup {[url |-> Url, id |-> d] : d \in NewIds(found)}
  /\ ids' = IF cfg.removeDuplicates THEN ids \cup found ELSE ids
  /\ local' = [local EXCEPT !.extracted = @ + Cardinality(NewIds(found))]
  /\ seen' = seen \cup {[url |-> Url, id |-> d] : d \in found}
  /\ UNCHANGED <<Thread, linked, finished, lastUrl, warped, linkedIndex, links, partial, left,
                 lost>>

\* extractingLinked(): linked data has the ID that a field of a dataset contains.
ExtractLinked(found) ==
  /\ Goto("linked", "next")
  /\ linked' = linked \cup found
  /\ links' = links \cup {x \in seen : x.url = Url /\ x.id \in found}
  /\ UNCHANGED <<Thread, results, ids, finished, lastUrl, warped, linkedIndex, local,
                 seen, partial, left, lost>>

\* The pages to be added: by a query only.  The next number, by the step, does not
\* get into the queue.
More ==
  CASE cfg.nextFrom = "none" -> {0}
    [] cfg.nextFrom = "single" -> {0, 1}
    [] cfg.nextFrom = "multi" -> 0 .. 2

\* The last page is known by the number of pages, or a query.
LastPage ==
  LET counter == IF local.total > 0 THEN local.counter + 1 ELSE local.counter IN
    /\ \/ local.total > 0 /\ counter >= local.total
       \/ local.total = 0 /\ cfg.isNextFrom
    /\ Continue("next", "compare")
    /\ local' = [local EXCEPT !.counter = counter]

AddPages ==
  LET counter == IF local.total > 0 THEN local.counter + 1 ELSE local.counter IN
    /\ local.total = 0 \/ counter < local.total
    /\ \E n \in More :
         local' = [local EXCEPT !.counter = counter, !.pages = @ + n, !.values = @ \ PageTokens]
    /\ Continue("next", "pages")

\* The loop is over: there is no page left, or the thread has been stopped.
PagesEnd ==
  /\ ~running \/ local.pages = 0 \/ local.visited = MaxPages
  /\ Continue("pages", "compare") /\ UNCHANGED local

\* The number of datasets that was expected
Unexpected ==
  /\ local.expecting
  /\ \/ cfg.errorIfSmaller /\ local.extracted < local.expected
     \/ cfg.errorIfLarger /\ local.extracted > local.expected

CompareFails == Unexpected /\ Throw("compare")
Compare == ~Unexpected /\ Return("compare", local.extracted)

\* Back in onTick(): the URL is to be marked as finished, or unlocked.
UrlDone ==
  /\ Goto("done", UrlFinished)
  /\ finished' = IF local.extracted > 0 THEN finished \cup {Url} ELSE finished
  /\ ids' = IF cfg.removeDuplicates THEN {} ELSE ids
  /\ local' = NoLocals
  /\ UNCHANGED <<Thread, results, linked, lastUrl, warped, linkedIndex, history>>

\* extractingUrlFinished(), after the results have been saved with the last URL
Pop ==
  /\ Goto("pop", "ticked")
  /\ lastUrl' = Url /\ urls' = Tail(urls)
  /\ UNCHANGED <<cfg, database, last, running, after, results, linked, ids, finished,
                 warped, linkedIndex, local, history>>

TickEnd == Begin("ticked", "loop", "ticked") /\ UNCHANGED memory

Warp(id) ==
  /\ Goto("ticked", "loop") /\ last' = id /\ warped' = (id # last)
  /\ UNCHANGED <<cfg, database, running, after, urls, results, linked, ids, finished,
                 lastUrl, linkedIndex, local, history>>

-----------------------------------------------------------------------------
(* extractingSaveResults()                                                  *)

SaveReturns(from) ==
  Goto(from, CASE after = "pause" -> "loop" [] after = "ticked" -> "pop" [] OTHER -> "unlockAll")

\* extractingSaveLinked(), updateOrAddLinked()
SaveLinked ==
  /\ Goto("saveLinked", "save")
  /\ linkedTarget' = linkedTarget \cup linked /\ linked' = {}
  /\ UNCHANGED <<cfg, success, target, last, running, after, urls, results, ids, finished,
                 lastUrl, warped, linkedIndex, local, history>>

\* Mutant: the last ID is saved without the results.
SaveNothingAnyway ==
  /\ SaveReturns("save")
  /\ last' = IF after # "warp" /\ lastUrl > 0 THEN lastUrl ELSE last
  /\ UNCHANGED <<cfg, database, running, after, urls, memory, local, history>>

SaveNothing ==
  /\ results = {} /\ SaveReturns("save")
  /\ last' = IF after # "warp" /\ lastUrl > 0 THEN lastUrl ELSE last
  /\ UNCHANGED <<cfg, database, running, after, urls, memory, local, history>>

\* The field that holds the ID of the linked data is taken by its index.
Link(d) == linkedIndex = cfg.linkedField /\ d.id \in linkedTarget

\* Mutant: an existing dataset is looked for by its ID only.
SaveById ==
  /\ results # {} /\ linkedIndex < NumFields
  /\ Goto("save", "setLast")
  /\ target' = {r \in target : \A d \in results : d.id # r.id}
               \cup {[url |-> d.url, id |-> d.id, link |-> Link(d)] : d \in results}
  /\ results' = {}
  /\ UNCHANGED <<cfg, success, linkedTarget, last, running, after, urls, linked, ids, finished,
                 lastUrl, warped, linkedIndex, local, history>>

\* updateOrAddEntries(), updateTargetTable()
Save ==
  /\ results # {} /\ linkedIndex < NumFields
  /\ Goto("save", "setLast")
  /\ target' = {r \in target : [url |-> r.url, id |-> r.id] \notin results}
               \cup {[url |-> d.url, id |-> d.id, link |-> Link(d)] : d \in results}
  /\ results' = {}
  /\ UNCHANGED <<cfg, success, linkedTarget, last, running, after, urls, linked, ids, finished,
                 lastUrl, warped, linkedIndex, local, history>>

\* An exception ends onTick(), onPause() or the thread.
AfterThrow ==
  CASE after \in {"ticked", "warp"} -> {"ticked"}
    [] after = "pause" -> {"loop", "exited"}
    [] after \in {"reset", "clear"} -> {"exited"}
Thrown(from) == pc = from /\ pc' \in AfterThrow /\ after' = "ticked"

\* fields.at() throws before anything is saved.
NoField ==
  /\ results # {} /\ linkedIndex >= NumFields
  /\ Thrown("save")
  /\ UNCHANGED <<cfg, database, last, running, urls, memory, local, history>>

\* An entry has left its queue before the statement fails.
SaveLinkedFails ==
  /\ cfg.dbFails
  /\ \E l \in linked :
       /\ linked' = linked \ {l} /\ lost' = lost \cup {x \in Datasets : x.id = l}
  /\ Thrown("saveLinked")
  /\ UNCHANGED <<cfg, database, last, running, urls, results, ids, finished, lastUrl, warped,
                 linkedIndex, local, seen, links, partial, left>>

SaveFails ==
  /\ cfg.dbFails
  /\ \E d \in results : results' = results \ {d} /\ lost' = lost \cup {d}
  /\ Thrown("save")
  /\ UNCHANGED <<cfg, database, last, running, urls, linked, ids, finished, lastUrl, warped,
                 linkedIndex, local, seen, links, partial, left>>

SetLast ==
  /\ Goto("setLast", "finishing")
  /\ last' = IF after # "warp" THEN lastUrl ELSE last
  /\ UNCHANGED <<cfg, database, running, after, urls, memory, local, history>>

\* setUrlsFinishedIfLockOk(): another extractor may have the lock.
FinishUrl(u) ==
  /\ u \in finished /\ Goto("finishing", "finishing")
  /\ finished' = finished \ {u}
  /\ \E ok \in BOOLEAN : success' = IF ok THEN success \cup {u} ELSE success
  /\ UNCHANGED <<cfg, target, linkedTarget, last, running, after, urls, results, linked, ids,
                 lastUrl, warped, linkedIndex, local, history>>

FinishEnd ==
  /\ finished = {} /\ SaveReturns("finishing")
  /\ UNCHANGED <<cfg, database, last, running, after, urls, memory, local, history>>

\* After a reset, initTargetTables() adds to the index it has left; bound: NumFields
\* stands for all positions behind the last field.
NextLinkedIndex ==
  LET next == linkedIndex + cfg.linkedField IN IF next < NumFields THEN next ELSE NumFields

\* unLockUrlsIfOk() empties the cache; onReset() goes on with onInit().
UnlockAll ==
  /\ Goto("unlockAll", CASE after = "warp" -> "fetch" [] after = "reset" -> "tick"
                         [] after = "clear" -> "exited")
  /\ urls' = <<>>
  /\ lastUrl' = IF after = "warp" THEN last ELSE lastUrl
  /\ linkedIndex' = IF after = "reset" THEN NextLinkedIndex ELSE linkedIndex
  /\ after' = "ticked"
  /\ UNCHANGED <<cfg, database, last, running, results, linked, ids, finished, warped,
                 local, history>>

-----------------------------------------------------------------------------
(* The environment.                                                         *)

Stop ==
  /\ running /\ running' = FALSE
  /\ UNCHANGED <<cfg, database, last, pc, after, urls, memory, local, history>>

\* A new thread starts with the first URL.
NewThread ==
  /\ pc = "exited" /\ Initialized /\ last' = 0
  /\ UNCHANGED <<cfg, database, history>>

\* The server is gone, and continues the thread with its last ID.
Crash == Initialized /\ UNCHANGED <<cfg, database, last, history>>

Main == Loop \/ Pause \/ Reset \/ Clear \/ TickWarped \/ Tick \/ FetchUrls \/ TickEnd
Extracting ==
  \/ Locked \/ Renew \/ SkipUrl \/ Variables \/ GlobalToken \/ RetryGlobalToken
  \/ FirstPage \/ NextPage \/ PageToken \/ RetryPageToken \/ Request \/ RetryPage
  \/ NoPage \/ HasPage \/ PageIsSkip \/ PageIsRetry \/ AcceptPage \/ PageNumbers
  \/ NoPages \/ PageFails \/ LastPage \/ AddPages \/ PagesEnd \/ CompareFails
  \/ Compare \/ UrlDone \/ Pop
  \/ \E found \in SUBSET DataIds : ExtractPage(found) \/ ExtractLinked(found)
Saving ==
  \/ SaveLinked \/ SaveNothing \/ Save \/ NoField \/ SaveLinkedFails \/ SaveFails
  \/ SetLast \/ FinishEnd \/ UnlockAll
  \/ \E u \in Urls : FinishUrl(u)

Next ==
  \/ Main \/ Extracting \/ Saving \/ (\E id \in 1 .. cfg.listed : Warp(id)) \/ Stop \/ NewThread \/ Crash

Spec == Init /\ [][Next]_vars

\* The operating system runs the thread; what it finds is up to the source.
Fairness == WF_vars(Main \/ Extracting \/ Saving)
FairSpec == Spec /\ Fairness

-----------------------------------------------------------------------------

TypeOK ==
  /\ cfg \in Configurations /\ success \subseteq Urls
  /\ \A r \in target : [url |-> r.url, id |-> r.id] \in Datasets
  /\ linkedTarget \cup linked \cup ids \subseteq DataIds
  /\ last \in 0 .. MaxUrl /\ lastUrl \in 0 .. MaxUrl /\ urls \in Seq(Urls)
  /\ running \in BOOLEAN /\ warped \in BOOLEAN /\ pc \in ControlStates /\ after \in Returns
  /\ results \cup seen \cup links \cup lost \subseteq Datasets
  /\ finished \cup partial \cup left \subseteq Urls
  /\ local \in Locals /\ linkedIndex \in 0 .. NumFields

\* A URL that is marked as finished has in the target table all datasets that have been
\* seen on the pages of its last attempt (extractingNext(), extractingSaveResults()),
\* unless that attempt began with IDs an exception had left, or when the URL was marked
\* as finished already, or a statement failed after a dataset had left its queue.
FinishedIsComplete ==
  \A x \in seen :
    x.url \in success \ partial /\ x \notin lost
      => \E r \in target : r.url = x.url /\ r.id = x.id

\* With the same reservations, a dataset whose linked data was on its pages, too, is
\* linked to it: linked data is saved first (updateOrAddLinked(), updateOrAddEntries()).
\* A field behind the first one is found until the first reset only.
LinksAreSet ==
  \A r \in target, x \in links :
    r.url = x.url /\ r.id = x.id /\ x.url \in success \ partial
    /\ x \notin lost /\ cfg.linkedField = 0 => r.link

\* What has been extracted of a finished URL is in the tables, and linked.
ResultsAreComplete == FinishedIsComplete /\ LinksAreSet

\* If saving does not fail, a crash loses no dataset for good: as long as datasets
\* of a URL are in memory only, the last ID in the row of the thread is smaller, and
\* the URL will be extracted again (extractingSaveResults()), unless an exception had
\* left it in the cache.  Behind the last field, nothing can be saved any more.
UnsavedResultsAreAhead ==
  \/ cfg.dbFails \/ linkedIndex = NumFields \/ warped \/ after = "warp"
  \/ \A d \in results : last < d.url \/ d.url \in left

\* A stopped extractor ends unless the server crashes, whatever the source answers
\* (the conditions of the loops of extractingNext(), extractingPageContent() and extractingGetTokenValue()).
StoppedExtractorExits == ~running ~> (running \/ pc = "exited")

=============================================================================
