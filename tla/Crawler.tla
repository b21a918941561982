------------------------------- MODULE Crawler -------------------------------
(***************************************************************************)
(* One crawler thread (Module/Crawler/Thread.cpp) and the tables it works  *)
(* on (Crawler/Database.cpp), next to other crawlers of the same list: how *)
(* it goes through its custom pages and the start page first (manual mode) *)
(* and through the list by ID afterwards (automatic mode), how it locks,   *)
(* retries, skips and finishes URLs, gets their archives, jumps to another *)
(* ID, stops, and starts again.  Responses of web servers and archives are *)
(* chosen freely.  The statements of one database call are one step.       *)
(*                                                                         *)
(* Lock times are the seconds they are ahead of the database clock, -1     *)
(* once they have passed.  Every statement treats a lock that has passed   *)
(* and NULL alike, so -1 stands for both.                                  *)
(***************************************************************************)
EXTENDS Integers, Sequences

CONSTANTS
  MaxUrl,      \* bound on the URLs of the list, which are 1 .. count
  FirstCount,  \* URLs of the list when the crawler is started first
  StartPage,   \* ID of the start page
  CustomPages, \* IDs of the custom URLs, as they are configured
  Configs,     \* configurations: archives, archivesOnly, retryArchive, reTries,
               \* recrawl, customReCrawl, reCrawlStart, startIgnore, restart;
               \* and others, the URLs that other crawlers may lock, once each,
               \* large, the URLs whose content may be larger than the server
               \* takes, and upsets, a bound on the jumps and restarts
  Lease,       \* seconds for which a URL is locked (crawlerLock)
  MaxLock,     \* bound on the seconds a lock may be ahead
  MaxMementos  \* bound on the mementos of a page of a timemap

NoRow == -2    \* no row in the crawling table
Passed == -1   \* a lock time that is NULL or has passed
NoLock == -2   \* the lock time ""

Urls == 1 .. MaxUrl
Manual == {StartPage} \cup {CustomPages[i] : i \in DOMAIN CustomPages}

ASSUME CrawlerAssumption ==
  /\ {MaxUrl, Lease} \subseteq Nat \ {0} /\ MaxMementos \in Nat
  /\ FirstCount \in Urls /\ StartPage \in 1 .. FirstCount /\ MaxLock \in Nat
  /\ CustomPages \in Seq(1 .. FirstCount) /\ Lease <= MaxLock
  /\ Configs \subseteq
       [archives : BOOLEAN, archivesOnly : BOOLEAN, retryArchive : BOOLEAN, reTries : Int,
        recrawl : BOOLEAN, customReCrawl : BOOLEAN, reCrawlStart : BOOLEAN,
        startIgnore : BOOLEAN, restart : BOOLEAN, others : SUBSET Urls,
        large : SUBSET Urls, upsets : Nat]

VARIABLES
  config,   \* the configuration of the crawler
  db,       \* the tables: count, lock, success, saved, last (of the thread's row)
  c,        \* the memory of the crawler and its control state
  other,    \* other[u]: "none", or a crawler that "holds" or has "lost" u's lock
  past      \* history: skipped, foreign, left, base, upsets

vars == <<config, db, c, other, past>>

\* The local variables of a tick: the URL, whether its content has failed, and
\* the state of its archives.
NoTick == [url |-> 0, failed |-> FALSE, success |-> TRUE, fatal |-> FALSE,
           mementos |-> 0, more |-> FALSE]

\* A thread that has just been initialized (onInit()).
Fresh(last) ==
  [pc |-> "tick", running |-> TRUE, paused |-> FALSE, warped |-> FALSE,
   tick |-> NoTick, last |-> last, restore |-> 0, penultimate |-> last,
   manualUrl |-> 0, manualCounter |-> 0, startCrawled |-> FALSE, manualOff |-> FALSE,
   nextUrl |-> 0, retryCounter |-> 0, archiveRetry |-> FALSE, lockTime |-> NoLock]

Init ==
  /\ config \in Configs
  /\ db = [count |-> FirstCount, lock |-> [u \in Urls |-> NoRow],
           success |-> [u \in Urls |-> FALSE], saved |-> {}, last |-> 0]
  /\ c = Fresh(0)
  /\ other = [u \in Urls |-> "none"]
  /\ past = [skipped |-> {}, foreign |-> {}, left |-> {},
             base |-> 0, upsets |-> 0]

-----------------------------------------------------------------------------
(* What the functions called in a tick do to the memory of the crawler and  *)
(* to the tables, w = [c, db, past], so that one can be applied after the   *)
(* other.  A function that throws leaves the control state "thrown".        *)

World == [c |-> c, db |-> db, past |-> past]
Become(w) == c' = w.c /\ db' = w.db /\ past' = w.past
Then(w, pc) == IF w.c.pc = "thrown" THEN w ELSE [w EXCEPT !.c.pc = pc]

\* setLast(): the last ID in memory and in the row of the thread.
SetLast(w, id) == [w EXCEPT !.c.last = id, !.db.last = id]

\* The row of u is not locked by anyone else, as far as lock time t tells.
Mine(w, u) == w.db.lock[u] \in Passed .. w.c.lockTime

\* lockUrlIfOk(): add or renew the lock; no row is added when renewing.
Lockable(u) ==
  IF c.lockTime = NoLock THEN db.lock[u] < 0 ELSE Mine(World, u)
NewLock == IF c.lockTime + 1 > Lease THEN c.lockTime + 1 ELSE Lease
Locked(w, u) ==
  [w EXCEPT !.db.lock[u] = NewLock, !.c.lockTime = NewLock,
            !.past.left = @ \ {u}]
LoseLock(w) == [w EXCEPT !.c.lockTime = NoLock]

\* unLockUrlIfOk()
Unlock(w, u) ==
  IF w.c.lockTime = NoLock THEN Then(w, "thrown")
  ELSE IF Mine(w, u) THEN [w EXCEPT !.db.lock[u] = Passed] ELSE w

\* Manual mode goes on with the next page, automatic mode from this URL on.
Advance(w, u) ==
  IF w.c.manualUrl > 0
  THEN IF w.c.manualCounter < Len(CustomPages)
       THEN [w EXCEPT !.c.manualUrl = 0, !.c.manualCounter = @ + 1]
       ELSE [w EXCEPT !.c.manualUrl = 0, !.c.startCrawled = TRUE]
  ELSE IF w.c.manualOff
  THEN SetLast([w EXCEPT !.c.penultimate =
                           IF config.archives THEN w.c.last ELSE @], u)
  ELSE w

\* crawlingSkip()
CrawlingSkip(w, u, unlock) ==
  LET advanced == Advance([w EXCEPT !.c.retryCounter = 0,
                                    !.past.skipped = @ \cup {u}], u)
      unlocked == IF unlock THEN Unlock(advanced, u) ELSE advanced
  IN IF w.c.pc = "thrown" THEN w
     ELSE IF unlocked.c.pc = "thrown" THEN unlocked
     ELSE [unlocked EXCEPT !.c.lockTime = IF unlock THEN NoLock ELSE @,
                           !.c.nextUrl = 0, !.c.archiveRetry = FALSE]

\* Mutant: retries are never given up.
RetryWithoutLimit(w, u, archiveOnly) ==
  IF archiveOnly
  THEN [w EXCEPT !.c.archiveRetry = TRUE, !.c.nextUrl = u, !.c.retryCounter = (@ + 1) % 3]
  ELSE [w EXCEPT !.c.retryCounter = (@ + 1) % 3]

\* Mutant: the content is taken for crawled when it is retried.
RetryArchiveAlways(w, u, archiveOnly) ==
  [w EXCEPT !.c.archiveRetry = TRUE, !.c.nextUrl = u]

\* Mutant: the URL counts as the last one although it is retried.
RetrySetsLast(w, u, archiveOnly) ==
  SetLast([w EXCEPT !.c.archiveRetry = @ \/ archiveOnly,
                    !.c.nextUrl = IF archiveOnly THEN u ELSE @], u)

\* crawlingRetry(); without a limit (-1) the retries are not counted.
CrawlingRetry(w, u, archiveOnly) ==
  LET counted == IF config.reTries >= 0
                 THEN [w EXCEPT !.c.retryCounter = @ + 1] ELSE w
  IN IF counted.c.retryCounter > config.reTries /\ config.reTries >= 0
     THEN CrawlingSkip(counted, u, TRUE)
     ELSE IF archiveOnly
     THEN [counted EXCEPT !.c.archiveRetry = TRUE, !.c.nextUrl = u]
     ELSE counted

\* crawlingSuccess(), with setUrlFinishedIfOk()
CrawlingSuccess(w, u) ==
  LET finished == IF Mine(w, u)
                  THEN [w EXCEPT !.db.success[u] = TRUE, !.db.lock[u] = Passed]
                  ELSE w
  IN IF w.c.lockTime = NoLock THEN Then(w, "thrown")
     ELSE [Advance([finished EXCEPT !.c.lockTime = NoLock], u)
             EXCEPT !.c.retryCounter = 0, !.c.nextUrl = 0]

-----------------------------------------------------------------------------
(* A tick: the selection of a URL.                                          *)

At(pc) == c.pc = pc /\ UNCHANGED config
Goto(pc) == Become(Then(World, pc))
EndTick(w) == Then([w EXCEPT !.c.tick = NoTick], "ticked")
SameOther == UNCHANGED other

\* Lock u and go to one place, or find it locked, forget the lock time, and
\* go to another.  Whoever held the lock before has lost it.
TryLock(u, locked, notLocked) ==
  \/ /\ Lockable(u) /\ NewLock <= MaxLock
     /\ Become(Locked(locked, u))
     /\ other' = [other EXCEPT ![u] = IF @ = "holds" THEN "lost" ELSE @]
  \/ /\ ~Lockable(u)
     /\ Become(LoseLock(notLocked))
     /\ SameOther

Crawl(u) == [World EXCEPT !.c.tick.url = u, !.c.pc = "content"]

\* crawlingJump() of a crawler that has been sent to another ID.
Jumped ==
  LET u == IF c.manualUrl > 0 THEN c.manualUrl ELSE c.nextUrl
      unlocked == IF u > 0 /\ c.lockTime # NoLock THEN Unlock(World, u) ELSE World
  IN [unlocked EXCEPT !.c.manualUrl = 0, !.c.nextUrl = 0, !.c.warped = FALSE]

\* Once automatic mode has got its first URL, there is no way back to manual mode.
Tick ==
  /\ At("tick") /\ c.running /\ ~c.paused
  /\ Become(Then(IF c.warped THEN Jumped ELSE World,
                 IF c.last > 0 THEN "auto" ELSE "manual"))
  /\ SameOther

\* The thread is stopped before a URL is crawled; its lock stays.
Cancel ==
  /\ c.pc \in {"manual", "start", "auto", "wait", "content"} /\ ~c.running
  /\ Become(EndTick(World)) /\ UNCHANGED <<config, other>>

\* crawlingUrlSelectionManualRetry(); a page that is locked is tried anew.
ManualRetry ==
  /\ At("manual") /\ c.running /\ c.manualUrl > 0
  /\ TryLock(c.manualUrl, Crawl(c.manualUrl), [World EXCEPT !.c.manualUrl = 0])

\* crawlingUrlSelectionManualNext()
ManualNext ==
  /\ At("manual") /\ c.running /\ c.manualUrl = 0
  /\ Goto("custom") /\ SameOther

\* crawlingUrlSelectionManualNextCustom()
NextCustomCrawled ==
  /\ At("custom") /\ c.manualCounter < Len(CustomPages)
  /\ ~config.customReCrawl /\ db.success[CustomPages[c.manualCounter + 1]]
  /\ Become([World EXCEPT !.c.manualCounter = @ + 1]) /\ SameOther

NextCustom ==
  /\ At("custom") /\ c.manualCounter < Len(CustomPages)
  /\ LET u == CustomPages[c.manualCounter + 1] IN
     /\ config.customReCrawl \/ ~db.success[u]
     /\ TryLock(u, [Crawl(u) EXCEPT !.c.manualUrl = u],
                [World EXCEPT !.c.manualUrl = 0, !.c.manualCounter = @ + 1])

NoMoreCustom ==
  /\ At("custom") /\ c.manualCounter = Len(CustomPages)
  /\ Goto("start") /\ SameOther

\* crawlingUrlSelectionManualStartPage()
StartPageDone ==
  /\ At("start") /\ c.running
  /\ \/ config.startIgnore \/ c.startCrawled
     \/ ~config.reCrawlStart /\ db.success[StartPage]
  /\ Become([World EXCEPT !.c.pc = "auto",
                          !.c.startCrawled = @ \/ ~config.startIgnore])
  /\ SameOther

SelectStartPage ==
  /\ At("start") /\ c.running
  /\ ~config.startIgnore /\ ~c.startCrawled
  /\ config.reCrawlStart \/ ~db.success[StartPage]
  /\ TryLock(StartPage, [Crawl(StartPage) EXCEPT !.c.manualUrl = StartPage],
             [World EXCEPT !.c.startCrawled = TRUE, !.c.pc = "auto"])

\* crawlingUrlSelectionAutoStart()
AutoStart ==
  /\ At("auto") /\ c.running /\ ~c.manualOff
  /\ LET w == [World EXCEPT !.c.manualOff = TRUE, !.c.nextUrl = 0, !.c.restore = 0]
     IN Become(IF c.restore > 0 THEN SetLast(w, c.restore) ELSE w)
  /\ SameOther

\* crawlingUrlSelectionAutoRetry()
AutoRetry ==
  /\ At("auto") /\ c.running /\ c.manualOff /\ c.nextUrl > 0
  /\ TryLock(c.nextUrl, Crawl(c.nextUrl), Then(World, "next"))

NoRetry ==
  /\ At("auto") /\ c.running /\ c.manualOff /\ c.nextUrl = 0
  /\ Goto("next") /\ SameOther

\* Database::getNextUrl()
Crawlable(u) ==
  u > c.last /\ u \notin Manual /\ (config.recrawl \/ ~db.success[u]) /\ db.lock[u] < 0
NextUrls == {u \in 1 .. db.count : Crawlable(u)}
NextUrl(u) == u \in NextUrls /\ \A v \in NextUrls : u <= v

\* crawlingUrlSelectionAutoLoop(): another crawler may come between.
AutoSelect ==
  /\ At("next")
  /\ \/ NextUrls = {} /\ Become([World EXCEPT !.c.nextUrl = 0, !.c.pc = "wait"])
     \/ \E u \in Urls :
          NextUrl(u) /\ Become([World EXCEPT !.c.nextUrl = u, !.c.pc = "lock"])
  /\ SameOther

AutoLock ==
  /\ At("lock")
  /\ TryLock(c.nextUrl, Crawl(c.nextUrl), Then(World, "next"))

\* crawlingWait(): sleep, or start again with the custom pages.
Sleep ==
  /\ At("wait") /\ c.running /\ Become(EndTick(World)) /\ SameOther

RestartManual ==
  /\ At("wait") /\ c.running /\ config.restart
  /\ Become(SetLast([World EXCEPT
       !.c = [@ EXCEPT !.pc = "ticked", !.restore = c.last, !.manualUrl = 0,
                       !.manualCounter = 0, !.nextUrl = 0,
                       !.startCrawled = FALSE, !.manualOff = FALSE]], 0))
  /\ SameOther

-----------------------------------------------------------------------------
(* A tick: the content of the URL (crawlingContent()).                      *)

\* Only the archives are to be retried, or wanted.
ArchivesOnly == config.archives /\ (config.archivesOnly \/ c.archiveRetry)

SkipContent ==
  /\ At("content") /\ c.running /\ ArchivesOnly
  /\ Become([World EXCEPT !.c.tick.failed = FALSE, !.c.pc = "archives"]) /\ SameOther

\* Whatever goes wrong, the archives are got nevertheless.
Failed(w) == Then([w EXCEPT !.c.tick.failed = TRUE], "archives")

\* No content, or an error after which the URL is tried again.
ContentRetried ==
  /\ At("content") /\ c.running /\ ~ArchivesOnly
  /\ Become(Failed(CrawlingRetry(World, c.tick.url, FALSE))) /\ SameOther

\* An error, a response, a type or a content for which the URL is skipped.
ContentSkipped ==
  /\ At("content") /\ c.running /\ ~ArchivesOnly
  /\ Become(Failed(CrawlingSkip(World, c.tick.url, ~config.archives))) /\ SameOther

\* The content is not UTF-8: the URL is skipped and the checks go on.
ContentSkippedTwice ==
  /\ At("content") /\ c.running /\ ~ArchivesOnly
  /\ LET once == CrawlingSkip(World, c.tick.url, ~config.archives)
     IN Become(Failed(CrawlingSkip(once, c.tick.url, ~config.archives)))
  /\ SameOther

\* The URLs with content in the database after saveContent(): what is larger than
\* the server takes is not stored, which is no error and only logged.
Stored(u) ==
  {saved \in {db.saved, db.saved \cup {u}} : u \in saved \/ u \in config.large}

\* crawlingSaveContent(), whether or not it has stored anything; then the links
\* are extracted.
SaveContent(w, saved) ==
  Then([w EXCEPT !.db.saved = saved, !.c.tick.failed = FALSE], "links")

ContentSaved ==
  /\ At("content") /\ c.running /\ ~ArchivesOnly
  /\ \E saved \in Stored(c.tick.url) :
       \/ Become(SaveContent(World, saved))
       \/ Become(SaveContent(CrawlingSkip(World, c.tick.url, ~config.archives), saved))
  /\ SameOther

\* crawlingParseAndAddUrls(): new URLs are added until there are no more, or
\* until the thread is stopped; the URL counts as crawled in both cases.
AddUrl ==
  /\ At("links") /\ c.running /\ db.count < MaxUrl
  /\ Become([World EXCEPT !.db.count = @ + 1]) /\ SameOther

UrlsAdded ==
  /\ At("links") /\ Goto("archives")
  /\ SameOther

-----------------------------------------------------------------------------
(* A tick: the archives of the URL (crawlingArchives(), for one archive).   *)

NoArchives ==
  /\ At("archives") /\ ~config.archives
  /\ Goto("done") /\ SameOther

Archives ==
  /\ At("archives") /\ config.archives
  /\ Become([World EXCEPT !.c.tick.success = TRUE, !.c.tick.fatal = FALSE, !.c.pc = "page"])
  /\ SameOther

\* crawlingArchiveMementoPage() fails with an error that skips the archives
\* or has them retried, if that is configured.
PageFails(w, skip) ==
  LET failed == [w EXCEPT !.c.tick.success = FALSE]
  IN IF ~config.retryArchive THEN CrawlingSkip(failed, c.tick.url, c.tick.failed)
     ELSE IF skip THEN CrawlingSkip(failed, c.tick.url, TRUE)
     ELSE CrawlingRetry(failed, c.tick.url, TRUE)

\* A page of the timemap: it is not one, it cannot be had, or has mementos.
PageEnds ==
  /\ At("page") /\ c.running /\ c.tick.success
  /\ Goto("archived") /\ SameOther

PageError(skip) ==
  /\ At("page") /\ c.running /\ c.tick.success
  /\ Become(Then(PageFails(World, skip), "archived")) /\ SameOther

Page(mementos, more) ==
  /\ At("page") /\ c.running /\ c.tick.success
  /\ Become([World EXCEPT !.c.tick.mementos = mementos, !.c.tick.more = more, !.c.pc = "memento"])
  /\ SameOther

\* crawlingArchiveMemento(): a memento is saved, with the URLs found in it,
\* or is known, or cannot be had ...
Memento ==
  /\ At("memento") /\ c.running /\ c.tick.mementos > 0
  /\ \E count \in {db.count, db.count + 1} : count \in Urls /\
       Become([World EXCEPT !.c.tick.mementos = @ - 1, !.db.count = count])
  /\ SameOther

\* ... or is to be retried, while the other ones are tried none the less ...
MementoRetried ==
  /\ At("memento") /\ c.running /\ c.tick.mementos > 0 /\ config.retryArchive
  /\ Become([CrawlingRetry(World, c.tick.url, TRUE)
               EXCEPT !.c.tick.mementos = @ - 1, !.c.tick.fatal = TRUE])
  /\ SameOther

\* ... or the lock is to be renewed first; without it no memento is left to do.
RenewLock ==
  /\ At("memento") /\ c.running /\ c.tick.mementos > 0
  /\ TryLock(c.tick.url, World, [World EXCEPT !.c.tick.success = FALSE, !.c.tick.mementos = 0])

\* The mementos of a page are done: go on with the next page, or not.
MementosDone ==
  /\ At("memento") /\ c.running /\ c.tick.mementos = 0
  /\ \/ ~c.tick.more /\ Goto("archived")
     \/ c.tick.more /\ c.tick.success /\ Goto("page")
     \/ c.tick.more /\ ~c.tick.success /\ Become(Then(PageFails(World, TRUE), "archived"))
  /\ SameOther

ArchiveCancelled ==
  /\ c.pc \in {"page", "memento"} /\ ~c.running
  /\ Become([World EXCEPT !.c.tick.fatal = @ /\ c.pc = "memento", !.c.pc = "archived"])
  /\ UNCHANGED <<config, other>>

\* The end of crawlingArchives(), and of the URL if it returns false.
GiveUpArchives(w) ==
  Then([w EXCEPT !.c.archiveRetry = IF c.tick.failed THEN FALSE ELSE @], "end")

ArchivesFatal ==
  /\ At("archived") /\ c.tick.fatal
  /\ Become(GiveUpArchives(World)) /\ SameOther

ArchivesEnd ==
  /\ At("archived") /\ ~c.tick.fatal
  /\ LET w == [World EXCEPT !.c.archiveRetry =
                 IF c.tick.success \/ ~config.retryArchive THEN FALSE ELSE @]
     IN Become(IF c.running THEN Then(w, "done")
               ELSE GiveUpArchives(IF c.tick.url = c.last THEN SetLast(w, c.penultimate)
                                   ELSE w))
  /\ SameOther

\* crawlingArchivesDone()
UrlDone ==
  /\ At("done")
  /\ Become(Then(IF c.tick.failed THEN World ELSE CrawlingSuccess(World, c.tick.url), "end"))
  /\ SameOther

\* The end of crawlingUrl(): a thread that has been stopped unlocks the URL.
UrlEnd ==
  /\ At("end")
  /\ Become(EndTick(IF c.lockTime # NoLock /\ ~c.running
                 THEN LoseLock(Unlock(World, c.tick.url)) ELSE World))
  /\ SameOther

-----------------------------------------------------------------------------
(* The thread, the clock and the other crawlers.                            *)

\* Module::Thread::tick() catches what a tick throws, and pauses the thread.
Thrown ==
  /\ At("thrown")
  /\ Become([World EXCEPT !.c.pc = "ticked", !.c.tick = NoTick, !.c.paused = TRUE]) /\ SameOther

Unpause ==
  /\ c.paused
  /\ Become([World EXCEPT !.c.paused = FALSE]) /\ UNCHANGED <<config, other>>

Stop ==
  /\ c.running
  /\ Become([World EXCEPT !.c.running = FALSE]) /\ UNCHANGED <<config, other>>

\* The URLs that are locked by no other crawler.
Alive == {u \in Urls : db.lock[u] >= 0 /\ other[u] # "holds"}

\* The thread is started again from its row, after it has stopped or the
\* server has been killed; locks stay behind.
Start ==
  /\ past.upsets < config.upsets
  /\ Become([World EXCEPT !.c = Fresh(db.last), !.past.left = @ \cup Alive,
                          !.past.upsets = @ + 1])
  /\ UNCHANGED <<config, other>>

\* The end of Module::Thread::tick(): the thread may be sent to another ID.
Jump(id) ==
  /\ At("ticked") /\ past.upsets < config.upsets
  /\ Become([SetLast(World, id) EXCEPT
       !.c.pc = "tick", !.c.warped = id # c.last, !.past.upsets = @ + 1,
       !.past.base = IF id > @ THEN id ELSE @])
  /\ SameOther

NoJump ==
  /\ At("ticked") /\ Goto("tick") /\ SameOther

Second(t) == IF t >= 0 THEN t - 1 ELSE t
Clock ==
  /\ \E u \in Urls : db.lock[u] >= 0
  /\ db' = [db EXCEPT !.lock = [u \in Urls |-> Second(db.lock[u])]]
  /\ c' = [c EXCEPT !.lockTime = Second(c.lockTime)]
  /\ UNCHANGED <<config, other, past>>

\* Another crawler locks a URL, and unlocks or finishes it after a while; it
\* may come too late, if its lock has passed and this crawler has got one.
OtherLocks(u) ==
  /\ u \in 1 .. db.count /\ u \in config.others \ past.foreign
  /\ db.lock[u] < 0 /\ ~db.success[u]
  /\ other' = [other EXCEPT ![u] = "holds"]
  /\ db' = [db EXCEPT !.lock[u] = Lease]
  /\ past' = [past EXCEPT !.foreign = @ \cup {u}, !.left = @ \ {u}]
  /\ UNCHANGED <<config, c>>

OtherUnlocks(u, success) ==
  /\ other[u] # "none"
  /\ other' = [other EXCEPT ![u] = "none"]
  /\ LET mine == other[u] = "holds" \/ db.lock[u] < 0
     IN \E saved \in IF success THEN Stored(u) ELSE {db.saved} :
          db' = [db EXCEPT !.saved = saved,
                           !.success[u] = @ \/ (success /\ mine),
                           !.lock[u] = IF mine THEN Passed ELSE @]
  /\ UNCHANGED <<config, c, past>>

Select ==
  Tick \/ Cancel \/ ManualRetry \/ ManualNext \/ NextCustomCrawled \/ NextCustom
  \/ NoMoreCustom \/ StartPageDone \/ SelectStartPage \/ AutoStart \/ AutoRetry
  \/ NoRetry \/ AutoSelect \/ AutoLock \/ Sleep
Content ==
  SkipContent \/ ContentRetried \/ ContentSkipped \/ ContentSkippedTwice
  \/ ContentSaved \/ AddUrl \/ UrlsAdded
GetArchives ==
  \/ NoArchives \/ Archives \/ PageEnds \/ \E skip \in BOOLEAN : PageError(skip)
  \/ \E n \in 0 .. MaxMementos, more \in BOOLEAN : Page(n, more)
  \/ Memento \/ MementoRetried \/ RenewLock \/ MementosDone \/ ArchiveCancelled
  \/ ArchivesFatal \/ ArchivesEnd
Crawling == Select \/ Content \/ GetArchives \/ UrlDone \/ UrlEnd \/ Thrown \/ NoJump
Environment ==
  \/ Unpause \/ Stop \/ Start \/ Clock \/ RestartManual
  \/ \E id \in 1 .. db.count : Jump(id)
  \/ \E u \in Urls : OtherLocks(u) \/ \E success \in BOOLEAN : OtherUnlocks(u, success)

Next == Crawling \/ Environment
Spec == Init /\ [][Next]_vars

\* The crawler goes on while it runs, and time passes.
Fairness == WF_vars(Crawling /\ c.running) /\ WF_vars(Clock)
FairSpec == Spec /\ Fairness

-----------------------------------------------------------------------------

ControlStates ==
  {"tick", "manual", "custom", "start", "auto", "next", "lock", "wait", "content",
   "links", "archives", "page", "memento", "archived", "done", "end", "thrown",
   "ticked"}

Ids == 0 .. MaxUrl
PageNumbers == 0 .. Len(CustomPages)
MementoNumbers == 0 .. MaxMementos
LockTimes == NoRow .. MaxLock
Counts == FirstCount .. MaxUrl
TickTypes ==
  [url : Ids, failed : BOOLEAN, success : BOOLEAN, fatal : BOOLEAN,
   mementos : MementoNumbers, more : BOOLEAN]
Memories ==
  [pc : ControlStates, running : BOOLEAN, paused : BOOLEAN, warped : BOOLEAN,
   tick : TickTypes, last : Ids, restore : Ids, penultimate : Ids,
   manualUrl : Ids, manualCounter : PageNumbers, startCrawled : BOOLEAN,
   manualOff : BOOLEAN, nextUrl : Ids, retryCounter : Nat, archiveRetry : BOOLEAN,
   lockTime : LockTimes]
Tables ==
  [count : Counts, lock : [Urls -> LockTimes],
   success : [Urls -> BOOLEAN], saved : SUBSET Urls, last : Ids]
Pasts ==
  [skipped : SUBSET Urls, foreign : SUBSET Urls, left : SUBSET Urls,
   base : Ids, upsets : Nat]

\* The types of the tables and of the crawler; its last ID is the one in its row,
\* and no more retries are counted than its limit (crawlingRetry()).
TypeOK ==
  /\ config \in Configs /\ other \in [Urls -> {"none", "holds", "lost"}]
  /\ c \in Memories /\ db \in Tables /\ past \in Pasts
  /\ db.last = c.last
  /\ c.retryCounter = 0 \/ c.retryCounter <= config.reTries

\* A URL counts as crawled only once its content is in the database, as long as
\* archives are neither retried nor wanted alone (setUrlFinishedIfOk()); the
\* exception is content larger than the server takes, which saveContent() drops.
FinishedUrlsHaveContent ==
  ~(config.archives /\ (config.retryArchive \/ config.archivesOnly)) =>
    \A u \in Urls \ config.large : db.success[u] => u \in db.saved

\* A URL counts as crawled only once its content is in the database, unless
\* only the archives are wanted, or its content is larger than the server takes.
CrawledUrlsHaveContent ==
  ~config.archivesOnly => \A u \in Urls \ config.large : db.success[u] => u \in db.saved

\* No URL of the list is passed over: one up to the last ID has been crawled, or
\* skipped because of an error, or was another crawler's, or locked by a thread
\* that is gone, or the thread has been sent past it.
NothingIsOverlooked ==
  \A u \in 1 .. c.last \ Manual :
    db.success[u] \/ u \in past.skipped \cup past.foreign \cup past.left \/ u <= past.base

\* Without archives, the only URL a crawler keeps locked between two ticks is the
\* one it is going to retry (crawlingSkip(), crawlingRetry(), crawlingJump()).
LocksAreReleased ==
  c.pc = "tick" /\ c.running /\ ~config.archives =>
    \A u \in Alive \ past.left : u \in {c.manualUrl, c.nextUrl}

\* Every URL behind the crawler has been dealt with, and released.
UrlsAreLeftInOrder == NothingIsOverlooked /\ LocksAreReleased

\* With a limit to its retries a crawler gets through the list.
UrlsAreVisited ==
  \A u \in Urls \ Manual :
    u <= db.count /\ ~config.archives /\ config.reTries >= 0 ~>
      \/ db.success[u] \/ u \in past.skipped \cup past.foreign \cup past.left
      \/ u <= past.base \/ ~c.running \/ c.paused
=============================================================================
