---------------------------- MODULE CrawlerProofs ----------------------------
(***************************************************************************)
(* Theorems about Crawler, for all lists, configurations, leases and       *)
(* numbers of other crawlers, retries, jumps and restarts.                 *)
(*                                                                         *)
(* The first part says what each function called in a tick does to the     *)
(* memory of the crawler and to the tables.  The invariant follows, and    *)
(* then one lemma per step that does not just move on.                     *)
(***************************************************************************)
EXTENDS Crawler, SequenceTheorems, TLAPS

Worlds == [c : Memories, db : Tables, past : Pasts]

-----------------------------------------------------------------------------
(* What the functions do.                                                   *)

\* What no function called in a tick changes.
SameThread(w, r) ==
  /\ r.c.running = w.c.running /\ r.c.paused = w.c.paused /\ r.c.warped = w.c.warped
  /\ r.c.restore = w.c.restore /\ r.c.manualOff = w.c.manualOff
  /\ r.db.count = w.db.count /\ r.db.saved = w.db.saved
  /\ r.past.foreign = w.past.foreign /\ r.past.left = w.past.left
  /\ r.past.base = w.past.base /\ r.past.upsets = w.past.upsets

\* The place of the crawler: its page in manual mode, its last URL in automatic mode.
SamePlace(w, r) ==
  /\ r.c.manualUrl = w.c.manualUrl /\ r.c.manualCounter = w.c.manualCounter
  /\ r.c.startCrawled = w.c.startCrawled
  /\ r.c.last = w.c.last /\ r.c.penultimate = w.c.penultimate

NextPage(w, r) ==
  /\ w.c.manualUrl > 0 /\ r.c.manualUrl = 0
  /\ r.c.last = w.c.last /\ r.c.penultimate = w.c.penultimate
NextLast(w, r, u) ==
  /\ w.c.manualUrl = 0 /\ w.c.manualOff
  /\ r.c.manualUrl = w.c.manualUrl /\ r.c.manualCounter = w.c.manualCounter
  /\ r.c.startCrawled = w.c.startCrawled
  /\ r.c.last = u
  /\ r.c.penultimate = IF config.archives THEN w.c.last ELSE w.c.penultimate
Advances(w, r, u) ==
  \/ NextPage(w, r) \/ NextLast(w, r, u)
  \/ w.c.manualUrl = 0 /\ ~w.c.manualOff /\ SamePlace(w, r)

Unlocks(w, r, u) ==
  r.db.lock = IF Mine(w, u) THEN [w.db.lock EXCEPT ![u] = Passed] ELSE w.db.lock

\* The page, or URL, is over.
Skips(w, r, u, unlock) ==
  /\ SameThread(w, r) /\ Advances(w, r, u) /\ r.c.tick = w.c.tick /\ r.c.retryCounter = 0
  /\ r.past.skipped = w.past.skipped \cup {u} /\ r.db.success = w.db.success
  /\ IF unlock THEN Unlocks(w, r, u) ELSE r.db.lock = w.db.lock
  /\ \/ /\ unlock /\ w.c.lockTime = NoLock /\ r.c.pc = "thrown"
        /\ r.c.nextUrl = w.c.nextUrl /\ r.c.archiveRetry = w.c.archiveRetry
        /\ r.c.lockTime = w.c.lockTime
     \/ /\ unlock => w.c.lockTime # NoLock
        /\ r.c.pc = w.c.pc /\ r.c.nextUrl = 0 /\ r.c.archiveRetry = FALSE
        /\ r.c.lockTime = IF unlock THEN NoLock ELSE w.c.lockTime

\* It will be tried again.
Retries(w, r, u, archiveOnly) ==
  /\ SameThread(w, r) /\ SamePlace(w, r) /\ r.c.tick = w.c.tick /\ r.c.pc = w.c.pc
  /\ r.c.retryCounter = 0 \/ r.c.retryCounter <= config.reTries
  /\ r.c.archiveRetry = (archiveOnly \/ w.c.archiveRetry)
  /\ r.c.nextUrl = IF archiveOnly THEN u ELSE w.c.nextUrl
  /\ r.c.lockTime = w.c.lockTime
  /\ r.db.lock = w.db.lock /\ r.db.success = w.db.success
  /\ r.past.skipped = w.past.skipped

GivesUp(w, r, u) == Skips(w, r, u, TRUE)

\* It has been crawled; without a lock time it is not known who has locked it.
Succeeds(w, r, u) ==
  /\ w.c.lockTime # NoLock
  /\ SameThread(w, r) /\ Advances(w, r, u) /\ r.c.tick = w.c.tick /\ r.c.pc = w.c.pc
  /\ r.c.retryCounter = 0 /\ r.c.nextUrl = 0 /\ r.c.lockTime = NoLock
  /\ r.c.archiveRetry = w.c.archiveRetry
  /\ Unlocks(w, r, u) /\ r.past.skipped = w.past.skipped
  /\ r.db.success = IF Mine(w, u) THEN [w.db.success EXCEPT ![u] = TRUE] ELSE w.db.success
Throws(w, r) ==
  /\ w.c.lockTime = NoLock /\ r.c = [w.c EXCEPT !.pc = "thrown"]
  /\ r.db = w.db /\ r.past = w.past

\* Advance() from one page, or URL, to the next.
LEMMA AdvanceEffect ==
  ASSUME CrawlerAssumption, config \in Configs, NEW w \in Worlds, NEW u \in Urls,
         w.db.last = w.c.last, NEW r, r = Advance(w, u)
  PROVE  /\ r \in Worlds /\ r.db.last = r.c.last
         /\ SameThread(w, r) /\ Advances(w, r, u)
         /\ r.c.pc = w.c.pc /\ r.c.tick = w.c.tick /\ r.c.nextUrl = w.c.nextUrl
         /\ r.c.retryCounter = w.c.retryCounter /\ r.c.archiveRetry = w.c.archiveRetry
         /\ r.c.lockTime = w.c.lockTime
         /\ r.db.lock = w.db.lock /\ r.db.success = w.db.success
         /\ r.past.skipped = w.past.skipped
<1>1. /\ w.c \in Memories /\ w.db \in Tables /\ w.past \in Pasts
      /\ u \in Ids /\ 0 \in Ids
  BY DEF Worlds, Urls, Ids, CrawlerAssumption
<1>2. w.c.manualCounter < Len(CustomPages) => w.c.manualCounter + 1 \in PageNumbers
  <2>1. w.c.manualCounter \in 0 .. Len(CustomPages) /\ Len(CustomPages) \in Nat
    BY <1>1, LenProperties DEF Memories, PageNumbers, CrawlerAssumption
  <2> QED
    BY <2>1 DEF PageNumbers
<1>3. CASE w.c.manualUrl > 0
  <2>1. CASE w.c.manualCounter < Len(CustomPages)
    <3>1. r = [w EXCEPT !.c.manualUrl = 0, !.c.manualCounter = w.c.manualCounter + 1]
      BY <1>3, <2>1 DEF Advance, Worlds, Memories
    <3>2. /\ r.c = [w.c EXCEPT !.manualUrl = 0, !.manualCounter = w.c.manualCounter + 1]
          /\ r.db = w.db /\ r.past = w.past /\ r = [c |-> r.c, db |-> r.db, past |-> r.past]
      BY <3>1 DEF Worlds
    <3>3. r.c \in Memories
      BY <3>2, <1>1, <1>2, <2>1 DEF Memories
    <3>4. r \in Worlds
      BY <3>2, <3>3, <1>1 DEF Worlds
    <3> QED
      BY <3>2, <3>4, <1>1, <1>3 DEF SameThread, Advances, NextPage, Memories
  <2>2. CASE ~(w.c.manualCounter < Len(CustomPages))
    <3>1. r = [w EXCEPT !.c.manualUrl = 0, !.c.startCrawled = TRUE]
      BY <1>3, <2>2 DEF Advance
    <3>2. /\ r.c = [w.c EXCEPT !.manualUrl = 0, !.startCrawled = TRUE]
          /\ r.db = w.db /\ r.past = w.past /\ r = [c |-> r.c, db |-> r.db, past |-> r.past]
      BY <3>1 DEF Worlds
    <3>3. r.c \in Memories
      BY <3>2, <1>1 DEF Memories
    <3>4. r \in Worlds
      BY <3>2, <3>3, <1>1 DEF Worlds
    <3> QED
      BY <3>2, <3>4, <1>1, <1>3 DEF SameThread, Advances, NextPage, Memories
  <2> QED
    BY <2>1, <2>2
<1>4. CASE ~(w.c.manualUrl > 0) /\ w.c.manualOff
  <2> DEFINE p == IF config.archives THEN w.c.last ELSE w.c.penultimate
  <2>1. r = [w EXCEPT !.c.penultimate = p, !.c.last = u, !.db.last = u]
    BY <1>4, <1>1 DEF Advance, SetLast, Worlds, Memories
  <2>2. /\ r.c = [w.c EXCEPT !.penultimate = p, !.last = u] /\ r.db = [w.db EXCEPT !.last = u]
        /\ r.past = w.past /\ r = [c |-> r.c, db |-> r.db, past |-> r.past]
    BY <2>1 DEF Worlds
  <2>3. p \in Ids
    BY <1>1 DEF Memories
  <2>4. r.c \in Memories /\ r.db \in Tables
    BY <2>2, <2>3, <1>1, ZenonT(60) DEF Memories, Tables
  <2>5. r \in Worlds
    BY <2>2, <2>4, <1>1 DEF Worlds
  <2>6. w.c.manualUrl = 0
    BY <1>1, <1>4, SMTT(60) DEF Memories, Ids
  <2>7. r.db.count = w.db.count /\ r.db.lock = w.db.lock /\ r.db.success = w.db.success
        /\ r.db.saved = w.db.saved /\ r.db.last = u
    BY <2>2, <1>1 DEF Tables
  <2>8. SameThread(w, r)
    BY <2>2, <2>7, <1>1 DEF SameThread, Memories
  <2>9. r.c.last = u /\ r.c.penultimate = p
    BY <2>2, <1>1 DEF Memories
  <2>10. NextLast(w, r, u)
    BY <2>2, <2>6, <2>9, <1>1, <1>4 DEF NextLast, Memories
  <2> QED
    BY <2>2, <2>5, <2>7, <2>8, <2>10, <1>1 DEF Memories, Advances
<1>5. CASE ~(w.c.manualUrl > 0) /\ ~w.c.manualOff
  <2>1. r = w
    BY <1>5 DEF Advance
  <2>2. w.c.manualUrl = 0
    BY <1>1, <1>5, SMTT(60) DEF Memories, Ids
  <2> QED
    BY <2>1, <2>2, <1>1, <1>5 DEF SameThread, Advances, SamePlace
<1> QED
  BY <1>3, <1>4, <1>5, <1>1 DEF Memories

\* Unlock() either unlocks the URL, if its lock is the crawler's, or throws.
LEMMA UnlockEffect ==
  ASSUME CrawlerAssumption, NEW w \in Worlds, NEW u \in Urls, w.db.last = w.c.last,
         NEW r, r = Unlock(w, u)
  PROVE  /\ r \in Worlds /\ r.db.last = r.c.last /\ r.past = w.past
         /\ SameThread(w, r) /\ SamePlace(w, r)
         /\ r.c.pc = IF w.c.lockTime = NoLock THEN "thrown" ELSE w.c.pc
         /\ r.c.tick = w.c.tick /\ r.c.nextUrl = w.c.nextUrl
         /\ r.c.retryCounter = w.c.retryCounter /\ r.c.archiveRetry = w.c.archiveRetry
         /\ r.c.lockTime = w.c.lockTime
         /\ Unlocks(w, r, u) /\ r.db.success = w.db.success
<1>1. /\ w.c \in Memories /\ w.db \in Tables /\ w.past \in Pasts
      /\ "thrown" \in ControlStates /\ Passed \in LockTimes
  BY DEF Worlds, ControlStates, LockTimes, NoRow, Passed, CrawlerAssumption
<1>2. CASE w.c.lockTime = NoLock
  <2>1. r = IF w.c.pc = "thrown" THEN w ELSE [w EXCEPT !.c.pc = "thrown"]
    BY <1>2 DEF Unlock, Then
  <2>2. (r = w /\ w.c.pc = "thrown") \/ r = [w EXCEPT !.c.pc = "thrown"]
    BY <2>1
  <2>3. /\ (r.c = w.c /\ w.c.pc = "thrown") \/ r.c = [w.c EXCEPT !.pc = "thrown"]
        /\ r.db = w.db /\ r.past = w.past /\ r = [c |-> r.c, db |-> r.db, past |-> r.past]
    BY <2>2 DEF Worlds
  <2>4. r.c \in Memories
    BY <2>3, <1>1 DEF Memories
  <2>5. r \in Worlds
    BY <2>3, <2>4, <1>1 DEF Worlds
  <2>6. ~Mine(w, u)
    <3>1. w.db.lock[u] \in LockTimes
      BY <1>1 DEF Tables
    <3> QED
      BY <3>1, <1>2 DEF Mine, NoLock, Passed, LockTimes, NoRow, CrawlerAssumption
  <2> QED
    BY <2>3, <2>5, <2>6, <1>1, <1>2 DEF SameThread, SamePlace, Unlocks, Memories
<1>3. CASE w.c.lockTime # NoLock /\ Mine(w, u)
  <2>1. r = [w EXCEPT !.db.lock[u] = Passed]
    BY <1>3 DEF Unlock
  <2>2. /\ r.db = [w.db EXCEPT !.lock = [w.db.lock EXCEPT ![u] = Passed]]
        /\ r.c = w.c /\ r.past = w.past /\ r = [c |-> r.c, db |-> r.db, past |-> r.past]
    BY <2>1 DEF Worlds, Tables
  <2>3. [w.db.lock EXCEPT ![u] = Passed] \in [Urls -> LockTimes]
    BY <1>1 DEF Tables
  <2>4. r.db \in Tables /\ r.db.lock = [w.db.lock EXCEPT ![u] = Passed]
    BY <2>2, <2>3, <1>1 DEF Tables
  <2>5. r \in Worlds
    BY <2>2, <2>4, <1>1 DEF Worlds
  <2>6. r.db.count = w.db.count /\ r.db.success = w.db.success /\ r.db.saved = w.db.saved
        /\ r.db.last = w.db.last
    BY <2>2, <1>1 DEF Tables
  <2> QED
    BY <2>2, <2>4, <2>5, <2>6, <1>1, <1>3 DEF SameThread, SamePlace, Unlocks
<1>4. CASE w.c.lockTime # NoLock /\ ~Mine(w, u)
  <2>1. r = w
    BY <1>4 DEF Unlock
  <2> QED
    BY <2>1, <1>4 DEF SameThread, SamePlace, Unlocks
<1> QED
  BY <1>2, <1>3, <1>4

\* crawlingSkip(): the crawler goes on to the next page, or URL.
LEMMA SkipEffect ==
  ASSUME CrawlerAssumption, config \in Configs, NEW w \in Worlds, NEW u \in Urls,
         NEW unlock \in BOOLEAN, w.db.last = w.c.last, w.c.pc # "thrown",
         NEW r, r = CrawlingSkip(w, u, unlock)
  PROVE  r \in Worlds /\ r.db.last = r.c.last /\ Skips(w, r, u, unlock)
<1>1. /\ w.c \in Memories /\ w.db \in Tables /\ w.past \in Pasts
      /\ 0 \in Nat /\ 0 \in Ids /\ NoLock \in LockTimes
  BY DEF Worlds, Ids, LockTimes, NoLock, NoRow, CrawlerAssumption
<1>2. PICK v : v = [w EXCEPT !.c.retryCounter = 0, !.past.skipped = @ \cup {u}]
  OBVIOUS
<1>3. PICK a : a = Advance(v, u)
  OBVIOUS
<1>4. PICK b : b = IF unlock THEN Unlock(a, u) ELSE a
  OBVIOUS
<1>5. r = IF b.c.pc = "thrown" THEN b
          ELSE [b EXCEPT !.c.lockTime = IF unlock THEN NoLock ELSE @,
                         !.c.nextUrl = 0, !.c.archiveRetry = FALSE]
  BY <1>2, <1>3, <1>4 DEF CrawlingSkip
<1>6. /\ v \in Worlds /\ v.db = w.db /\ v.c = [w.c EXCEPT !.retryCounter = 0]
      /\ v.past = [w.past EXCEPT !.skipped = @ \cup {u}]
  <2>1. /\ v.db = w.db /\ v.c = [w.c EXCEPT !.retryCounter = 0]
        /\ v.past = [w.past EXCEPT !.skipped = @ \cup {u}]
        /\ v = [c |-> v.c, db |-> v.db, past |-> v.past]
    BY <1>2 DEF Worlds
  <2>2. v.c \in Memories
    BY <2>1, <1>1 DEF Memories
  <2>3. v.past \in Pasts
    <3>1. w.past.skipped \cup {u} \in SUBSET Urls
      BY <1>1 DEF Pasts
    <3> QED
      BY <2>1, <3>1, <1>1 DEF Pasts
  <2> QED
    BY <2>1, <2>2, <2>3, <1>1 DEF Worlds
<1>7. /\ SameThread(w, v) /\ SamePlace(w, v) /\ v.c.retryCounter = 0
      /\ v.c.pc = w.c.pc /\ v.c.tick = w.c.tick /\ v.c.nextUrl = w.c.nextUrl
      /\ v.c.archiveRetry = w.c.archiveRetry /\ v.c.lockTime = w.c.lockTime
      /\ v.past.skipped = w.past.skipped \cup {u} /\ v.db.last = v.c.last
      /\ v.db.lock = w.db.lock /\ v.db.success = w.db.success
  BY <1>6, <1>1 DEF SameThread, SamePlace, Memories, Pasts
<1>8. /\ a \in Worlds /\ a.db.last = a.c.last
      /\ SameThread(v, a) /\ Advances(v, a, u) /\ a.c.retryCounter = 0
      /\ a.c.pc = w.c.pc /\ a.c.tick = w.c.tick /\ a.c.nextUrl = w.c.nextUrl
      /\ a.c.archiveRetry = w.c.archiveRetry /\ a.c.lockTime = w.c.lockTime
      /\ a.db.lock = w.db.lock /\ a.db.success = w.db.success
      /\ a.past.skipped = w.past.skipped \cup {u}
  <2>0. v \in Worlds /\ v.db.last = v.c.last
    BY <1>6, <1>7
  <2>1. /\ a \in Worlds /\ a.db.last = a.c.last
        /\ SameThread(v, a) /\ Advances(v, a, u)
        /\ a.c.pc = v.c.pc /\ a.c.tick = v.c.tick /\ a.c.nextUrl = v.c.nextUrl
        /\ a.c.retryCounter = v.c.retryCounter /\ a.c.archiveRetry = v.c.archiveRetry
        /\ a.c.lockTime = v.c.lockTime
        /\ a.db.lock = v.db.lock /\ a.db.success = v.db.success
        /\ a.past.skipped = v.past.skipped
    BY <1>3, <2>0, AdvanceEffect
  <2> QED
    BY <2>1, <1>7
<1>9. SameThread(w, a) /\ Advances(w, a, u)
  BY <1>7, <1>8 DEF SameThread, SamePlace, Advances, NextPage, NextLast
<1>10. /\ b \in Worlds /\ b.db.last = b.c.last
       /\ SameThread(w, b) /\ Advances(w, b, u) /\ b.c.retryCounter = 0
       /\ b.c.pc = IF unlock /\ w.c.lockTime = NoLock THEN "thrown" ELSE w.c.pc
       /\ b.c.tick = w.c.tick /\ b.c.nextUrl = w.c.nextUrl
       /\ b.c.archiveRetry = w.c.archiveRetry /\ b.c.lockTime = w.c.lockTime
       /\ IF unlock THEN Unlocks(w, b, u) ELSE b.db.lock = w.db.lock
       /\ b.db.success = w.db.success /\ b.past.skipped = w.past.skipped \cup {u}
  <2>1. CASE ~unlock
    BY <2>1, <1>4, <1>8, <1>9
  <2>2. CASE unlock
    <3>1. b = Unlock(a, u)
      BY <2>2, <1>4
    <3>2. /\ b \in Worlds /\ b.db.last = b.c.last /\ b.past = a.past
          /\ SameThread(a, b) /\ SamePlace(a, b)
          /\ b.c.pc = IF a.c.lockTime = NoLock THEN "thrown" ELSE a.c.pc
          /\ b.c.tick = a.c.tick /\ b.c.nextUrl = a.c.nextUrl
          /\ b.c.retryCounter = a.c.retryCounter /\ b.c.archiveRetry = a.c.archiveRetry
          /\ b.c.lockTime = a.c.lockTime
          /\ Unlocks(a, b, u) /\ b.db.success = a.db.success
      BY <3>1, <1>8, UnlockEffect
    <3>3. SameThread(w, b) /\ Advances(w, b, u)
      BY <3>2, <1>9 DEF SameThread, SamePlace, Advances, NextPage, NextLast
    <3>4. Unlocks(w, b, u)
      BY <3>2, <1>8 DEF Unlocks, Mine
    <3> QED
      BY <2>2, <3>2, <3>3, <3>4, <1>8
  <2> QED
    BY <2>1, <2>2
<1>11. CASE unlock /\ w.c.lockTime = NoLock
  <2>1. r = b
    BY <1>5, <1>10, <1>11
  <2> QED
    BY <2>1, <1>10, <1>11 DEF Skips
<1>12. CASE ~(unlock /\ w.c.lockTime = NoLock)
  <2> DEFINE t == IF unlock THEN NoLock ELSE w.c.lockTime
  <2>1. r = [b EXCEPT !.c.lockTime = t, !.c.nextUrl = 0, !.c.archiveRetry = FALSE]
    BY <1>5, <1>10, <1>12 DEF Worlds, Memories
  <2>2. b.c \in Memories /\ b.db \in Tables /\ b.past \in Pasts /\ t \in LockTimes
    BY <1>10, <1>1 DEF Worlds, Memories
  <2> HIDE DEF t
  <2>3. /\ r.c = [b.c EXCEPT !.lockTime = t, !.nextUrl = 0, !.archiveRetry = FALSE]
        /\ r.db = b.db /\ r.past = b.past /\ r = [c |-> r.c, db |-> r.db, past |-> r.past]
    BY <2>1, <1>10 DEF Worlds
  <2>4. r.c \in Memories
    BY <2>2, <2>3, <1>1, ZenonT(60) DEF Memories
  <2>5. r \in Worlds
    BY <2>2, <2>3, <2>4 DEF Worlds
  <2>6. /\ SameThread(b, r) /\ SamePlace(b, r) /\ r.c.tick = b.c.tick
        /\ r.c.retryCounter = b.c.retryCounter /\ r.c.pc = b.c.pc /\ r.c.nextUrl = 0
        /\ r.c.archiveRetry = FALSE /\ r.c.lockTime = t
    BY <2>2, <2>3 DEF SameThread, SamePlace, Memories
  <2>7. SameThread(w, r) /\ Advances(w, r, u)
    BY <2>6, <1>10 DEF SameThread, SamePlace, Advances, NextPage, NextLast
  <2>8. IF unlock THEN Unlocks(w, r, u) ELSE r.db.lock = w.db.lock
    BY <2>3, <1>10 DEF Unlocks
  <2>9. r.db.last = r.c.last
    BY <2>3, <2>6, <1>10 DEF SamePlace
  <2> QED
    BY <2>3, <2>5, <2>6, <2>7, <2>8, <2>9, <1>10, <1>12 DEF Skips, t
<1> QED
  BY <1>11, <1>12

\* No more retries have been counted than are allowed.
RetriesLeft(w) == w.c.retryCounter = 0 \/ w.c.retryCounter <= config.reTries

\* crawlingRetry(): the URL is tried again, or skipped.
LEMMA RetryEffect ==
  ASSUME CrawlerAssumption, config \in Configs, NEW w \in Worlds, NEW u \in Urls,
         NEW archiveOnly \in BOOLEAN, w.db.last = w.c.last, w.c.pc # "thrown",
         RetriesLeft(w), NEW r, r = CrawlingRetry(w, u, archiveOnly)
  PROVE  /\ r \in Worlds /\ r.db.last = r.c.last
         /\ Retries(w, r, u, archiveOnly) \/ GivesUp(w, r, u)
<1>1. /\ w.c \in Memories /\ w.db \in Tables /\ w.past \in Pasts
      /\ u \in Ids /\ config.reTries \in Int /\ w.c.retryCounter \in Nat
  BY DEF Worlds, Memories, Urls, Ids, CrawlerAssumption
<1>2. PICK v : v = IF config.reTries >= 0 THEN [w EXCEPT !.c.retryCounter = @ + 1] ELSE w
  OBVIOUS
<1>3. r = IF v.c.retryCounter > config.reTries /\ config.reTries >= 0
          THEN CrawlingSkip(v, u, TRUE)
          ELSE IF archiveOnly THEN [v EXCEPT !.c.archiveRetry = TRUE, !.c.nextUrl = u] ELSE v
  BY <1>2 DEF CrawlingRetry
<1>4. PICK n \in Nat : v.c = [w.c EXCEPT !.retryCounter = n] /\ v.db = w.db /\ v.past = w.past
                       /\ v = [c |-> v.c, db |-> v.db, past |-> v.past]
                       /\ (config.reTries < 0 => n = w.c.retryCounter)
  <2>1. CASE config.reTries >= 0
    <3>1. v = [w EXCEPT !.c.retryCounter = @ + 1]
      BY <2>1, <1>2
    <3>2. /\ v.c = [w.c EXCEPT !.retryCounter = @ + 1] /\ v.db = w.db /\ v.past = w.past
          /\ v = [c |-> v.c, db |-> v.db, past |-> v.past]
      BY <3>1 DEF Worlds
    <3>3. v.c = [w.c EXCEPT !.retryCounter = w.c.retryCounter + 1]
      BY <3>2, <1>1 DEF Memories
    <3>4. w.c.retryCounter + 1 \in Nat
      BY <1>1
    <3>5. ~(config.reTries < 0)
      BY <2>1, <1>1
    <3> QED
      BY <3>2, <3>3, <3>4, <3>5
  <2>2. CASE ~(config.reTries >= 0)
    <3>1. v = w
      BY <2>2, <1>2
    <3>2. w.c = [w.c EXCEPT !.retryCounter = w.c.retryCounter]
      BY <1>1 DEF Memories
    <3>3. v = [c |-> v.c, db |-> v.db, past |-> v.past]
      BY <3>1 DEF Worlds
    <3> QED
      BY <3>1, <3>2, <3>3, <1>1
  <2> QED
    BY <2>1, <2>2
<1>5. v.c \in Memories
  BY <1>4, <1>1 DEF Memories
<1>6. v \in Worlds
  BY <1>4, <1>5, <1>1 DEF Worlds
<1>7. /\ SameThread(w, v) /\ SamePlace(w, v) /\ v.c.retryCounter = n
      /\ v.c.pc = w.c.pc /\ v.c.tick = w.c.tick /\ v.c.nextUrl = w.c.nextUrl
      /\ v.c.archiveRetry = w.c.archiveRetry /\ v.c.lockTime = w.c.lockTime
      /\ v.past.skipped = w.past.skipped /\ v.db.last = v.c.last
      /\ v.db.lock = w.db.lock /\ v.db.success = w.db.success
  BY <1>4, <1>1 DEF SameThread, SamePlace, Memories
<1>8. CASE v.c.retryCounter > config.reTries /\ config.reTries >= 0
  <2>1. r = CrawlingSkip(v, u, TRUE)
    BY <1>8, <1>3
  <2>2. v.db.last = v.c.last /\ v.c.pc # "thrown" /\ TRUE \in BOOLEAN
    BY <1>7
  <2>3. r \in Worlds /\ r.db.last = r.c.last /\ Skips(v, r, u, TRUE)
    BY <2>1, <2>2, <1>6, SkipEffect
  <2>4. SameThread(w, r) /\ Advances(w, r, u)
    BY <2>3, <1>7 DEF Skips, SameThread, SamePlace, Advances, NextPage, NextLast
  <2>5. Unlocks(w, r, u)
    BY <2>3, <1>7 DEF Skips, Unlocks, Mine
  <2> QED
    BY <2>3, <2>4, <2>5, <1>7 DEF Skips, GivesUp
<1>9. CASE ~(v.c.retryCounter > config.reTries /\ config.reTries >= 0)
  <2>1. r = IF archiveOnly THEN [v EXCEPT !.c.archiveRetry = TRUE, !.c.nextUrl = u] ELSE v
    BY <1>9, <1>3
  <2>2. n = 0 \/ n <= config.reTries
    BY <1>9, <1>7, <1>4, <1>1 DEF RetriesLeft
  <2>3. CASE archiveOnly
    <3>1. r = [v EXCEPT !.c.archiveRetry = TRUE, !.c.nextUrl = u]
      BY <2>1, <2>3
    <3>2. /\ r.c = [v.c EXCEPT !.archiveRetry = TRUE, !.nextUrl = u]
          /\ r.db = v.db /\ r.past = v.past /\ r = [c |-> r.c, db |-> r.db, past |-> r.past]
      BY <3>1, <1>6 DEF Worlds
    <3>3. r.c \in Memories
      BY <3>2, <1>5, <1>1, ZenonT(60) DEF Memories
    <3>4. r \in Worlds
      BY <3>2, <3>3, <1>6 DEF Worlds
    <3>5. /\ SameThread(v, r) /\ SamePlace(v, r) /\ r.c.tick = v.c.tick
          /\ r.c.retryCounter = n /\ r.c.pc = v.c.pc /\ r.c.nextUrl = u
          /\ r.c.archiveRetry = TRUE /\ r.c.lockTime = v.c.lockTime
      BY <3>2, <1>5, <1>7 DEF SameThread, SamePlace, Memories
    <3>6. SameThread(w, r) /\ SamePlace(w, r)
      BY <3>5, <1>7 DEF SameThread, SamePlace
    <3>7. r.db.last = r.c.last
      BY <3>2, <3>5, <1>7 DEF SamePlace
    <3> QED
      BY <2>2, <2>3, <3>2, <3>4, <3>5, <3>6, <3>7, <1>7 DEF Retries
  <2>4. CASE ~archiveOnly
    <3>1. r = v
      BY <2>1, <2>4
    <3>2. w.c.archiveRetry \in BOOLEAN
      BY <1>1 DEF Memories
    <3> QED
      BY <2>2, <2>4, <3>1, <3>2, <1>6, <1>7 DEF Retries
  <2> QED
    BY <2>3, <2>4
<1> QED
  BY <1>8, <1>9

\* crawlingSuccess(): the URL is marked, if its lock is the crawler's, or it throws.
LEMMA SuccessEffect ==
  ASSUME CrawlerAssumption, config \in Configs, NEW w \in Worlds, NEW u \in Urls,
         w.db.last = w.c.last, w.c.pc # "thrown",
         NEW r, r = CrawlingSuccess(w, u)
  PROVE  r \in Worlds /\ r.db.last = r.c.last /\ (Succeeds(w, r, u) \/ Throws(w, r))
<1>1. /\ w.c \in Memories /\ w.db \in Tables /\ w.past \in Pasts
      /\ 0 \in Nat /\ 0 \in Ids /\ NoLock \in LockTimes /\ Passed \in LockTimes
      /\ "thrown" \in ControlStates
  BY DEF Worlds, Ids, LockTimes, NoLock, NoRow, Passed, ControlStates, CrawlerAssumption
<1>2. CASE w.c.lockTime = NoLock
  <2>1. r = [w EXCEPT !.c.pc = "thrown"]
    BY <1>2 DEF CrawlingSuccess, Then
  <2>2. /\ r.c = [w.c EXCEPT !.pc = "thrown"]
        /\ r.db = w.db /\ r.past = w.past /\ r = [c |-> r.c, db |-> r.db, past |-> r.past]
    BY <2>1 DEF Worlds
  <2>3. r.c \in Memories
    BY <2>2, <1>1 DEF Memories
  <2>4. r \in Worlds
    BY <2>2, <2>3, <1>1 DEF Worlds
  <2>5. r.db.last = r.c.last
    BY <2>2, <1>1 DEF Memories
  <2> QED
    BY <1>2, <2>2, <2>4, <2>5 DEF Throws
<1>3. CASE w.c.lockTime # NoLock
  <2> DEFINE finished == IF Mine(w, u)
                         THEN [w EXCEPT !.db.success[u] = TRUE, !.db.lock[u] = Passed,
                                        !.c.lockTime = NoLock]
                         ELSE [w EXCEPT !.c.lockTime = NoLock]
  <2> HIDE DEF finished
  <2>0. PICK v : v = finished
    OBVIOUS
  <2>1. v = IF Mine(w, u)
            THEN [w EXCEPT !.db.success[u] = TRUE, !.db.lock[u] = Passed,
                           !.c.lockTime = NoLock]
            ELSE [w EXCEPT !.c.lockTime = NoLock]
    BY <2>0 DEF finished
  <2>2. PICK a : a = Advance(v, u)
    OBVIOUS
  <2>3. r = [a EXCEPT !.c.retryCounter = 0, !.c.nextUrl = 0]
    <3>1. CASE Mine(w, u)
      <4>1. v = [[w EXCEPT !.db.success[u] = TRUE, !.db.lock[u] = Passed]
                   EXCEPT !.c.lockTime = NoLock]
        BY <2>1, <3>1 DEF Worlds
      <4> QED
        BY <1>3, <2>2, <3>1, <4>1 DEF CrawlingSuccess
    <3>2. CASE ~Mine(w, u)
      <4>1. v = [w EXCEPT !.c.lockTime = NoLock]
        BY <2>1, <3>2
      <4> QED
        BY <1>3, <2>2, <3>2, <4>1 DEF CrawlingSuccess
    <3> QED
      BY <3>1, <3>2
  <2>4. v \in Worlds /\ v.db.last = v.c.last
        /\ SameThread(w, v) /\ SamePlace(w, v)
        /\ v.c.pc = w.c.pc /\ v.c.tick = w.c.tick /\ v.c.archiveRetry = w.c.archiveRetry
        /\ v.c.lockTime = NoLock /\ v.past.skipped = w.past.skipped
        /\ Unlocks(w, v, u)
        /\ v.db.success = IF Mine(w, u) THEN [w.db.success EXCEPT ![u] = TRUE]
                          ELSE w.db.success
    <3>1. CASE Mine(w, u)
      <4>1. v = [w EXCEPT !.db.success[u] = TRUE, !.db.lock[u] = Passed,
                          !.c.lockTime = NoLock]
        BY <2>1, <3>1
      <4>2. /\ v.c = [w.c EXCEPT !.lockTime = NoLock] /\ v.past = w.past
            /\ v.db = [w.db EXCEPT !.success = [w.db.success EXCEPT ![u] = TRUE],
                                   !.lock = [w.db.lock EXCEPT ![u] = Passed]]
            /\ v = [c |-> v.c, db |-> v.db, past |-> v.past]
        BY <4>1 DEF Worlds, Tables
      <4>3. v.c \in Memories
        BY <4>2, <1>1 DEF Memories
      <4>4. [w.db.success EXCEPT ![u] = TRUE] \in [Urls -> BOOLEAN]
            /\ [w.db.lock EXCEPT ![u] = Passed] \in [Urls -> LockTimes]
        BY <1>1 DEF Tables
      <4>5. v.db \in Tables
        BY <4>2, <4>4, <1>1 DEF Tables
      <4>6. v \in Worlds
        BY <4>2, <4>3, <4>5, <1>1 DEF Worlds
      <4>7. /\ v.db.success = [w.db.success EXCEPT ![u] = TRUE]
            /\ v.db.lock = [w.db.lock EXCEPT ![u] = Passed]
            /\ v.db.count = w.db.count /\ v.db.saved = w.db.saved /\ v.db.last = w.db.last
        BY <4>2, <1>1 DEF Tables
      <4>8. /\ SameThread(w, v) /\ SamePlace(w, v)
            /\ v.c.pc = w.c.pc /\ v.c.tick = w.c.tick /\ v.c.archiveRetry = w.c.archiveRetry
            /\ v.c.lockTime = NoLock /\ v.c.last = w.c.last
        BY <4>2, <4>7, <1>1 DEF SameThread, SamePlace, Memories
      <4>9. v.past.skipped = w.past.skipped
        BY <4>2
      <4> QED
        BY <3>1, <4>6, <4>7, <4>8, <4>9 DEF Unlocks
    <3>2. CASE ~Mine(w, u)
      <4>1. v = [w EXCEPT !.c.lockTime = NoLock]
        BY <2>1, <3>2
      <4>2. /\ v.c = [w.c EXCEPT !.lockTime = NoLock] /\ v.past = w.past /\ v.db = w.db
            /\ v = [c |-> v.c, db |-> v.db, past |-> v.past]
        BY <4>1 DEF Worlds
      <4>3. v.c \in Memories
        BY <4>2, <1>1 DEF Memories
      <4>6. v \in Worlds
        BY <4>2, <4>3, <1>1 DEF Worlds
      <4>8. /\ SameThread(w, v) /\ SamePlace(w, v)
            /\ v.c.pc = w.c.pc /\ v.c.tick = w.c.tick /\ v.c.archiveRetry = w.c.archiveRetry
            /\ v.c.lockTime = NoLock /\ v.c.last = w.c.last
        BY <4>2, <1>1 DEF SameThread, SamePlace, Memories
      <4> QED
        BY <3>2, <4>2, <4>6, <4>8 DEF Unlocks
    <3> QED
      BY <3>1, <3>2
  <2>5. v \in Worlds /\ v.db.last = v.c.last
    BY <2>4
  <2>6. /\ a \in Worlds /\ a.db.last = a.c.last
        /\ SameThread(v, a) /\ Advances(v, a, u)
        /\ a.c.pc = v.c.pc /\ a.c.tick = v.c.tick /\ a.c.archiveRetry = v.c.archiveRetry
        /\ a.c.lockTime = v.c.lockTime
        /\ a.db.lock = v.db.lock /\ a.db.success = v.db.success
        /\ a.past.skipped = v.past.skipped
    BY <2>2, <2>5, AdvanceEffect
  <2>7. /\ r.c = [a.c EXCEPT !.retryCounter = 0, !.nextUrl = 0]
        /\ r.db = a.db /\ r.past = a.past /\ r = [c |-> r.c, db |-> r.db, past |-> r.past]
    BY <2>3, <2>6 DEF Worlds
  <2>8. a.c \in Memories /\ a.db \in Tables /\ a.past \in Pasts
    BY <2>6 DEF Worlds
  <2>9. r.c \in Memories
    BY <2>7, <2>8, <1>1, ZenonT(60) DEF Memories
  <2>10. r \in Worlds
    BY <2>7, <2>8, <2>9 DEF Worlds
  <2>11. /\ SameThread(a, r) /\ SamePlace(a, r) /\ r.c.retryCounter = 0 /\ r.c.nextUrl = 0
         /\ r.c.pc = a.c.pc /\ r.c.tick = a.c.tick /\ r.c.archiveRetry = a.c.archiveRetry
         /\ r.c.lockTime = a.c.lockTime
    BY <2>7, <2>8 DEF SameThread, SamePlace, Memories
  <2>12. SameThread(w, r) /\ Advances(w, r, u)
    <3>1. SameThread(v, r) /\ Advances(v, r, u)
      BY <2>6, <2>11 DEF SameThread, SamePlace, Advances, NextPage, NextLast
    <3> QED
      BY <2>4, <3>1 DEF SameThread, SamePlace, Advances, NextPage, NextLast
  <2>13. Unlocks(w, r, u) /\ r.db.last = r.c.last
    BY <2>4, <2>6, <2>7, <2>11 DEF Unlocks, SamePlace
  <2> QED
    BY <2>4, <2>6, <2>7, <2>10, <2>11, <2>12, <2>13, <1>3 DEF Succeeds
<1> QED
  BY <1>2, <1>3

-----------------------------------------------------------------------------
(* The invariant.                                                           *)

\* What becomes of a URL that is passed: it has been crawled, or skipped, or it has
\* been locked by somebody else; the thread may have been sent past it.
Known(u) ==
  \/ u \in Manual \/ db.success[u] \/ u <= past.base
  \/ u \in past.skipped \cup past.foreign
Covered(u) == Known(u) \/ u \in past.left
CoveredTo(n) == \A u \in 1 .. n : Covered(u)

Selecting == {"manual", "custom", "start", "auto", "next", "lock", "wait"}
Archiving == {"page", "memento", "archived"}
Finishing == {"links", "archives", "done"} \cup Archiving
UrlStates == {"content"} \cup Finishing

\* The URL that a crawler is at, in manual and in automatic mode.
Current == IF c.manualOff THEN c.nextUrl ELSE c.manualUrl

\* The tick has a URL from its selection until its end.
Control ==
  /\ c.pc \in Selecting \cup {"tick", "ticked"} => c.tick = NoTick
  /\ c.pc \in UrlStates \cup {"end"} => c.tick.url > 0
  /\ c.pc \in Archiving => config.archives
  /\ c.warped => c.pc = "tick"

\* A URL that is about to be finished has its content, if the server takes it.
ContentFirst ==
  ~(config.archives /\ (config.retryArchive \/ config.archivesOnly)) =>
    /\ config.archives => ~c.archiveRetry
    /\ c.pc \in Finishing /\ ~c.tick.failed => c.tick.url \in db.saved \cup config.large
    /\ \A u \in Urls \ config.large : db.success[u] => u \in db.saved

ManualDone ==
  c.manualCounter = Len(CustomPages) /\ (config.startIgnore \/ c.startCrawled)

\* In manual mode there is no last ID yet, and only custom pages and the start page
\* are crawled; once they are done, there is no way back.
Modes ==
  /\ c.manualUrl \in Manual \cup {0}
  /\ c.manualOff => c.manualUrl = 0
  /\ ~c.manualOff =>
       /\ {c.tick.url, c.nextUrl} \subseteq Manual \cup {0}
       /\ c.tick.url > 0 => c.last = 0
       /\ c.last > 0 /\ ~c.warped => c.manualUrl = 0
  /\ c.pc \in {"manual", "custom", "start"} => c.last = 0
  /\ c.pc \in Selecting \ {"manual"} => c.manualUrl = 0
  /\ c.pc = "start" => c.manualCounter = Len(CustomPages)
  /\ c.pc = "auto" /\ c.last = 0 => ManualDone
  /\ c.pc \in {"next", "lock", "wait"} => c.manualOff
  /\ c.pc = "wait" => c.nextUrl = 0
  /\ c.pc = "lock" => c.nextUrl > 0
  /\ c.manualOff /\ c.last = 0 =>
       ManualDone \/ (~c.running /\ c.pc \in {"end", "tick", "ticked", "thrown"})

\* Every URL up to the last one, and before the one the crawler is at, is covered.
Positions ==
  /\ CoveredTo(c.last)
  /\ ~c.manualOff => CoveredTo(c.restore)
  /\ c.manualOff /\ ~c.warped =>
       \A x \in {c.nextUrl, c.tick.url} \ {0} :
         x >= c.last /\ CoveredTo(x - 1) /\ (x = c.last => Known(x))
  /\ config.archives /\ ~c.warped /\ c.last \in {c.tick.url, c.nextUrl} \ {0} =>
       c.penultimate <= c.last

\* A lock that lives is that of another crawler, or of a thread that is gone, or the
\* crawler knows of it; one that it has not released was that of a URL it has skipped.
Locks ==
  /\ \A u \in Urls : other[u] = "holds" => u \in past.foreign
  /\ c.pc \in UrlStates =>
       db.lock[c.tick.url] >= Passed /\ c.tick.url \in {Current} \cup past.skipped
  /\ c.pc \in UrlStates \cup {"end"} => Current \in {0, c.tick.url}
  /\ c.lockTime # NoLock =>
       \A x \in Urls :
         x = Current \/ (c.pc \in UrlStates \cup {"end"} /\ x = c.tick.url) =>
           db.lock[x] <= c.lockTime \/ other[x] = "holds"
  /\ \A u \in Alive \ past.left :
       \/ c.lockTime # NoLock /\ u = Current
       \/ config.archives /\ u \in past.skipped
  /\ c.pc = "next" => c.lockTime = NoLock \/ c.nextUrl = 0

Inv == Control /\ ContentFirst /\ Modes /\ Positions /\ Locks

-----------------------------------------------------------------------------
(* Steps that change neither the place of the crawler nor a lock nor a mark. *)

SameModes ==
  /\ c'.manualUrl = c.manualUrl /\ c'.manualCounter = c.manualCounter
  /\ c'.startCrawled = c.startCrawled /\ c'.manualOff = c.manualOff
SamePlaces ==
  /\ c'.last = c.last /\ c'.restore = c.restore /\ c'.penultimate = c.penultimate
  /\ c'.nextUrl = c.nextUrl /\ c'.warped = c.warped
SameMarks == db'.success = db.success /\ db'.saved = db.saved /\ past' = past
SameLocks == db'.lock = db.lock /\ c'.lockTime = c.lockTime /\ other' = other

Stays ==
  /\ config' = config /\ SameModes /\ SamePlaces /\ SameMarks /\ SameLocks
  /\ c'.archiveRetry => c.archiveRetry
  /\ c'.running => c.running

SameTick == c'.tick.url = c.tick.url /\ c'.tick.failed = c.tick.failed
\* The control state goes on within a tick, or the tick ends.
MovesOn ==
  \/ c'.pc = c.pc /\ c'.tick = c.tick
  \/ c.pc = "memento" /\ c'.pc = "memento" /\ SameTick
  \/ c.pc = "ticked" /\ ~c.warped /\ c'.pc = "tick" /\ c'.tick = c.tick
  \/ c.pc = "manual" /\ c'.pc = "custom" /\ c.manualUrl = 0 /\ c'.tick = c.tick
  \/ c.pc = "custom" /\ c'.pc = "start" /\ c.manualCounter = Len(CustomPages) /\ c'.tick = c.tick
  \/ c.pc = "auto" /\ c'.pc = "next" /\ c.manualOff /\ c.nextUrl = 0 /\ c'.tick = c.tick
  \/ /\ c.pc \in Finishing /\ c'.pc \in Finishing \cup {"end"} /\ SameTick
     /\ c'.pc \in Archiving => config.archives
  \/ c.pc # "tick" /\ c'.pc = "ticked" /\ c'.tick = NoTick

\* A step that keeps the place of the crawler and what is known of the URLs.
LEMMA PositionsStay ==
  ASSUME Positions, config' = config, SamePlaces, SameMarks, c'.manualOff = c.manualOff,
         c'.tick.url \in {0, c.tick.url}
  PROVE  Positions'
<1>1. \A u : Known(u)' <=> Known(u)
  BY DEF Known, SameMarks
<1>2. \A n : CoveredTo(n)' <=> CoveredTo(n)
  BY <1>1 DEF CoveredTo, Covered, SameMarks
<1> QED
  BY <1>1, <1>2 DEF Positions, SamePlaces

\* A step that only goes on within a tick keeps the invariant.
LEMMA StaysKeep ==
  ASSUME TypeOK, Inv, Stays, MovesOn
  PROVE  Inv'
<1>1. c'.tick.url \in {0, c.tick.url}
  BY DEF MovesOn, SameTick, NoTick
<1>2. Control'
  BY DEF Inv, Control, Stays, SamePlaces, MovesOn, SameTick, Selecting, Archiving, Finishing,
     UrlStates, NoTick
<1>3. ContentFirst'
  BY DEF Inv, ContentFirst, Stays, SameMarks, MovesOn, SameTick, Archiving, Finishing
<1>4. Modes'
  BY DEF Inv, Modes, ManualDone, Stays, SameModes, SamePlaces, MovesOn, SameTick, Selecting,
     Archiving, Finishing, NoTick
<1>5. Positions'
  BY <1>1, PositionsStay DEF Inv, Stays, SameModes
<1>6. Locks'
  BY DEF Inv, Locks, Stays, SameModes, SamePlaces, SameMarks, SameLocks, MovesOn, SameTick,
     Current, Alive, UrlStates, Archiving, Finishing
<1> QED
  BY <1>2, <1>3, <1>4, <1>5, <1>6 DEF Inv

\* Such steps change no more than this.
Moved(p, t, retry, running, paused) ==
  [c EXCEPT !.pc = p, !.tick = t, !.archiveRetry = retry, !.running = running,
            !.paused = paused]
Counted(n) == [db EXCEPT !.count = n]

\* Such a step, by the memory and the tables it leaves.
LEMMA MovedOn ==
  ASSUME TypeOK, Inv, NEW p \in ControlStates, NEW t \in TickTypes, NEW n \in Counts,
         NEW retry \in BOOLEAN, NEW running \in BOOLEAN, NEW paused \in BOOLEAN,
         c' = Moved(p, t, retry, running, paused), db' = Counted(n), past' = past,
         other' = other, config' = config,
         retry => c.archiveRetry, running => c.running,
         c'.pc = p /\ c'.tick = t => MovesOn
  PROVE  TypeOK' /\ Inv'
<1>1. c' \in Memories /\ c'.pc = p /\ c'.tick = t /\ c'.retryCounter = c.retryCounter
      /\ c'.last = c.last
  BY ZenonT(60) DEF TypeOK, Memories, Moved
<1>2. db' \in Tables /\ db'.last = db.last
  BY DEF TypeOK, Tables, Counted
<1>3. TypeOK'
  BY <1>1, <1>2 DEF TypeOK
<1>4. SameModes /\ SamePlaces
  BY DEF TypeOK, Memories, Moved, SameModes, SamePlaces
<1>5. SameMarks
  BY DEF TypeOK, Tables, Counted, SameMarks
<1>6. SameLocks /\ (c'.archiveRetry => c.archiveRetry) /\ (c'.running => c.running)
  BY DEF TypeOK, Memories, Tables, Moved, Counted, SameLocks
<1> QED
  BY <1>1, <1>3, <1>4, <1>5, <1>6, StaysKeep DEF Stays

\* The steps that only go on.
LEMMA MoveSteps ==
  ASSUME CrawlerAssumption, TypeOK, Inv,
         \/ Cancel \/ ManualNext \/ NoMoreCustom \/ NoRetry \/ Sleep \/ AddUrl \/ UrlsAdded
         \/ NoArchives \/ Archives \/ PageEnds \/ Memento
         \/ \E k \in 0 .. MaxMementos, more \in BOOLEAN : Page(k, more)
         \/ ArchiveCancelled \/ ArchivesFatal \/ Thrown \/ NoJump \/ Unpause \/ Stop
  PROVE  TypeOK' /\ Inv'
<1>1. /\ c \in Memories /\ db \in Tables /\ c.tick \in TickTypes /\ c.pc \in ControlStates
      /\ c.archiveRetry \in BOOLEAN /\ c.running \in BOOLEAN /\ c.paused \in BOOLEAN
      /\ db.count \in Counts
  BY DEF TypeOK, Memories, Tables
<1>2. NoTick \in TickTypes
  BY DEF NoTick, TickTypes, Ids, MementoNumbers, CrawlerAssumption
<1>3. db = Counted(db.count)
  BY <1>1 DEF Tables, Counted
<1>4. CASE ManualNext
  <2>1. c' = [c EXCEPT !.pc = "custom"] /\ db' = db /\ past' = past
    BY <1>4, <1>1 DEF ManualNext, At, Goto, EndTick, Then, Become, World
  <2>2. c' = Moved("custom", c.tick, c.archiveRetry, c.running, c.paused)
    BY <2>1, <1>1 DEF Memories, Moved
  <2>3. c'.pc = "custom" /\ c'.tick = c.tick => MovesOn
    BY <1>4 DEF ManualNext, At, MovesOn, Inv, Control, SameTick, Finishing, Archiving
  <2>4. other' = other /\ config' = config /\ "custom" \in ControlStates
    BY <1>4, <1>1 DEF ManualNext, At, SameOther, ControlStates
  <2> QED
    BY <2>1, <2>2, <2>3, <2>4, <1>1, <1>2, <1>3, MovedOn
<1>5. CASE NoMoreCustom
  <2>1. c' = [c EXCEPT !.pc = "start"] /\ db' = db /\ past' = past
    BY <1>5, <1>1 DEF NoMoreCustom, At, Goto, EndTick, Then, Become, World
  <2>2. c' = Moved("start", c.tick, c.archiveRetry, c.running, c.paused)
    BY <2>1, <1>1 DEF Memories, Moved
  <2>3. c'.pc = "start" /\ c'.tick = c.tick => MovesOn
    BY <1>5 DEF NoMoreCustom, At, MovesOn, Inv, Control, SameTick, Finishing, Archiving
  <2>4. other' = other /\ config' = config /\ "start" \in ControlStates
    BY <1>5, <1>1 DEF NoMoreCustom, At, SameOther, ControlStates
  <2> QED
    BY <2>1, <2>2, <2>3, <2>4, <1>1, <1>2, <1>3, MovedOn
<1>6. CASE NoRetry
  <2>1. c' = [c EXCEPT !.pc = "next"] /\ db' = db /\ past' = past
    BY <1>6, <1>1 DEF NoRetry, At, Goto, EndTick, Then, Become, World
  <2>2. c' = Moved("next", c.tick, c.archiveRetry, c.running, c.paused)
    BY <2>1, <1>1 DEF Memories, Moved
  <2>3. c'.pc = "next" /\ c'.tick = c.tick => MovesOn
    BY <1>6 DEF NoRetry, At, MovesOn, Inv, Control, SameTick, Finishing, Archiving
  <2>4. other' = other /\ config' = config /\ "next" \in ControlStates
    BY <1>6, <1>1 DEF NoRetry, At, SameOther, ControlStates
  <2> QED
    BY <2>1, <2>2, <2>3, <2>4, <1>1, <1>2, <1>3, MovedOn
<1>7. CASE UrlsAdded
  <2>1. c' = [c EXCEPT !.pc = "archives"] /\ db' = db /\ past' = past
    BY <1>7, <1>1 DEF UrlsAdded, At, Goto, EndTick, Then, Become, World
  <2>2. c' = Moved("archives", c.tick, c.archiveRetry, c.running, c.paused)
    BY <2>1, <1>1 DEF Memories, Moved
  <2>3. c'.pc = "archives" /\ c'.tick = c.tick => MovesOn
    BY <1>7 DEF UrlsAdded, At, MovesOn, Inv, Control, SameTick, Finishing, Archiving
  <2>4. other' = other /\ config' = config /\ "archives" \in ControlStates
    BY <1>7, <1>1 DEF UrlsAdded, At, SameOther, ControlStates
  <2> QED
    BY <2>1, <2>2, <2>3, <2>4, <1>1, <1>2, <1>3, MovedOn
<1>8. CASE NoArchives
  <2>1. c' = [c EXCEPT !.pc = "done"] /\ db' = db /\ past' = past
    BY <1>8, <1>1 DEF NoArchives, At, Goto, EndTick, Then, Become, World
  <2>2. c' = Moved("done", c.tick, c.archiveRetry, c.running, c.paused)
    BY <2>1, <1>1 DEF Memories, Moved
  <2>3. c'.pc = "done" /\ c'.tick = c.tick => MovesOn
    BY <1>8 DEF NoArchives, At, MovesOn, Inv, Control, SameTick, Finishing, Archiving
  <2>4. other' = other /\ config' = config /\ "done" \in ControlStates
    BY <1>8, <1>1 DEF NoArchives, At, SameOther, ControlStates
  <2> QED
    BY <2>1, <2>2, <2>3, <2>4, <1>1, <1>2, <1>3, MovedOn
<1>9. CASE PageEnds
  <2>1. c' = [c EXCEPT !.pc = "archived"] /\ db' = db /\ past' = past
    BY <1>9, <1>1 DEF PageEnds, At, Goto, EndTick, Then, Become, World
  <2>2. c' = Moved("archived", c.tick, c.archiveRetry, c.running, c.paused)
    BY <2>1, <1>1 DEF Memories, Moved
  <2>3. c'.pc = "archived" /\ c'.tick = c.tick => MovesOn
    BY <1>9 DEF PageEnds, At, MovesOn, Inv, Control, SameTick, Finishing, Archiving
  <2>4. other' = other /\ config' = config /\ "archived" \in ControlStates
    BY <1>9, <1>1 DEF PageEnds, At, SameOther, ControlStates
  <2> QED
    BY <2>1, <2>2, <2>3, <2>4, <1>1, <1>2, <1>3, MovedOn
<1>10. CASE NoJump
  <2>1. c' = [c EXCEPT !.pc = "tick"] /\ db' = db /\ past' = past
    BY <1>10, <1>1 DEF NoJump, At, Goto, EndTick, Then, Become, World
  <2>2. c' = Moved("tick", c.tick, c.archiveRetry, c.running, c.paused)
    BY <2>1, <1>1 DEF Memories, Moved
  <2>3. c'.pc = "tick" /\ c'.tick = c.tick => MovesOn
    BY <1>10 DEF NoJump, At, MovesOn, Inv, Control, SameTick, Finishing, Archiving
  <2>4. other' = other /\ config' = config /\ "tick" \in ControlStates
    BY <1>10, <1>1 DEF NoJump, At, SameOther, ControlStates
  <2> QED
    BY <2>1, <2>2, <2>3, <2>4, <1>1, <1>2, <1>3, MovedOn
<1>11. CASE Cancel
  <2>1. c' = [c EXCEPT !.tick = NoTick, !.pc = "ticked"] /\ db' = db /\ past' = past
    BY <1>11, <1>1 DEF Cancel, At, Goto, EndTick, Then, Become, World
  <2>2. c' = Moved("ticked", NoTick, c.archiveRetry, c.running, c.paused)
    BY <2>1, <1>1 DEF Memories, Moved
  <2>3. c'.pc = "ticked" /\ c'.tick = NoTick => MovesOn
    BY <1>11 DEF Cancel, At, MovesOn, Inv, Control, SameTick, Finishing, Archiving
  <2>4. other' = other /\ config' = config /\ "ticked" \in ControlStates
    BY <1>11, <1>1 DEF Cancel, At, SameOther, ControlStates
  <2> QED
    BY <2>1, <2>2, <2>3, <2>4, <1>1, <1>2, <1>3, MovedOn
<1>12. CASE Sleep
  <2>1. c' = [c EXCEPT !.tick = NoTick, !.pc = "ticked"] /\ db' = db /\ past' = past
    BY <1>12, <1>1 DEF Sleep, At, Goto, EndTick, Then, Become, World
  <2>2. c' = Moved("ticked", NoTick, c.archiveRetry, c.running, c.paused)
    BY <2>1, <1>1 DEF Memories, Moved
  <2>3. c'.pc = "ticked" /\ c'.tick = NoTick => MovesOn
    BY <1>12 DEF Sleep, At, MovesOn, Inv, Control, SameTick, Finishing, Archiving
  <2>4. other' = other /\ config' = config /\ "ticked" \in ControlStates
    BY <1>12, <1>1 DEF Sleep, At, SameOther, ControlStates
  <2> QED
    BY <2>1, <2>2, <2>3, <2>4, <1>1, <1>2, <1>3, MovedOn
<1>13. CASE Thrown
  <2>1. c' = [c EXCEPT !.pc = "ticked", !.tick = NoTick, !.paused = TRUE] /\ db' = db /\ past' = past
    BY <1>13, <1>1 DEF Thrown, At, Goto, EndTick, Then, Become, World
  <2>2. c' = Moved("ticked", NoTick, c.archiveRetry, c.running, TRUE)
    BY <2>1, <1>1 DEF Memories, Moved
  <2>3. c'.pc = "ticked" /\ c'.tick = NoTick => MovesOn
    BY <1>13 DEF Thrown, At, MovesOn, Inv, Control, SameTick, Finishing, Archiving
  <2>4. other' = other /\ config' = config /\ "ticked" \in ControlStates
    BY <1>13, <1>1 DEF Thrown, At, SameOther, ControlStates
  <2> QED
    BY <2>1, <2>2, <2>3, <2>4, <1>1, <1>2, <1>3, MovedOn
<1>14. CASE Unpause
  <2>1. c' = [c EXCEPT !.paused = FALSE] /\ db' = db /\ past' = past
    BY <1>14, <1>1 DEF Unpause, At, Goto, EndTick, Then, Become, World
  <2>2. c' = Moved(c.pc, c.tick, c.archiveRetry, c.running, FALSE)
    BY <2>1, <1>1 DEF Memories, Moved
  <2>3. c'.pc = c.pc /\ c'.tick = c.tick => MovesOn
    BY <1>14 DEF Unpause, At, MovesOn, Inv, Control, SameTick, Finishing, Archiving
  <2>4. other' = other /\ config' = config /\ c.pc \in ControlStates
    BY <1>14, <1>1 DEF Unpause, At, SameOther, ControlStates
  <2> QED
    BY <2>1, <2>2, <2>3, <2>4, <1>1, <1>2, <1>3, MovedOn
<1>15. CASE Stop
  <2>1. c' = [c EXCEPT !.running = FALSE] /\ db' = db /\ past' = past
    BY <1>15, <1>1 DEF Stop, At, Goto, EndTick, Then, Become, World
  <2>2. c' = Moved(c.pc, c.tick, c.archiveRetry, FALSE, c.paused)
    BY <2>1, <1>1 DEF Memories, Moved
  <2>3. c'.pc = c.pc /\ c'.tick = c.tick => MovesOn
    BY <1>15 DEF Stop, At, MovesOn, Inv, Control, SameTick, Finishing, Archiving
  <2>4. other' = other /\ config' = config /\ c.pc \in ControlStates
    BY <1>15, <1>1 DEF Stop, At, SameOther, ControlStates
  <2> QED
    BY <2>1, <2>2, <2>3, <2>4, <1>1, <1>2, <1>3, MovedOn
<1>16. CASE AddUrl
  <2>1. c' = c /\ db' = [db EXCEPT !.count = db.count + 1] /\ past' = past
    BY <1>16, <1>1 DEF AddUrl, At, Goto, Then, Become, World
  <2>2. c' = Moved(c.pc, c.tick, c.archiveRetry, c.running, c.paused)
    BY <2>1, <1>1 DEF Memories, Moved
  <2>3. c'.pc = c.pc /\ c'.tick = c.tick => MovesOn
    BY <1>16, <1>1 DEF AddUrl, At, MovesOn, Inv, Control, SameTick, Finishing, Archiving
  <2>4. other' = other /\ config' = config /\ c.pc \in ControlStates
    BY <1>16, <1>1 DEF AddUrl, At, SameOther, ControlStates
  <2>6. db.count + 1 \in Counts /\ db' = Counted(db.count + 1)
    BY <1>16, <1>1, <2>1 DEF AddUrl, Counts, Urls, Counted, CrawlerAssumption
  <2> QED
    BY <2>1, <2>2, <2>3, <2>4, <2>6, <1>1, <1>2, <1>3, MovedOn
<1>17. CASE Archives
  <2> DEFINE t == [c.tick EXCEPT !.success = TRUE, !.fatal = FALSE]
  <2>1. c' = [c EXCEPT !.pc = "page", !.tick = t] /\ db' = db /\ past' = past
    BY <1>17, <1>1 DEF Archives, At, Goto, Then, Become, World, Memories
  <2>5. t \in TickTypes /\ t.url = c.tick.url
        /\ t.failed = c.tick.failed
    BY <1>17, <1>1 DEF TickTypes
  <2> HIDE DEF t
  <2>2. c' = Moved("page", t, c.archiveRetry, c.running, c.paused)
    BY <2>1, <1>1 DEF Memories, Moved
  <2>3. c'.pc = "page" /\ c'.tick = t => MovesOn
    BY <1>17, <1>1, <2>5 DEF Archives, At, MovesOn, Inv, Control, SameTick, Finishing, Archiving
  <2>4. other' = other /\ config' = config /\ "page" \in ControlStates
    BY <1>17, <1>1 DEF Archives, At, SameOther, ControlStates
  <2> QED
    BY <2>1, <2>2, <2>3, <2>4, <2>5, <1>1, <1>2, <1>3, MovedOn
<1>18. CASE \E k \in 0 .. MaxMementos, more \in BOOLEAN : Page(k, more)
  <2>0. PICK k \in 0 .. MaxMementos, more \in BOOLEAN : Page(k, more)
    BY <1>18
  <2> DEFINE t == [c.tick EXCEPT !.mementos = k, !.more = more]
  <2>1. c' = [c EXCEPT !.pc = "memento", !.tick = t] /\ db' = db /\ past' = past
    BY <1>18, <1>1, <2>0, ZenonT(60) DEF Page, At, Goto, Then, Become, World, Memories
  <2>5. t \in TickTypes /\ t.url = c.tick.url
        /\ t.failed = c.tick.failed
    BY <1>18, <1>1, <2>0 DEF TickTypes, MementoNumbers
  <2> HIDE DEF t
  <2>2. c' = Moved("memento", t, c.archiveRetry, c.running, c.paused)
    BY <2>1, <1>1 DEF Memories, Moved
  <2>3. c'.pc = "memento" /\ c'.tick = t => MovesOn
    BY <1>18, <1>1, <2>0, <2>5 DEF Page, At, MovesOn, Inv, Control, SameTick, Finishing, Archiving
  <2>4. other' = other /\ config' = config /\ "memento" \in ControlStates
    BY <1>18, <1>1, <2>0 DEF Page, At, SameOther, ControlStates
  <2> QED
    BY <2>1, <2>2, <2>3, <2>4, <2>5, <1>1, <1>2, <1>3, MovedOn
<1>19. CASE Memento
  <2>0. PICK k \in {db.count, db.count + 1} :
          k \in Urls /\ Become([World EXCEPT !.c.tick.mementos = @ - 1, !.db.count = k])
    BY <1>19 DEF Memento
  <2> DEFINE t == [c.tick EXCEPT !.mementos = c.tick.mementos - 1]
  <2>1. c' = [c EXCEPT !.tick = t] /\ db' = [db EXCEPT !.count = k] /\ past' = past
    BY <1>19, <1>1, <2>0 DEF Memento, At, Goto, Then, Become, World, Memories, TickTypes
  <2>5. t \in TickTypes /\ t.url = c.tick.url
        /\ t.failed = c.tick.failed
    BY <1>19, <1>1, <2>0, SMTT(60) DEF TickTypes, MementoNumbers, Memento, CrawlerAssumption
  <2> HIDE DEF t
  <2>2. c' = Moved(c.pc, t, c.archiveRetry, c.running, c.paused)
    BY <2>1, <1>1 DEF Memories, Moved
  <2>3. c'.pc = c.pc /\ c'.tick = t => MovesOn
    BY <1>19, <1>1, <2>0, <2>5 DEF Memento, At, MovesOn, Inv, Control, SameTick, Finishing,
       Archiving
  <2>4. other' = other /\ config' = config /\ c.pc \in ControlStates
    BY <1>19, <1>1, <2>0 DEF Memento, At, SameOther, ControlStates
  <2>6. k \in Counts /\ db' = Counted(k)
    BY <1>19, <1>1, <2>0, <2>1 DEF Memento, Counts, Urls, Counted, CrawlerAssumption
  <2> QED
    BY <2>1, <2>2, <2>3, <2>4, <2>5, <2>6, <1>1, <1>2, <1>3, MovedOn
<1>20. CASE ArchiveCancelled
  <2> DEFINE t == [c.tick EXCEPT !.fatal = c.tick.fatal /\ c.pc = "memento"]
  <2>1. c' = [c EXCEPT !.pc = "archived", !.tick = t] /\ db' = db /\ past' = past
    BY <1>20, <1>1 DEF ArchiveCancelled, At, Goto, Then, Become, World, Memories, TickTypes
  <2>5. t \in TickTypes /\ t.url = c.tick.url
        /\ t.failed = c.tick.failed
    BY <1>20, <1>1 DEF TickTypes
  <2> HIDE DEF t
  <2>2. c' = Moved("archived", t, c.archiveRetry, c.running, c.paused)
    BY <2>1, <1>1 DEF Memories, Moved
  <2>3. c'.pc = "archived" /\ c'.tick = t => MovesOn
    BY <1>20, <1>1, <2>5 DEF ArchiveCancelled, At, MovesOn, Inv, Control, SameTick, Finishing,
       Archiving
  <2>4. other' = other /\ config' = config /\ "archived" \in ControlStates
    BY <1>20, <1>1 DEF ArchiveCancelled, At, SameOther, ControlStates
  <2> QED
    BY <2>1, <2>2, <2>3, <2>4, <2>5, <1>1, <1>2, <1>3, MovedOn
<1>21. CASE ArchivesFatal
  <2> DEFINE a == (IF c.tick.failed THEN FALSE ELSE c.archiveRetry)
  <2>1. c' = [c EXCEPT !.archiveRetry = a, !.pc = "end"] /\ db' = db /\ past' = past
    BY <1>21, <1>1 DEF ArchivesFatal, At, Goto, Then, Become, World, GiveUpArchives, Memories
  <2>7. a \in BOOLEAN /\ (a => c.archiveRetry)
    BY <1>1
  <2> HIDE DEF a
  <2>2. c' = Moved("end", c.tick, a, c.running, c.paused)
    BY <2>1, <1>1 DEF Memories, Moved
  <2>3. c'.pc = "end" /\ c'.tick = c.tick => MovesOn
    BY <1>21, <1>1 DEF ArchivesFatal, At, MovesOn, Inv, Control, SameTick, Finishing, Archiving
  <2>4. other' = other /\ config' = config /\ "end" \in ControlStates
    BY <1>21, <1>1 DEF ArchivesFatal, At, SameOther, ControlStates
  <2> QED
    BY <2>1, <2>2, <2>3, <2>4, <2>7, <1>1, <1>2, <1>3, MovedOn
<1> QED
  BY <1>4, <1>5, <1>6, <1>7, <1>8, <1>9, <1>10, <1>11, <1>12, <1>13, <1>14, <1>15, <1>16,
     <1>17, <1>18, <1>19, <1>20, <1>21

-----------------------------------------------------------------------------
(* Covered URLs stay covered.                                               *)

Grows ==
  /\ \A u \in Urls : db.success[u] => db'.success[u]
  /\ past.skipped \subseteq past'.skipped /\ past.foreign \subseteq past'.foreign
  /\ past.base <= past'.base

\* The IDs up to one of the list.
LEMMA IdUrls ==
  ASSUME CrawlerAssumption, NEW n \in Ids
  PROVE  1 .. n \subseteq Urls /\ 1 .. (n - 1) \subseteq Urls /\ (n # 0 => n \in Urls) /\ Urls \subseteq Ids
BY DEF CrawlerAssumption, Ids, Urls

\* What is known of a URL stays known.
LEMMA KnownStays ==
  ASSUME CrawlerAssumption, TypeOK, TypeOK', Grows, NEW u \in Urls, Known(u)
  PROVE  Known(u)'
<1>1. past.base \in Int /\ past'.base \in Int /\ u \in Int
  BY DEF TypeOK, Pasts, Ids, Urls
<1> QED
  BY <1>1 DEF Known, Grows

\* A URL that is covered stays covered; a lock that is left behind may be taken by
\* another crawler only.
LEMMA CoveredStays ==
  ASSUME CrawlerAssumption, TypeOK, TypeOK', Grows,
         past.left \subseteq past'.left \cup past'.foreign,
         NEW n \in Ids, CoveredTo(n) \/ CoveredTo(n - 1)
  PROVE  (CoveredTo(n) => CoveredTo(n)') /\ (CoveredTo(n - 1) => CoveredTo(n - 1)')
<1>1. \A u \in Urls : Covered(u) => Covered(u)'
  BY KnownStays DEF Covered, Known
<1> QED
  BY <1>1, IdUrls DEF CoveredTo

\* A step that keeps the place of the crawler, while more is known.
LEMMA PositionsGrow ==
  ASSUME CrawlerAssumption, TypeOK, TypeOK', Positions, config' = config, SamePlaces, Grows,
         past.left \subseteq past'.left \cup past'.foreign, c'.manualOff = c.manualOff,
         c'.tick.url \in {0, c.tick.url}
  PROVE  Positions'
<1>1. c.last \in Ids /\ c.restore \in Ids /\ c.nextUrl \in Ids /\ c.tick.url \in Ids
  BY DEF TypeOK, Memories, TickTypes
<1>2. \A n \in Ids : (CoveredTo(n) => CoveredTo(n)') /\ (CoveredTo(n - 1) => CoveredTo(n - 1)')
  BY CoveredStays
<1>3. CoveredTo(c.last)'
  BY <1>1, <1>2 DEF Positions, SamePlaces
<1>4. (~c.manualOff => CoveredTo(c.restore))'
  BY <1>1, <1>2 DEF Positions, SamePlaces
<1>5. (c.manualOff /\ ~c.warped =>
         \A x \in {c.nextUrl, c.tick.url} \ {0} :
           x >= c.last /\ CoveredTo(x - 1) /\ (x = c.last => Known(x)))'
  <2> SUFFICES ASSUME c.manualOff, ~c.warped, NEW x \in {c.nextUrl, c.tick.url} \ {0}
               PROVE  x >= c.last /\ CoveredTo(x - 1)' /\ (x = c.last => Known(x)')
    BY DEF SamePlaces
  <2>1. x >= c.last /\ CoveredTo(x - 1) /\ (x = c.last => Known(x))
    BY DEF Positions
  <2>2. x \in Ids /\ x \in Urls
    BY <1>1, IdUrls
  <2> QED
    BY <2>1, <2>2, <1>2, KnownStays
<1>6. (config.archives /\ ~c.warped /\ c.last \in {c.tick.url, c.nextUrl} \ {0} =>
         c.penultimate <= c.last)'
  BY DEF Positions, SamePlaces
<1> QED
  BY <1>3, <1>4, <1>5, <1>6 DEF Positions

-----------------------------------------------------------------------------
(* The selection of a URL.                                                  *)

\* The memory and the tables before a step.
LEMMA WorldFacts ==
  ASSUME TypeOK
  PROVE  /\ World \in Worlds /\ World.c = c /\ World.db = db /\ World.past = past
         /\ World.db.last = World.c.last
BY DEF TypeOK, World, Worlds

\* A crawler that has been sent to another ID gives up the URL it is at; otherwise it
\* goes on in its mode.
LEMMA TickKeeps ==
  ASSUME CrawlerAssumption, TypeOK, Inv, Tick
  PROVE  TypeOK' /\ Inv'
<1> DEFINE p == IF c.last > 0 THEN "auto" ELSE "manual"
<1>1. /\ c.pc = "tick" /\ c.running /\ ~c.paused /\ config' = config /\ other' = other
      /\ Become(Then(IF c.warped THEN Jumped ELSE World, p))
  BY DEF Tick, At, SameOther
<1>2. /\ c \in Memories /\ db \in Tables /\ past \in Pasts /\ p \in ControlStates
      /\ 0 \in Ids /\ c.last \in Ids /\ db.lock \in [Urls -> LockTimes]
      /\ c.lockTime \in LockTimes
  BY DEF TypeOK, Memories, Tables, ControlStates, Ids, CrawlerAssumption
<1>3. c.tick = NoTick /\ c.tick.url = 0
  BY <1>1 DEF Inv, Control, NoTick
<1>4. c.last > 0 \/ c.last = 0
  BY <1>2 DEF Ids
<1>5. CASE ~c.warped
  <2>1. c' = [c EXCEPT !.pc = p] /\ db' = db /\ past' = past
    BY <1>1, <1>5 DEF Then, Become, World
  <2> HIDE DEF p
  <2>2. /\ c' \in Memories /\ c'.pc = p /\ c'.tick = c.tick /\ c'.retryCounter = c.retryCounter
        /\ SameModes /\ SamePlaces /\ c'.lockTime = c.lockTime /\ c'.archiveRetry = c.archiveRetry
        /\ c'.running = c.running
    BY <2>1, <1>2 DEF Memories, SameModes, SamePlaces
  <2>3. TypeOK'
    BY <1>1, <2>1, <2>2 DEF TypeOK, SamePlaces
  <2>4. SameMarks /\ SameLocks
    BY <2>1, <2>2, <1>1 DEF SameMarks, SameLocks
  <2>5. Positions'
    BY <1>1, <2>2, <2>4, PositionsStay DEF Inv, SameModes
  <2>6. Control' /\ ContentFirst'
    BY <1>1, <1>3, <1>5, <2>2, <2>4 DEF Inv, Control, ContentFirst, SamePlaces, SameMarks, p,
       Selecting, Archiving, Finishing, UrlStates
  <2>7. Modes'
    BY <1>1, <1>3, <1>4, <1>5, <2>2 DEF Inv, Modes, ManualDone, SameModes, SamePlaces, p,
       Selecting
  <2>8. Locks'
    BY <1>1, <2>1, <2>2, <2>4 DEF Inv, Locks, Alive, Current, SameModes, SamePlaces, SameLocks,
       p, Archiving, Finishing, UrlStates
  <2> QED
    BY <2>3, <2>5, <2>6, <2>7, <2>8 DEF Inv
<1>6. CASE c.warped
  <2> DEFINE u == IF c.manualUrl > 0 THEN c.manualUrl ELSE c.nextUrl
  <2>1. PICK b : b = IF u > 0 /\ c.lockTime # NoLock THEN Unlock(World, u) ELSE World
    OBVIOUS
  <2>2. Jumped = [b EXCEPT !.c.manualUrl = 0, !.c.nextUrl = 0, !.c.warped = FALSE]
    BY <2>1 DEF Jumped
  <2>3. u \in Ids /\ (u > 0 => u \in Urls)
    BY <1>2 DEF Memories, Ids, Urls
  <2> HIDE DEF u
  <2>4. /\ b \in Worlds /\ b.past = past /\ SameThread(World, b) /\ SamePlace(World, b)
        /\ b.c.pc = c.pc /\ b.c.tick = c.tick /\ b.c.retryCounter = c.retryCounter
        /\ b.c.archiveRetry = c.archiveRetry /\ b.c.lockTime = c.lockTime
        /\ b.db.success = db.success /\ b.db.last = b.c.last
        /\ b.db.lock = IF u > 0 /\ Mine(World, u) THEN [db.lock EXCEPT ![u] = Passed] ELSE db.lock
    <3>1. CASE u > 0 /\ c.lockTime # NoLock
      <4>1. b = Unlock(World, u)
        BY <2>1, <3>1
      <4>2. /\ b \in Worlds /\ b.db.last = b.c.last /\ b.past = World.past
            /\ SameThread(World, b) /\ SamePlace(World, b)
            /\ b.c.pc = IF World.c.lockTime = NoLock THEN "thrown" ELSE World.c.pc
            /\ b.c.tick = World.c.tick
            /\ b.c.retryCounter = World.c.retryCounter
            /\ b.c.archiveRetry = World.c.archiveRetry
            /\ b.c.lockTime = World.c.lockTime
            /\ Unlocks(World, b, u) /\ b.db.success = World.db.success
        BY <4>1, <2>3, <3>1, WorldFacts, UnlockEffect
      <4> QED
        BY <4>2, <3>1, WorldFacts DEF Unlocks
    <3>2. CASE ~(u > 0 /\ c.lockTime # NoLock)
      <4>1. b = World
        BY <2>1, <3>2
      <4>2. u > 0 => ~Mine(World, u)
        <5> SUFFICES ASSUME u > 0 PROVE ~Mine(World, u)
          OBVIOUS
        <5>1. c.lockTime = NoLock /\ db.lock[u] \in LockTimes
          BY <3>2, <2>3, <1>2
        <5> QED
          BY <5>1, WorldFacts DEF Mine, NoLock, Passed, LockTimes, NoRow, CrawlerAssumption
      <4> QED
        BY <4>1, <4>2, WorldFacts DEF SameThread, SamePlace
    <3> QED
      BY <3>1, <3>2
  <2>5. b.c \in Memories /\ b.db \in Tables
    BY <2>4 DEF Worlds
  <2>6. /\ c' = [b.c EXCEPT !.manualUrl = 0, !.nextUrl = 0, !.warped = FALSE, !.pc = p]
        /\ db' = b.db /\ past' = past
    <3>1. Become(Then([b EXCEPT !.c.manualUrl = 0, !.c.nextUrl = 0, !.c.warped = FALSE], p))
      BY <1>1, <1>6, <2>2
    <3> QED
      BY <3>1, <2>4, <1>1 DEF Then, Become, Worlds, Memories
  <2> HIDE DEF p
  <2>7. /\ c' \in Memories /\ c'.pc = p /\ c'.tick = c.tick /\ c'.retryCounter = c.retryCounter
        /\ c'.manualUrl = 0 /\ c'.nextUrl = 0 /\ c'.warped = FALSE
        /\ c'.manualCounter = c.manualCounter /\ c'.startCrawled = c.startCrawled
        /\ c'.manualOff = c.manualOff /\ c'.last = c.last /\ c'.restore = c.restore
        /\ c'.lockTime = c.lockTime /\ c'.archiveRetry = c.archiveRetry
        /\ c'.running = c.running
    BY <2>4, <2>5, <2>6, <1>2, WorldFacts, ZenonT(60) DEF Memories, SameThread, SamePlace
  <2>8. /\ db' \in Tables /\ db'.last = db.last /\ db'.success = db.success /\ db'.saved = db.saved
        /\ db'.lock = IF u > 0 /\ Mine(World, u) THEN [db.lock EXCEPT ![u] = Passed] ELSE db.lock
    BY <2>4, <2>5, <2>6, WorldFacts DEF SameThread, SamePlace
  <2>9. TypeOK'
    BY <1>1, <2>6, <2>7, <2>8 DEF TypeOK
  <2>10. Control' /\ ContentFirst'
    BY <1>1, <1>3, <2>6, <2>7, <2>8 DEF Inv, Control, ContentFirst, p, Selecting, Archiving,
       Finishing, UrlStates
  <2>11. Modes'
    BY <1>1, <1>3, <1>4, <2>7 DEF Inv, Modes, ManualDone, p, Selecting
  <2>12. Positions'
    <3>1. \A n : CoveredTo(n)' <=> CoveredTo(n)
      BY <2>6, <2>8 DEF CoveredTo, Covered, Known
    <3> QED
      BY <3>1, <1>1, <1>3, <2>7 DEF Inv, Positions
  <2>13. Locks'
    <3>1. \A x \in Urls : db.lock[x] \in LockTimes /\ db'.lock[x] \in LockTimes
      BY <1>2, <2>8 DEF Tables
    <3>2. \A x \in Alive' \ past'.left : config.archives /\ x \in past.skipped
      <4> SUFFICES ASSUME NEW x \in Urls, db'.lock[x] >= 0, other[x] # "holds", x \notin past.left,
                          ~(config.archives /\ x \in past.skipped)
                   PROVE  FALSE
        BY <1>1, <2>6 DEF Alive
      <4>1. ~(u = x /\ u > 0 /\ Mine(World, u))
        BY <2>8, <1>2 DEF Passed
      <4>2. db'.lock[x] = db.lock[x]
        BY <4>1, <2>8, <1>2
      <4>3. c.lockTime # NoLock /\ x = Current
        BY <4>2 DEF Inv, Locks, Alive
      <4>4. x > 0
        BY DEF Urls
      <4>5. u = x
        BY <4>3, <4>4, <1>2 DEF u, Current, Inv, Modes
      <4>6. db.lock[x] <= c.lockTime
        BY <4>3 DEF Inv, Locks
      <4> QED
        BY <4>1, <4>2, <4>4, <4>5, <4>6, <3>1, <1>2, WorldFacts DEF Mine, Passed, LockTimes,
           NoRow, CrawlerAssumption
    <3>3. c'.pc \notin UrlStates \cup {"end", "next"}
      BY <2>7 DEF p, UrlStates, Finishing, Archiving
    <3>4. Current' = 0 /\ 0 \notin Urls
      BY <2>7 DEF Current, Urls
    <3> QED
      BY <3>2, <3>3, <3>4, <1>1, <2>6 DEF Inv, Locks
  <2> QED
    BY <2>9, <2>10, <2>11, <2>12, <2>13 DEF Inv
<1> QED
  BY <1>5, <1>6, <1>2 DEF Memories

\* A custom page that has been crawled before, and the start page if it has been.
LEMMA ManualModeKeeps ==
  ASSUME CrawlerAssumption, TypeOK, Inv, NextCustomCrawled \/ StartPageDone
  PROVE  TypeOK' /\ Inv'
<1>1. /\ c \in Memories /\ config' = config /\ other' = other
      /\ c.manualCounter \in PageNumbers /\ c.last \in Ids
  BY DEF TypeOK, Memories, NextCustomCrawled, StartPageDone, At, SameOther
<1>2. CASE NextCustomCrawled
  <2>1. /\ c' = [c EXCEPT !.manualCounter = c.manualCounter + 1] /\ db' = db /\ past' = past
        /\ c.pc = "custom" /\ c.manualCounter < Len(CustomPages)
    BY <1>1, <1>2 DEF NextCustomCrawled, At, Become, World, Memories
  <2>2. c.manualCounter + 1 \in PageNumbers
    <3>1. Len(CustomPages) \in Nat
      BY LenProperties DEF CrawlerAssumption
    <3> QED
      BY <1>1, <2>1, <3>1 DEF PageNumbers
  <2>3. /\ c' \in Memories /\ c'.pc = c.pc /\ c'.tick = c.tick /\ c'.retryCounter = c.retryCounter
        /\ c'.manualUrl = c.manualUrl /\ c'.startCrawled = c.startCrawled
        /\ c'.manualOff = c.manualOff
        /\ SamePlaces /\ c'.lockTime = c.lockTime /\ c'.archiveRetry = c.archiveRetry
        /\ c'.running = c.running
    BY <2>1, <2>2, <1>1 DEF Memories, SamePlaces
  <2>4. TypeOK'
    BY <1>1, <2>1, <2>3 DEF TypeOK, SamePlaces
  <2>5. SameMarks /\ SameLocks
    BY <2>1, <2>3, <1>1 DEF SameMarks, SameLocks
  <2>6. Positions'
    BY <1>1, <2>3, <2>5, PositionsStay DEF Inv
  <2>7. Control' /\ ContentFirst'
    BY <1>1, <2>1, <2>3, <2>5 DEF Inv, Control, ContentFirst, SamePlaces, SameMarks
  <2>8. Modes'
    <3>1. c.last = 0 /\ ~c.manualOff
      <4>1. c.manualCounter # Len(CustomPages)
        BY <1>1, <2>1, LenProperties DEF PageNumbers, CrawlerAssumption
      <4> QED
        BY <2>1, <4>1 DEF Inv, Modes, ManualDone
    <3> QED
      BY <1>1, <2>1, <2>3, <3>1 DEF Inv, Modes, SamePlaces
  <2>9. Locks'
    BY <1>1, <2>1, <2>3, <2>5 DEF Inv, Locks, Alive, Current, SamePlaces, SameLocks, UrlStates,
       Finishing, Archiving
  <2> QED
    BY <2>4, <2>6, <2>7, <2>8, <2>9 DEF Inv
<1>3. CASE StartPageDone
  <2> DEFINE s == c.startCrawled \/ ~config.startIgnore
  <2>1. /\ c' = [c EXCEPT !.pc = "auto", !.startCrawled = s] /\ db' = db /\ past' = past
        /\ c.pc = "start" /\ s \in BOOLEAN
    BY <1>1, <1>3 DEF StartPageDone, At, Become, World, Memories
  <2>2. "auto" \in ControlStates /\ (config.startIgnore \/ s)
    BY DEF ControlStates
  <2> HIDE DEF s
  <2>3. /\ c' \in Memories /\ c'.pc = "auto" /\ c'.tick = c.tick
        /\ c'.retryCounter = c.retryCounter
        /\ c'.manualUrl = c.manualUrl /\ c'.startCrawled = s
        /\ c'.manualCounter = c.manualCounter /\ c'.manualOff = c.manualOff
        /\ SamePlaces /\ c'.lockTime = c.lockTime /\ c'.archiveRetry = c.archiveRetry
        /\ c'.running = c.running
    BY <2>1, <2>2, <1>1 DEF Memories, SamePlaces
  <2>4. TypeOK'
    BY <1>1, <2>1, <2>3 DEF TypeOK, SamePlaces
  <2>5. SameMarks /\ SameLocks
    BY <2>1, <2>3, <1>1 DEF SameMarks, SameLocks
  <2>6. Positions'
    BY <1>1, <2>3, <2>5, PositionsStay DEF Inv
  <2>7. Control' /\ ContentFirst'
    BY <1>1, <2>1, <2>3, <2>5 DEF Inv, Control, ContentFirst, SamePlaces, SameMarks, Selecting,
       Archiving, Finishing, UrlStates
  <2>8. Modes'
    BY <1>1, <2>1, <2>2, <2>3 DEF Inv, Modes, ManualDone, SamePlaces, Selecting
  <2>9. Locks'
    BY <1>1, <2>1, <2>3, <2>5 DEF Inv, Locks, Alive, Current, SamePlaces, SameLocks, UrlStates,
       Finishing, Archiving
  <2> QED
    BY <2>4, <2>6, <2>7, <2>8, <2>9 DEF Inv
<1> QED
  BY <1>2, <1>3

\* The first URL of automatic mode: manual mode may have been a restart.
LEMMA AutoStartKeeps ==
  ASSUME CrawlerAssumption, TypeOK, Inv, AutoStart
  PROVE  TypeOK' /\ Inv'
<1> DEFINE l == IF c.restore > 0 THEN c.restore ELSE c.last
<1>1. /\ c \in Memories /\ db \in Tables /\ config' = config /\ other' = other
      /\ c.pc = "auto" /\ ~c.manualOff /\ c.restore \in Ids /\ c.last \in Ids /\ 0 \in Ids
      /\ db.last = c.last /\ l \in Ids
  BY DEF AutoStart, TypeOK, Memories, At, SameOther, Ids, CrawlerAssumption
<1>2. c.tick = NoTick /\ c.tick.url = 0 /\ c.manualUrl = 0
  BY <1>1 DEF Inv, Control, Modes, NoTick, Selecting
<1>3. /\ c' = [c EXCEPT !.manualOff = TRUE, !.nextUrl = 0, !.restore = 0, !.last = l]
      /\ db' = [db EXCEPT !.last = l] /\ past' = past
  <2>1. CASE c.restore > 0
    <3>1. Become(SetLast([World EXCEPT !.c.manualOff = TRUE, !.c.nextUrl = 0, !.c.restore = 0], c.restore))
      BY <2>1 DEF AutoStart
    <3> QED
      BY <2>1, <3>1, <1>1 DEF Become, SetLast, World, Memories, Tables
  <2>2. CASE ~(c.restore > 0)
    <3>1. Become([World EXCEPT !.c.manualOff = TRUE, !.c.nextUrl = 0, !.c.restore = 0])
      BY <2>2 DEF AutoStart
    <3>2. c' = [c EXCEPT !.manualOff = TRUE, !.nextUrl = 0, !.restore = 0] /\ db' = db /\ past' = past
      BY <3>1 DEF Become, World
    <3>3. c' = [c EXCEPT !.manualOff = TRUE, !.nextUrl = 0, !.restore = 0, !.last = l]
      BY <2>2, <3>2, <1>1 DEF Memories
    <3>4. db' = [db EXCEPT !.last = l]
      BY <2>2, <3>2, <1>1 DEF Tables
    <3> QED
      BY <3>2, <3>3, <3>4
  <2> QED
    BY <2>1, <2>2
<1>4. (l = c.restore /\ l > 0) \/ (l = c.last /\ c.restore = 0)
  BY <1>1 DEF Ids
<1> HIDE DEF l
<1>5. /\ c' \in Memories /\ c'.pc = c.pc /\ c'.tick = c.tick /\ c'.retryCounter = c.retryCounter
      /\ c'.manualUrl = 0 /\ c'.startCrawled = c.startCrawled
      /\ c'.manualCounter = c.manualCounter /\ c'.manualOff = TRUE
      /\ c'.last = l /\ c'.nextUrl = 0 /\ c'.warped = c.warped
      /\ c'.lockTime = c.lockTime /\ c'.archiveRetry = c.archiveRetry /\ c'.running = c.running
  BY <1>1, <1>2, <1>3 DEF Memories
<1>6. db' \in Tables /\ db'.last = l /\ db'.lock = db.lock /\ db'.success = db.success
      /\ db'.saved = db.saved
  BY <1>1, <1>3 DEF Tables
<1>7. TypeOK'
  BY <1>1, <1>3, <1>5, <1>6 DEF TypeOK
<1>8. Control' /\ ContentFirst'
  BY <1>1, <1>2, <1>3, <1>5, <1>6 DEF Inv, Control, ContentFirst
<1>9. Modes'
  <2>1. c'.last = 0 => ManualDone
    BY <1>1, <1>4, <1>5 DEF Inv, Modes, Ids
  <2> QED
    BY <2>1, <1>1, <1>2, <1>5 DEF Inv, Modes, ManualDone
<1>10. Positions'
  <2>1. \A n : CoveredTo(n)' <=> CoveredTo(n)
    BY <1>3, <1>6 DEF CoveredTo, Covered, Known
  <2> QED
    BY <2>1, <1>1, <1>2, <1>4, <1>5 DEF Inv, Positions
<1>11. Locks'
  <2>1. c'.pc \notin UrlStates \cup {"end", "next"}
    BY <1>1, <1>5 DEF UrlStates, Finishing, Archiving
  <2>2. Current' = 0 /\ Current = 0
    BY <1>1, <1>2, <1>5 DEF Current
  <2>3. Alive' = Alive
    BY <1>1, <1>6 DEF Alive
  <2> QED
    BY <2>1, <2>2, <2>3, <1>1, <1>3, <1>5, <1>6 DEF Inv, Locks, Urls
<1> QED
  BY <1>7, <1>8, <1>9, <1>10, <1>11 DEF Inv

-----------------------------------------------------------------------------
(* Locking a URL.                                                           *)

\* The URL is locked by the crawler.
Takes(u) ==
  /\ db' = [db EXCEPT !.lock = [db.lock EXCEPT ![u] = NewLock]]
  /\ past' = [past EXCEPT !.left = past.left \ {u}]
  /\ other' = [other EXCEPT ![u] = IF @ = "holds" THEN "lost" ELSE @]
  /\ NewLock <= MaxLock /\ c'.lockTime = NewLock
\* The URL is locked by somebody else.
Misses(u) ==
  ~Lockable(u) /\ db' = db /\ past' = past /\ other' = other /\ c'.lockTime = NoLock

\* A URL is either locked, or found locked.
LEMMA TryLockEffect ==
  ASSUME CrawlerAssumption, TypeOK, NEW u \in Urls, NEW w \in Worlds, NEW v \in Worlds,
         w.db = db, v.db = db, w.past = past, v.past = past, TryLock(u, w, v)
  PROVE  \/ Takes(u) /\ c' = [w.c EXCEPT !.lockTime = NewLock]
         \/ Misses(u) /\ c' = [v.c EXCEPT !.lockTime = NoLock]
<1>1. w.c \in Memories /\ v.c \in Memories /\ db \in Tables /\ past \in Pasts
  BY DEF TypeOK, Worlds
<1>2. CASE /\ Lockable(u) /\ NewLock <= MaxLock
           /\ Become(Locked(w, u))
           /\ other' = [other EXCEPT ![u] = IF @ = "holds" THEN "lost" ELSE @]
  <2>1. PICK r : r = Locked(w, u)
    OBVIOUS
  <2>2. /\ r.c = [w.c EXCEPT !.lockTime = NewLock]
        /\ r.db = [db EXCEPT !.lock = [db.lock EXCEPT ![u] = NewLock]]
        /\ r.past = [past EXCEPT !.left = past.left \ {u}]
    BY <2>1, <1>1 DEF Locked, Worlds, Tables, Pasts
  <2>3. c' = r.c /\ db' = r.db /\ past' = r.past
    BY <1>2, <2>1 DEF Become
  <2>4. c'.lockTime = NewLock
    BY <2>2, <2>3, <1>1 DEF Memories
  <2> QED
    BY <1>2, <2>2, <2>3, <2>4 DEF Takes
<1>3. CASE ~Lockable(u) /\ Become(LoseLock(v)) /\ SameOther
  <2>1. c' = [v.c EXCEPT !.lockTime = NoLock] /\ db' = db /\ past' = past
    BY <1>3 DEF Become, LoseLock, Worlds
  <2>2. c'.lockTime = NoLock
    BY <2>1, <1>1 DEF Memories
  <2> QED
    BY <1>3, <2>1, <2>2 DEF Misses, SameOther
<1> QED
  BY <1>2, <1>3 DEF TryLock

\* The lock time is after the one before, and what is locked stays so.
LEMMA TakesFacts ==
  ASSUME CrawlerAssumption, TypeOK, NEW u \in Urls, Takes(u)
  PROVE  /\ NewLock \in LockTimes /\ NewLock >= 0 /\ NewLock # NoLock
         /\ db' \in Tables /\ db'.last = db.last /\ db'.success = db.success
         /\ db'.saved = db.saved /\ db'.lock = [db.lock EXCEPT ![u] = NewLock]
         /\ past' \in Pasts /\ past'.skipped = past.skipped /\ past'.foreign = past.foreign
         /\ past'.base = past.base /\ past'.left = past.left \ {u}
         /\ other' \in [Urls -> {"none", "holds", "lost"}]
         /\ other'[u] # "holds" /\ \A x \in Urls \ {u} : other'[x] = other[x]
<1>1. /\ c \in Memories /\ db \in Tables /\ past \in Pasts /\ c.lockTime \in LockTimes
      /\ other \in [Urls -> {"none", "holds", "lost"}] /\ db.lock \in [Urls -> LockTimes]
  BY DEF TypeOK, Memories, Tables
<1>2. NewLock \in LockTimes /\ NewLock >= 0 /\ NewLock # NoLock
  BY <1>1 DEF Takes, NewLock, LockTimes, NoRow, NoLock, CrawlerAssumption
<1>3. [db.lock EXCEPT ![u] = NewLock] \in [Urls -> LockTimes]
  BY <1>1, <1>2
<1>4. past.left \ {u} \in SUBSET Urls
  BY <1>1 DEF Pasts
<1>5. /\ db' \in Tables /\ db'.last = db.last /\ db'.success = db.success
      /\ db'.saved = db.saved /\ db'.lock = [db.lock EXCEPT ![u] = NewLock]
  BY <1>1, <1>3 DEF Takes, Tables
<1>6. /\ past' \in Pasts /\ past'.skipped = past.skipped /\ past'.foreign = past.foreign
      /\ past'.base = past.base /\ past'.left = past.left \ {u}
  BY <1>1, <1>4 DEF Takes, Pasts
<1>7. other' \in [Urls -> {"none", "holds", "lost"}]
      /\ other'[u] # "holds" /\ \A x \in Urls \ {u} : other'[x] = other[x]
  BY <1>1 DEF Takes
<1> QED
  BY <1>2, <1>5, <1>6, <1>7

\* What is locked by nobody else, once this URL is, has been skipped.
LEMMA MissedLocks ==
  ASSUME CrawlerAssumption, TypeOK, Locks, NEW u \in Urls, ~Lockable(u), Current \in {0, u}
  PROVE  \A x \in Alive \ past.left : config.archives /\ x \in past.skipped
<1> SUFFICES ASSUME NEW x \in Alive \ past.left, ~(config.archives /\ x \in past.skipped)
             PROVE  FALSE
  OBVIOUS
<1>1. c.lockTime # NoLock /\ x = Current /\ x \in Urls
  BY DEF Locks, Alive
<1>2. x = u
  BY <1>1 DEF Urls
<1>3. c.lockTime \in LockTimes /\ db.lock[u] \in LockTimes /\ db.lock[u] >= 0
  BY <1>2 DEF Alive, TypeOK, Memories, Tables
<1>4. ~Mine(World, u)
  BY <1>1 DEF Lockable
<1>5. db.lock[u] > c.lockTime
  BY <1>3, <1>4, WorldFacts DEF Mine, LockTimes, NoRow, Passed, CrawlerAssumption
<1>6. other[u] # "holds"
  BY <1>2 DEF Alive
<1>7. db.lock[u] <= c.lockTime
  BY <1>1, <1>2, <1>6 DEF Locks
<1> QED
  BY <1>3, <1>5, <1>7 DEF LockTimes, NoRow, CrawlerAssumption

\* The crawler locks the URL it is at: what it had left is covered no less.
LEMMA TakesKeepsPositions ==
  ASSUME CrawlerAssumption, TypeOK, TypeOK', Positions, config' = config, SamePlaces,
         NEW u \in Urls, Takes(u), ~c.warped, c'.manualOff = c.manualOff,
         c.manualOff => u \in {c.nextUrl, c.tick.url} /\ {c.nextUrl, c'.tick.url} \subseteq {0,
         u},
         ~c.manualOff => u \in Manual /\ c.last = 0,
         c'.tick.url \in {c.tick.url, u}
  PROVE  Positions'
<1>1. /\ c.last \in Ids /\ c.restore \in Ids /\ c.nextUrl \in Ids /\ c.tick.url \in Ids
      /\ u \in Int /\ 0 \notin Urls
  BY DEF TypeOK, Memories, TickTypes, Urls
<1>2. \A x \in Urls : Known(x) <=> Known(x)'
  BY TakesFacts DEF Known
<1>3. \A x \in Urls \ {u} : Covered(x) => Covered(x)'
  BY <1>2, TakesFacts DEF Covered
<1>4. CASE c.manualOff
  <2>1. u >= c.last /\ CoveredTo(u - 1) /\ (u = c.last => Known(u))
    BY <1>1, <1>4 DEF Positions
  <2>2. CoveredTo(u - 1)'
    <3> SUFFICES ASSUME NEW x \in 1 .. (u - 1) PROVE Covered(x)'
      BY DEF CoveredTo
    <3>1. x \in Urls /\ x < u
      BY <1>1 DEF Urls, CrawlerAssumption
    <3> QED
      BY <1>3, <2>1, <3>1 DEF CoveredTo
  <2>3. CoveredTo(c.last)'
    <3> SUFFICES ASSUME NEW x \in 1 .. c.last PROVE Covered(x)'
      BY DEF CoveredTo, SamePlaces
    <3>1. x \in Urls /\ Covered(x)
      BY <1>1, IdUrls DEF Positions, CoveredTo
    <3>2. x = u => Known(u)
      BY <1>1, <2>1 DEF Ids
    <3> QED
      BY <1>2, <1>3, <3>1, <3>2 DEF Covered
  <2> QED
    BY <1>1, <1>2, <1>4, <2>1, <2>2, <2>3 DEF Positions, SamePlaces
<1>5. CASE ~c.manualOff
  <2>1. \A x \in Urls : Covered(x) => Covered(x)'
    BY <1>2, <1>3, <1>5 DEF Covered, Known
  <2>2. \A n \in Ids : CoveredTo(n) => CoveredTo(n)'
    BY <2>1, IdUrls DEF CoveredTo
  <2> QED
    BY <1>1, <1>5, <2>2 DEF Positions, SamePlaces
<1> QED
  BY <1>4, <1>5

\* The tick has found a URL and locked it.
LEMMA SelectKeeps ==
  ASSUME CrawlerAssumption, TypeOK, Inv, NEW u \in Urls, Takes(u), Current \in {0, u},
         c.pc \in Selecting, config' = config, c' \in Memories, c'.pc = "content",
         c'.tick.url = u, SamePlaces, c'.manualCounter = c.manualCounter,
         c'.startCrawled = c.startCrawled, c'.manualOff = c.manualOff,
         c'.retryCounter = c.retryCounter, c'.archiveRetry = c.archiveRetry,
         c'.running = c.running, c'.manualUrl = IF c.manualOff THEN 0 ELSE u,
         c.manualOff => c.nextUrl = u, ~c.manualOff => u \in Manual /\ c.last = 0
  PROVE  TypeOK' /\ Inv'
<1>0. /\ NewLock \in LockTimes /\ NewLock >= 0 /\ NewLock # NoLock
      /\ db' \in Tables /\ db'.last = db.last /\ db'.success = db.success
      /\ db'.saved = db.saved /\ db'.lock = [db.lock EXCEPT ![u] = NewLock]
      /\ past' \in Pasts /\ past'.skipped = past.skipped /\ past'.foreign = past.foreign
      /\ past'.left = past.left \ {u}
      /\ other' \in [Urls -> {"none", "holds", "lost"}]
      /\ other'[u] # "holds" /\ \A x \in Urls \ {u} : other'[x] = other[x]
  BY TakesFacts
<1>1. c.tick = NoTick /\ c.tick.url = 0 /\ ~c.warped /\ u > 0
  BY DEF Inv, Control, NoTick, Selecting, Urls
<1>2. TypeOK'
  BY <1>0 DEF TypeOK, SamePlaces
<1>3. Control'
  BY <1>1 DEF Inv, Control, Selecting, Archiving, Finishing, UrlStates, SamePlaces
<1>4. ContentFirst'
  BY <1>0 DEF Inv, ContentFirst, Archiving, Finishing
<1>5. Modes'
  BY <1>1 DEF Inv, Modes, ManualDone, SamePlaces, Selecting
<1>6. Positions'
  BY <1>1, <1>2, TakesKeepsPositions DEF Inv
<1>7. Locks'
  <2>1. Current' = u
    BY DEF Current, SamePlaces
  <2>2. \A x \in Urls : other'[x] = "holds" => x \in past'.foreign
    BY <1>0 DEF Inv, Locks
  <2>3. db'.lock[u] = NewLock /\ NewLock >= 0 /\ NewLock # NoLock /\ NewLock \in LockTimes
    <3>1. db.lock \in [Urls -> LockTimes]
      BY DEF TypeOK, Tables
    <3> QED
      BY <3>1, <1>0
  <2>4. NewLock >= Passed /\ NewLock <= NewLock
    BY <2>3 DEF Passed, LockTimes, NoRow, CrawlerAssumption
  <2>5. c'.lockTime = NewLock
    BY DEF Takes
  <2>6. \A x \in Alive' \ past'.left : x = u \/ (config.archives /\ x \in past.skipped)
    <3> SUFFICES ASSUME NEW x \in Alive' \ past'.left, x # u
                 PROVE  config.archives /\ x \in past.skipped
      OBVIOUS
    <3>1. db.lock \in [Urls -> LockTimes]
      BY DEF TypeOK, Tables
    <3>2. x \in Alive \ past.left
      BY <3>1, <1>0 DEF Alive
    <3>3. x # Current
      BY <3>2 DEF Alive, Urls
    <3> QED
      BY <3>2, <3>3 DEF Inv, Locks
  <2>7. past'.skipped = past.skipped /\ ~(c'.pc = "next")
    BY <1>0
  <2>8. \A x \in Alive' : x \in Urls
    BY DEF Alive
  <2> QED
    BY <2>1, <2>2, <2>3, <2>4, <2>5, <2>6, <2>7, <2>8 DEF Locks
<1> QED
  BY <1>2, <1>3, <1>4, <1>5, <1>6, <1>7 DEF Inv

\* The URL that the crawler wants is locked by another one.
LEMMA MissKeeps ==
  ASSUME CrawlerAssumption, TypeOK, Inv, NEW u \in Urls, Misses(u), Current \in {0, u},
         c.pc \in Selecting, config' = config, c' \in Memories, c'.pc \in Selecting,
         c'.tick = c.tick, SamePlaces, c'.manualOff = c.manualOff,
         c'.retryCounter = c.retryCounter, c'.archiveRetry = c.archiveRetry, Modes'
  PROVE  TypeOK' /\ Inv'
<1>1. ~c.warped
  BY DEF Inv, Control, Selecting
<1>2. TypeOK'
  BY DEF TypeOK, SamePlaces, Misses
<1>3. Control'
  BY <1>1 DEF Inv, Control, Selecting, Archiving, Finishing, UrlStates, SamePlaces
<1>4. ContentFirst'
  BY DEF Inv, ContentFirst, Selecting, Archiving, Finishing, Misses
<1>5. Positions'
  <2>1. SameMarks
    BY DEF Misses, SameMarks
  <2> QED
    BY <2>1, PositionsStay DEF Inv
<1>6. Locks'
  <2>1. \A x \in Alive \ past.left : config.archives /\ x \in past.skipped
    BY MissedLocks DEF Inv, Misses
  <2>2. Alive' = Alive /\ past' = past /\ c'.lockTime = NoLock
    BY DEF Alive, Misses
  <2>3. c'.pc \notin UrlStates \cup {"end"}
    BY DEF Selecting, UrlStates, Finishing, Archiving
  <2>4. \A x \in Urls : other'[x] = "holds" => x \in past'.foreign
    BY DEF Misses, Inv, Locks
  <2> QED
    BY <2>1, <2>2, <2>3, <2>4 DEF Locks
<1> QED
  BY <1>2, <1>3, <1>4, <1>5, <1>6 DEF Inv

\* The memory of a crawler that has found a URL.
Found(u, manualUrl) ==
  [c EXCEPT !.tick = [c.tick EXCEPT !.url = u], !.pc = "content", !.manualUrl = manualUrl]
WorldOf(memory) == [c |-> memory, db |-> db, past |-> past]

\* The same tables with another memory.
LEMMA WorldOfFacts ==
  ASSUME TypeOK, NEW m \in Memories, NEW w, w = WorldOf(m)
  PROVE  w \in Worlds /\ w.c = m /\ w.db = db /\ w.past = past
BY DEF TypeOK, Worlds, WorldOf

\* The memory of a crawler that has found a URL.
LEMMA FoundFacts ==
  ASSUME CrawlerAssumption, TypeOK, NEW u \in Urls, NEW m \in Ids
  PROVE  /\ Found(u, m) \in Memories
         /\ Crawl(u) = WorldOf(Found(u, c.manualUrl))
         /\ [Crawl(u) EXCEPT !.c.manualUrl = m] = WorldOf(Found(u, m))
<1>1. c \in Memories /\ c.tick \in TickTypes /\ u \in Ids /\ "content" \in ControlStates
  BY IdUrls DEF TypeOK, Memories, ControlStates, Urls, Ids
<1>2. [c.tick EXCEPT !.url = u] \in TickTypes
  BY <1>1 DEF TickTypes
<1>3. Found(u, m) \in Memories
  BY <1>1, <1>2 DEF Found, Memories
<1>4. Crawl(u) = WorldOf([c EXCEPT !.tick = [c.tick EXCEPT !.url = u], !.pc = "content"])
  <2>1. Crawl(u) = [World EXCEPT !.c = [c EXCEPT !.tick = [c.tick EXCEPT !.url = u], !.pc = "content"]]
    BY <1>1 DEF Crawl, World, Memories
  <2> QED
    BY <2>1 DEF World, WorldOf
<1>5. [c EXCEPT !.tick = [c.tick EXCEPT !.url = u], !.pc = "content"] = Found(u, c.manualUrl)
  BY <1>1 DEF Found, Memories
<1>6. [Crawl(u) EXCEPT !.c.manualUrl = m]
        = WorldOf([[c EXCEPT !.tick = [c.tick EXCEPT !.url = u], !.pc = "content"]
                     EXCEPT !.manualUrl = m])
  BY <1>4 DEF WorldOf
<1>7. [[c EXCEPT !.tick = [c.tick EXCEPT !.url = u], !.pc = "content"] EXCEPT !.manualUrl = m]
        = Found(u, m)
  BY <1>1 DEF Found, Memories
<1> QED
  BY <1>3, <1>4, <1>5, <1>6, <1>7

\* A crawler that locks the URL it is to crawl goes on with its content.
LEMMA FoundKeeps ==
  ASSUME CrawlerAssumption, TypeOK, Inv, NEW u \in Urls, Takes(u), Current \in {0, u},
         c.pc \in Selecting, config' = config,
         c' = [Found(u, IF c.manualOff THEN 0 ELSE u) EXCEPT !.lockTime = NewLock],
         c.manualOff => c.nextUrl = u, ~c.manualOff => u \in Manual /\ c.last = 0
  PROVE  TypeOK' /\ Inv'
<1>1. PICK m : m = IF c.manualOff THEN 0 ELSE u
  OBVIOUS
<1>2. m \in Ids /\ c \in Memories /\ c.tick \in TickTypes
  BY <1>1, IdUrls DEF TypeOK, Memories, Urls, Ids, CrawlerAssumption
<1>3. Found(u, m) \in Memories /\ NewLock \in LockTimes
  BY <1>2, FoundFacts, TakesFacts
<1>4. c' = [Found(u, m) EXCEPT !.lockTime = NewLock]
  BY <1>1
<1>5. c' \in Memories
  BY <1>3, <1>4 DEF Memories
<1>6. [c.tick EXCEPT !.url = u].url = u
  BY <1>2 DEF TickTypes
<1>7. /\ c'.pc = "content" /\ c'.tick.url = u /\ SamePlaces
      /\ c'.manualCounter = c.manualCounter /\ c'.startCrawled = c.startCrawled
      /\ c'.manualOff = c.manualOff /\ c'.retryCounter = c.retryCounter
      /\ c'.archiveRetry = c.archiveRetry /\ c'.running = c.running /\ c'.manualUrl = m
  BY <1>2, <1>4, <1>6 DEF Found, Memories, SamePlaces
<1> QED
  BY <1>1, <1>5, <1>7, SelectKeeps

\* A step of manual mode that tries to lock a page.
LEMMA ManualLockKeeps ==
  ASSUME CrawlerAssumption, TypeOK, Inv, ManualRetry \/ NextCustom \/ SelectStartPage
  PROVE  TypeOK' /\ Inv'
<1>1. /\ c \in Memories /\ config' = config /\ 0 \in Ids /\ Urls \subseteq Ids
      /\ "auto" \in ControlStates /\ NoLock \in LockTimes /\ c.tick = NoTick
  BY IdUrls DEF TypeOK, ManualRetry, NextCustom, SelectStartPage, At, ControlStates, Ids, Urls,
       CrawlerAssumption, NoLock, LockTimes, NoRow, Inv, Control, Selecting
<1>2. Manual \subseteq Urls
  <2>1. \A i \in DOMAIN CustomPages : CustomPages[i] \in 1 .. FirstCount
    BY ElementOfSeq, LenProperties DEF CrawlerAssumption
  <2> QED
    BY <2>1 DEF Manual, Urls, CrawlerAssumption
<1>4. CASE ManualRetry
  <2> DEFINE u == c.manualUrl
             v == [c EXCEPT !.manualUrl = 0]
  <2>1. /\ c.pc = "manual" /\ c.running /\ u > 0
        /\ TryLock(u, Crawl(u), [World EXCEPT !.c.manualUrl = 0])
    BY <1>4 DEF ManualRetry, At
  <2>3. u \in Manual /\ u \in Urls /\ ~c.manualOff /\ c.last = 0 /\ Current = u
    BY <2>1, <1>2 DEF Inv, Modes, Current
  <2>4. Crawl(u) = WorldOf(Found(u, u)) /\ Found(u, u) \in Memories
    BY <2>3, <1>1, FoundFacts
  <2>5. [World EXCEPT !.c.manualUrl = 0] = WorldOf(v)
    BY <1>1, SMTT(60) DEF World, WorldOf, Memories
  <2>6. v \in Memories
    BY <1>1 DEF Memories
  <2>7. /\ v.tick = c.tick /\ v.manualOff = c.manualOff /\ v.retryCounter = c.retryCounter
        /\ v.archiveRetry = c.archiveRetry /\ v.running = c.running
        /\ v.last = c.last /\ v.restore = c.restore /\ v.penultimate = c.penultimate
        /\ v.nextUrl = c.nextUrl /\ v.warped = c.warped
        /\ v.pc = "manual" /\ v.manualUrl = 0 /\ v.manualCounter = c.manualCounter
        /\ v.startCrawled = c.startCrawled
    BY <2>1, <2>6, <1>1 DEF Memories
  <2> HIDE DEF v
  <2>8. CASE Takes(u) /\ c' = [Found(u, u) EXCEPT !.lockTime = NewLock]
    BY <2>1, <2>3, <2>8, <1>1, FoundKeeps DEF Selecting
  <2>9. CASE Misses(u) /\ c' = [v EXCEPT !.lockTime = NoLock]
    <3>1. c' \in Memories
      BY <2>6, <2>9, <1>1 DEF Memories
    <3>2. /\ c'.pc = v.pc /\ c'.tick = v.tick /\ c'.manualCounter = v.manualCounter
          /\ c'.startCrawled = v.startCrawled /\ c'.manualOff = v.manualOff
          /\ c'.retryCounter = v.retryCounter /\ c'.archiveRetry = v.archiveRetry
          /\ c'.running = v.running /\ c'.manualUrl = v.manualUrl
          /\ c'.last = v.last /\ c'.restore = v.restore /\ c'.penultimate = v.penultimate
          /\ c'.nextUrl = v.nextUrl /\ c'.warped = v.warped
      BY <2>6, <2>9 DEF Memories
    <3>3. SamePlaces
      BY <2>7, <3>2 DEF SamePlaces
    <3>4. Modes'
      BY <2>1, <2>3, <2>7, <3>2, <1>1 DEF Inv, Modes, ManualDone, Selecting, NoTick
    <3> QED
      BY <2>1, <2>3, <2>7, <2>9, <3>1, <3>2, <3>3, <3>4, <1>1, MissKeeps DEF Selecting
  <2> QED
    <3>1. WorldOf(Found(u, u)) \in Worlds /\ WorldOf(v) \in Worlds
          /\ WorldOf(Found(u, u)).c = Found(u, u) /\ WorldOf(v).c = v
          /\ WorldOf(Found(u, u)).db = db /\ WorldOf(v).db = db
          /\ WorldOf(Found(u, u)).past = past /\ WorldOf(v).past = past
      BY <2>4, <2>6, WorldOfFacts
    <3>2. TryLock(u, WorldOf(Found(u, u)), WorldOf(v))
      BY <2>1, <2>4, <2>5
    <3> HIDE DEF u
    <3>3. \/ Takes(u) /\ c' = [Found(u, u) EXCEPT !.lockTime = NewLock]
          \/ Misses(u) /\ c' = [v EXCEPT !.lockTime = NoLock]
      BY <2>3, <3>1, <3>2, TryLockEffect
    <3> QED
      BY <2>8, <2>9, <3>3
<1>5. CASE NextCustom
  <2> DEFINE u == CustomPages[c.manualCounter + 1]
             v == [c EXCEPT !.manualUrl = 0, !.manualCounter = c.manualCounter + 1]
  <2>1. /\ c.pc = "custom" /\ c.manualCounter < Len(CustomPages)
        /\ TryLock(u, [Crawl(u) EXCEPT !.c.manualUrl = u],
                   [World EXCEPT !.c.manualUrl = 0, !.c.manualCounter = @ + 1])
    BY <1>5 DEF NextCustom, At
  <2>2. c.manualCounter \in PageNumbers /\ c.manualCounter + 1 \in PageNumbers
        /\ c.manualCounter + 1 \in DOMAIN CustomPages /\ c.manualCounter # Len(CustomPages)
    BY <1>1, <2>1, LenProperties DEF Memories, PageNumbers, CrawlerAssumption
  <2>3. /\ u \in Manual /\ u \in Urls /\ ~ManualDone /\ c.last = 0 /\ ~c.manualOff
        /\ c.manualUrl = 0 /\ Current = 0
    <3>1. u \in Manual /\ u \in Urls
      BY <1>2, <2>2 DEF Manual
    <3> HIDE DEF u
    <3> QED
      BY <2>1, <2>2, <3>1 DEF Inv, Modes, ManualDone, Selecting, Current
  <2>4. [Crawl(u) EXCEPT !.c.manualUrl = u] = WorldOf(Found(u, u)) /\ Found(u, u) \in Memories
    BY <2>3, <1>1, FoundFacts
  <2>5. [World EXCEPT !.c.manualUrl = 0, !.c.manualCounter = @ + 1] = WorldOf(v)
    <3>1. [World EXCEPT !.c.manualUrl = 0, !.c.manualCounter = @ + 1] = [World EXCEPT !.c = v]
      BY <1>1 DEF World, Memories
    <3> QED
      BY <3>1 DEF World, WorldOf
  <2>6. v \in Memories
    BY <1>1, <2>2 DEF Memories
  <2>7. /\ v.tick = c.tick /\ v.manualOff = c.manualOff /\ v.retryCounter = c.retryCounter
        /\ v.archiveRetry = c.archiveRetry /\ v.running = c.running
        /\ v.last = c.last /\ v.restore = c.restore /\ v.penultimate = c.penultimate
        /\ v.nextUrl = c.nextUrl /\ v.warped = c.warped
        /\ v.pc = c.pc /\ v.manualUrl = 0 /\ v.startCrawled = c.startCrawled
    BY <2>6, <1>1 DEF Memories
  <2> HIDE DEF v
  <2>8. CASE Takes(u) /\ c' = [Found(u, u) EXCEPT !.lockTime = NewLock]
    BY <2>1, <2>3, <2>8, <1>1, FoundKeeps DEF Selecting
  <2>9. CASE Misses(u) /\ c' = [v EXCEPT !.lockTime = NoLock]
    <3>1. c' \in Memories
      BY <2>6, <2>9, <1>1 DEF Memories
    <3>2. /\ c'.pc = v.pc /\ c'.tick = v.tick /\ c'.manualCounter = v.manualCounter
          /\ c'.startCrawled = v.startCrawled /\ c'.manualOff = v.manualOff
          /\ c'.retryCounter = v.retryCounter /\ c'.archiveRetry = v.archiveRetry
          /\ c'.running = v.running /\ c'.manualUrl = v.manualUrl
          /\ c'.last = v.last /\ c'.restore = v.restore /\ c'.penultimate = v.penultimate
          /\ c'.nextUrl = v.nextUrl /\ c'.warped = v.warped
      BY <2>6, <2>9 DEF Memories
    <3>3. SamePlaces
      BY <2>7, <3>2 DEF SamePlaces
    <3>4. Modes'
      BY <2>1, <2>3, <2>7, <3>2, <1>1 DEF Inv, Modes, ManualDone, Selecting, NoTick
    <3> QED
      BY <2>1, <2>3, <2>7, <2>9, <3>1, <3>2, <3>3, <3>4, <1>1, MissKeeps DEF Selecting
  <2> QED
    <3>1. WorldOf(Found(u, u)) \in Worlds /\ WorldOf(v) \in Worlds
          /\ WorldOf(Found(u, u)).c = Found(u, u) /\ WorldOf(v).c = v
          /\ WorldOf(Found(u, u)).db = db /\ WorldOf(v).db = db
          /\ WorldOf(Found(u, u)).past = past /\ WorldOf(v).past = past
      BY <2>4, <2>6, WorldOfFacts
    <3>2. TryLock(u, WorldOf(Found(u, u)), WorldOf(v))
      BY <2>1, <2>4, <2>5
    <3> HIDE DEF u
    <3>3. \/ Takes(u) /\ c' = [Found(u, u) EXCEPT !.lockTime = NewLock]
          \/ Misses(u) /\ c' = [v EXCEPT !.lockTime = NoLock]
      BY <2>3, <3>1, <3>2, TryLockEffect
    <3> QED
      BY <2>8, <2>9, <3>3
<1>6. CASE SelectStartPage
  <2> DEFINE u == StartPage
             v == [c EXCEPT !.startCrawled = TRUE, !.pc = "auto"]
  <2>1. /\ c.pc = "start" /\ c.running /\ ~config.startIgnore /\ ~c.startCrawled
        /\ TryLock(u, [Crawl(u) EXCEPT !.c.manualUrl = u],
                   [World EXCEPT !.c.startCrawled = TRUE, !.c.pc = "auto"])
    BY <1>6 DEF SelectStartPage, At
  <2>3. /\ u \in Manual /\ u \in Urls /\ c.last = 0 /\ ~c.manualOff /\ c.manualUrl = 0
        /\ Current = 0 /\ c.manualCounter = Len(CustomPages)
    BY <1>2, <2>1 DEF Manual, Inv, Modes, ManualDone, Selecting, Current
  <2>4. [Crawl(u) EXCEPT !.c.manualUrl = u] = WorldOf(Found(u, u)) /\ Found(u, u) \in Memories
    BY <2>3, <1>1, FoundFacts
  <2>5. [World EXCEPT !.c.startCrawled = TRUE, !.c.pc = "auto"] = WorldOf(v)
    <3>1. [World EXCEPT !.c.startCrawled = TRUE, !.c.pc = "auto"] = [World EXCEPT !.c = v]
      BY <1>1 DEF World, Memories
    <3> QED
      BY <3>1 DEF World, WorldOf
  <2>6. v \in Memories
    BY <1>1 DEF Memories
  <2>7. /\ v.tick = c.tick /\ v.manualOff = c.manualOff /\ v.retryCounter = c.retryCounter
        /\ v.archiveRetry = c.archiveRetry /\ v.running = c.running
        /\ v.last = c.last /\ v.restore = c.restore /\ v.penultimate = c.penultimate
        /\ v.nextUrl = c.nextUrl /\ v.warped = c.warped
        /\ v.pc = "auto" /\ v.startCrawled = TRUE /\ v.manualUrl = c.manualUrl
        /\ v.manualCounter = c.manualCounter
    BY <2>6, <1>1 DEF Memories
  <2> HIDE DEF v
  <2>8. CASE Takes(u) /\ c' = [Found(u, u) EXCEPT !.lockTime = NewLock]
    BY <2>1, <2>3, <2>8, <1>1, FoundKeeps DEF Selecting
  <2>9. CASE Misses(u) /\ c' = [v EXCEPT !.lockTime = NoLock]
    <3>1. c' \in Memories
      BY <2>6, <2>9, <1>1 DEF Memories
    <3>2. /\ c'.pc = v.pc /\ c'.tick = v.tick /\ c'.manualCounter = v.manualCounter
          /\ c'.startCrawled = v.startCrawled /\ c'.manualOff = v.manualOff
          /\ c'.retryCounter = v.retryCounter /\ c'.archiveRetry = v.archiveRetry
          /\ c'.running = v.running /\ c'.manualUrl = v.manualUrl
          /\ c'.last = v.last /\ c'.restore = v.restore /\ c'.penultimate = v.penultimate
          /\ c'.nextUrl = v.nextUrl /\ c'.warped = v.warped
      BY <2>6, <2>9 DEF Memories
    <3>3. SamePlaces
      BY <2>7, <3>2 DEF SamePlaces
    <3>4. Modes'
      BY <2>1, <2>3, <2>7, <3>2, <1>1 DEF Inv, Modes, ManualDone, Selecting, NoTick
    <3> QED
      BY <2>1, <2>3, <2>7, <2>9, <3>1, <3>2, <3>3, <3>4, <1>1, MissKeeps DEF Selecting
  <2> QED
    <3>1. WorldOf(Found(u, u)) \in Worlds /\ WorldOf(v) \in Worlds
          /\ WorldOf(Found(u, u)).c = Found(u, u) /\ WorldOf(v).c = v
          /\ WorldOf(Found(u, u)).db = db /\ WorldOf(v).db = db
          /\ WorldOf(Found(u, u)).past = past /\ WorldOf(v).past = past
      BY <2>4, <2>6, WorldOfFacts
    <3>2. TryLock(u, WorldOf(Found(u, u)), WorldOf(v))
      BY <2>1, <2>4, <2>5
    <3> HIDE DEF u
    <3>3. \/ Takes(u) /\ c' = [Found(u, u) EXCEPT !.lockTime = NewLock]
          \/ Misses(u) /\ c' = [v EXCEPT !.lockTime = NoLock]
      BY <2>3, <3>1, <3>2, TryLockEffect
    <3> QED
      BY <2>8, <2>9, <3>3
<1> QED
  BY <1>4, <1>5, <1>6

\* A step of automatic mode that tries to lock the next URL.
LEMMA AutoLockKeeps ==
  ASSUME CrawlerAssumption, TypeOK, Inv, AutoRetry \/ AutoLock
  PROVE  TypeOK' /\ Inv'
<1> DEFINE u == c.nextUrl
           v == [c EXCEPT !.pc = "next"]
<1>1. /\ c \in Memories /\ config' = config /\ "next" \in ControlStates
      /\ NoLock \in LockTimes /\ c.tick = NoTick /\ c.pc \in {"auto", "lock"} /\ c.manualOff
      /\ TryLock(u, Crawl(u), Then(World, "next")) /\ u \in Ids /\ u # 0 /\ 0 \in Ids
  BY DEF TypeOK, AutoRetry, AutoLock, At, ControlStates, Ids, Memories, CrawlerAssumption,
         NoLock, LockTimes, NoRow, Inv, Control, Modes, Selecting
<1>2. /\ u \in Urls /\ c.manualUrl = 0 /\ Current = u /\ (c.last = 0 => ManualDone)
  BY <1>1, IdUrls DEF Current, Inv, Modes
<1>3. Crawl(u) = WorldOf(Found(u, 0)) /\ Found(u, 0) \in Memories
  BY <1>1, <1>2, FoundFacts
<1>4. Then(World, "next") = WorldOf(v)
  BY <1>1 DEF Then, World, WorldOf
<1>5. v \in Memories
  BY <1>1 DEF Memories
<1>6. /\ v.tick = c.tick /\ v.manualOff = c.manualOff /\ v.retryCounter = c.retryCounter
      /\ v.archiveRetry = c.archiveRetry /\ v.running = c.running
      /\ v.last = c.last /\ v.restore = c.restore /\ v.penultimate = c.penultimate
      /\ v.nextUrl = c.nextUrl /\ v.warped = c.warped
      /\ v.pc = "next" /\ v.manualUrl = c.manualUrl /\ v.manualCounter = c.manualCounter
      /\ v.startCrawled = c.startCrawled
  BY <1>1 DEF Memories
<1> HIDE DEF v
<1>7. CASE Takes(u) /\ c' = [Found(u, 0) EXCEPT !.lockTime = NewLock]
  BY <1>1, <1>2, <1>7, FoundKeeps DEF Selecting
<1>8. CASE Misses(u) /\ c' = [v EXCEPT !.lockTime = NoLock]
  <2>1. c' \in Memories
    BY <1>5, <1>8, <1>1 DEF Memories
  <2>2. /\ c'.pc = v.pc /\ c'.tick = v.tick /\ c'.manualCounter = v.manualCounter
        /\ c'.startCrawled = v.startCrawled /\ c'.manualOff = v.manualOff
        /\ c'.retryCounter = v.retryCounter /\ c'.archiveRetry = v.archiveRetry
        /\ c'.running = v.running /\ c'.manualUrl = v.manualUrl
        /\ c'.last = v.last /\ c'.restore = v.restore /\ c'.penultimate = v.penultimate
        /\ c'.nextUrl = v.nextUrl /\ c'.warped = v.warped
    BY <1>5, <1>8 DEF Memories
  <2>3. SamePlaces
    BY <1>6, <2>2 DEF SamePlaces
  <2>4. Modes'
    BY <1>1, <1>2, <1>6, <2>2 DEF Inv, Modes, ManualDone, Selecting, NoTick
  <2>5. /\ c'.tick = c.tick /\ c'.manualOff = c.manualOff /\ c'.retryCounter = c.retryCounter
        /\ c'.archiveRetry = c.archiveRetry /\ c.pc \in Selecting /\ c'.pc \in Selecting
        /\ Current \in {0, u} /\ config' = config
    BY <1>1, <1>2, <1>6, <2>2 DEF Selecting
  <2> HIDE DEF u
  <2> QED
    BY <1>2, <1>8, <2>1, <2>3, <2>4, <2>5, MissKeeps
<1> QED
  <2>1. WorldOf(Found(u, 0)) \in Worlds /\ WorldOf(v) \in Worlds
        /\ WorldOf(Found(u, 0)).c = Found(u, 0) /\ WorldOf(v).c = v
        /\ WorldOf(Found(u, 0)).db = db /\ WorldOf(v).db = db
        /\ WorldOf(Found(u, 0)).past = past /\ WorldOf(v).past = past
    BY <1>3, <1>5, WorldOfFacts
  <2>2. TryLock(u, WorldOf(Found(u, 0)), WorldOf(v))
    BY <1>1, <1>3, <1>4
  <2> HIDE DEF u
  <2>3. \/ Takes(u) /\ c' = [Found(u, 0) EXCEPT !.lockTime = NewLock]
        \/ Misses(u) /\ c' = [v EXCEPT !.lockTime = NoLock]
    BY <1>2, <2>1, <2>2, TryLockEffect
  <2> QED
    BY <1>7, <1>8, <2>3

\* Before the next memento the lock is renewed, or found to be somebody else's.
LEMMA RenewLockKeeps ==
  ASSUME CrawlerAssumption, TypeOK, Inv, RenewLock
  PROVE  TypeOK' /\ Inv'
<1> DEFINE u == c.tick.url
           t == [c.tick EXCEPT !.success = FALSE, !.mementos = 0]
           v == [c EXCEPT !.tick = t]
<1>1. /\ c \in Memories /\ c.tick \in TickTypes /\ config' = config /\ NoLock \in LockTimes
      /\ c.pc = "memento" /\ c.running /\ u \in Ids /\ u > 0 /\ u # 0 /\ 0 \in MementoNumbers
      /\ ~c.warped /\ config.archives
  <2>1. /\ c \in Memories /\ c.tick \in TickTypes /\ u \in Ids
    BY DEF TypeOK, Memories, TickTypes
  <2>2. NoLock \in LockTimes /\ 0 \in MementoNumbers
    BY DEF MementoNumbers, CrawlerAssumption, NoLock, LockTimes, NoRow
  <2>3. config' = config /\ c.pc = "memento" /\ c.running
    BY DEF RenewLock, At
  <2>4. u > 0 /\ ~c.warped /\ config.archives
    BY <2>3 DEF Inv, Control, UrlStates, Finishing, Archiving
  <2>5. u # 0
    BY <2>1, <2>4 DEF Ids
  <2> QED
    BY <2>1, <2>2, <2>3, <2>4, <2>5
<1>2. /\ u \in Urls /\ Current \in {0, u} /\ u \in {Current} \cup past.skipped
      /\ db.lock[u] >= Passed
  BY <1>1, IdUrls DEF Inv, Locks, UrlStates, Finishing, Archiving
<1>3. /\ c.manualOff => c.nextUrl \in {0, u} /\ c.manualUrl = 0
      /\ ~c.manualOff => u \in Manual /\ c.last = 0
  BY <1>1, <1>2 DEF Current, Inv, Modes
<1>4. t \in TickTypes /\ t.url = u /\ t.failed = c.tick.failed
  BY <1>1 DEF TickTypes
<1>5. [World EXCEPT !.c.tick.success = FALSE, !.c.tick.mementos = 0] = WorldOf(v)
  <2>1. [World EXCEPT !.c.tick.success = FALSE, !.c.tick.mementos = 0] = [World EXCEPT !.c = v]
    BY <1>1, ZenonT(60) DEF World, Memories, TickTypes
  <2> QED
    BY <2>1 DEF World, WorldOf
<1>6. World = WorldOf(c)
  BY DEF World, WorldOf
<1> HIDE DEF t
<1>7. v \in Memories /\ v.tick = t
  BY <1>1, <1>4 DEF Memories
<1>8. /\ v.manualOff = c.manualOff /\ v.retryCounter = c.retryCounter
      /\ v.archiveRetry = c.archiveRetry /\ v.running = c.running
      /\ v.last = c.last /\ v.restore = c.restore /\ v.penultimate = c.penultimate
      /\ v.nextUrl = c.nextUrl /\ v.warped = c.warped /\ v.pc = c.pc
      /\ v.manualUrl = c.manualUrl /\ v.manualCounter = c.manualCounter
      /\ v.startCrawled = c.startCrawled
  BY <1>1 DEF Memories
<1> HIDE DEF v
<1>9. CASE Takes(u) /\ c' = [c EXCEPT !.lockTime = NewLock]
  <2>0. /\ NewLock \in LockTimes /\ NewLock >= 0 /\ NewLock # NoLock
        /\ db' \in Tables /\ db'.last = db.last /\ db'.success = db.success
        /\ db'.saved = db.saved /\ db'.lock = [db.lock EXCEPT ![u] = NewLock]
        /\ past' \in Pasts /\ past'.skipped = past.skipped /\ past'.foreign = past.foreign
        /\ past'.left = past.left \ {u}
        /\ other' \in [Urls -> {"none", "holds", "lost"}]
        /\ other'[u] # "holds" /\ \A x \in Urls \ {u} : other'[x] = other[x]
    BY <1>2, <1>9, TakesFacts
  <2>1. /\ c' \in Memories /\ c'.lockTime = NewLock
        /\ c'.pc = c.pc /\ c'.tick = c.tick /\ c'.retryCounter = c.retryCounter
        /\ SameModes /\ SamePlaces /\ c'.archiveRetry = c.archiveRetry /\ c'.running = c.running
    BY <1>1, <1>9, <2>0 DEF Memories, SameModes, SamePlaces
  <2>2. TypeOK'
    BY <1>1, <2>0, <2>1 DEF TypeOK, SamePlaces
  <2>3. Control' /\ ContentFirst'
    BY <1>1, <2>0, <2>1 DEF Inv, Control, ContentFirst, SamePlaces
  <2>4. Modes'
    BY <1>1, <2>1 DEF Inv, Modes, ManualDone, SameModes, SamePlaces
  <2>5. Positions'
    <3>1. /\ c.manualOff => u \in {c.nextUrl, c.tick.url} /\ {c.nextUrl, c'.tick.url} \subseteq {0, u}
          /\ c'.manualOff = c.manualOff
      BY <1>3, <2>1 DEF SameModes
    <3> QED
      BY <1>1, <1>2, <1>3, <1>9, <2>1, <2>2, <3>1, TakesKeepsPositions DEF Inv
  <2>6. Locks'
    <3>1. Current' = Current
      BY <2>1 DEF Current, SameModes, SamePlaces
    <3>2. \A x \in Urls : other'[x] = "holds" => x \in past'.foreign
      BY <2>0 DEF Inv, Locks
    <3>3. db.lock \in [Urls -> LockTimes] /\ 0 \notin Urls
      BY DEF TypeOK, Tables, Urls
    <3>4. db'.lock[u] = NewLock /\ NewLock >= Passed /\ NewLock <= NewLock
      BY <1>2, <2>0, <3>3 DEF Passed, LockTimes, NoRow, CrawlerAssumption
    <3>5. \A x \in Alive' \ past'.left : x \in Urls
             /\ (x # u => config.archives /\ x \in past.skipped)
      <4> SUFFICES ASSUME NEW x \in Alive' \ past'.left, x # u
                   PROVE  config.archives /\ x \in past.skipped
        BY DEF Alive
      <4>1. x \in Alive \ past.left
        BY <2>0, <3>3 DEF Alive
      <4>2. x # Current
        BY <1>2, <3>3, <4>1 DEF Alive
      <4> QED
        BY <4>1, <4>2 DEF Inv, Locks
    <3>6. \A x \in Urls : x \in {Current, u} => x = u
      BY <1>2, <3>3
    <3>7. c'.tick.url = u /\ c'.pc = "memento"
      BY <1>1, <2>1
    <3> QED
      BY <1>1, <1>2, <2>0, <2>1, <3>1, <3>2, <3>4, <3>5, <3>6, <3>7 DEF Locks
  <2> QED
    BY <2>2, <2>3, <2>4, <2>5, <2>6 DEF Inv
<1>10. CASE Misses(u) /\ c' = [v EXCEPT !.lockTime = NoLock]
  <2>1. /\ c' \in Memories /\ c'.lockTime = NoLock
        /\ c'.pc = v.pc /\ c'.tick = v.tick /\ c'.manualCounter = v.manualCounter
        /\ c'.startCrawled = v.startCrawled /\ c'.manualOff = v.manualOff
        /\ c'.retryCounter = v.retryCounter /\ c'.archiveRetry = v.archiveRetry
        /\ c'.running = v.running /\ c'.manualUrl = v.manualUrl
        /\ c'.last = v.last /\ c'.restore = v.restore /\ c'.penultimate = v.penultimate
        /\ c'.nextUrl = v.nextUrl /\ c'.warped = v.warped
    BY <1>1, <1>7, <1>10 DEF Memories
  <2>2. SamePlaces /\ SameModes /\ SameTick /\ c'.pc = c.pc
        /\ c'.archiveRetry = c.archiveRetry /\ c'.running = c.running
    BY <1>4, <1>7, <1>8, <2>1 DEF SamePlaces, SameModes, SameTick
  <2>3. SameMarks /\ db'.last = db.last /\ db'.lock = db.lock /\ other' = other
    BY <1>10 DEF Misses, SameMarks
  <2>4. TypeOK'
    BY <1>1, <1>8, <1>10, <2>1 DEF TypeOK, Misses
  <2>5. Control' /\ ContentFirst'
    BY <1>1, <2>2, <2>3 DEF Inv, Control, ContentFirst, SamePlaces, SameTick, SameMarks, Selecting
  <2>6. Modes'
    BY <1>1, <2>2 DEF Inv, Modes, ManualDone, SameModes, SamePlaces, SameTick
  <2>7. Positions'
    BY <1>1, <2>2, <2>3, PositionsStay DEF Inv, SameTick, SameModes
  <2>8. Locks'
    <3>1. \A x \in Alive \ past.left : config.archives /\ x \in past.skipped
      BY <1>2, <1>10, MissedLocks DEF Inv, Misses
    <3>2. Alive' = Alive /\ past' = past /\ Current' = Current /\ c'.tick.url = u
      BY <2>2, <2>3 DEF Alive, SameMarks, Current, SameModes, SamePlaces, SameTick
    <3>3. \A x \in Urls : other'[x] = "holds" => x \in past'.foreign
      BY <2>3, <3>2 DEF Inv, Locks
    <3> QED
      BY <1>1, <1>2, <2>1, <2>2, <2>3, <3>1, <3>2, <3>3 DEF Locks
  <2> QED
    BY <2>4, <2>5, <2>6, <2>7, <2>8 DEF Inv
<1> QED
  <2>1. WorldOf(c) \in Worlds /\ WorldOf(v) \in Worlds
        /\ WorldOf(c).c = c /\ WorldOf(v).c = v
        /\ WorldOf(c).db = db /\ WorldOf(v).db = db
        /\ WorldOf(c).past = past /\ WorldOf(v).past = past
    BY <1>1, <1>7, WorldOfFacts
  <2>2. TryLock(u, WorldOf(c), WorldOf(v))
    BY <1>5, <1>6 DEF RenewLock
  <2> HIDE DEF u
  <2>3. \/ Takes(u) /\ c' = [c EXCEPT !.lockTime = NewLock]
        \/ Misses(u) /\ c' = [v EXCEPT !.lockTime = NoLock]
    BY <1>2, <2>1, <2>2, TryLockEffect
  <2> QED
    BY <1>9, <1>10, <2>3

-----------------------------------------------------------------------------
(* Steps that leave the locks alone, and the other crawlers.                *)

\* The next URL of the list, or none: what is in between needs not be crawled, or is
\* locked, and not by this crawler.
LEMMA AutoSelectKeeps ==
  ASSUME CrawlerAssumption, TypeOK, Inv, AutoSelect
  PROVE  TypeOK' /\ Inv'
<1>1. /\ c \in Memories /\ config' = config /\ other' = other /\ c.pc = "next" /\ ~c.warped
      /\ c.tick = NoTick /\ c.tick.url = 0 /\ c.manualOff /\ c.manualUrl = 0
      /\ c.lockTime \in LockTimes /\ c.last \in Ids
      /\ (c.last = 0 => ManualDone) /\ 0 \notin Urls /\ 0 \in Ids
      /\ "wait" \in ControlStates /\ "lock" \in ControlStates
  <2>1. config' = config /\ other' = other /\ c.pc = "next"
    BY DEF AutoSelect, At, SameOther
  <2>2. c \in Memories /\ c.lockTime \in LockTimes /\ c.last \in Ids
    BY DEF TypeOK, Memories
  <2>3. ~c.warped /\ c.tick = NoTick /\ c.tick.url = 0
    BY <2>1 DEF Inv, Control, Selecting, NoTick
  <2>4. c.manualOff /\ c.manualUrl = 0 /\ (c.last = 0 => ManualDone)
    BY <2>1 DEF Inv, Modes
  <2>5. 0 \notin Urls /\ 0 \in Ids /\ "wait" \in ControlStates /\ "lock" \in ControlStates
    BY DEF Urls, Ids, ControlStates, CrawlerAssumption
  <2> QED
    BY <2>1, <2>2, <2>3, <2>4, <2>5
<1>2. \A x \in Alive \ past.left : config.archives /\ x \in past.skipped
  BY <1>1, SMTT(60) DEF Inv, Locks, Current, Alive
<1>3. PICK u \in Ids, p \in {"wait", "lock"} :
        /\ c' = [c EXCEPT !.nextUrl = u, !.pc = p] /\ db' = db /\ past' = past
        /\ \/ u = 0 /\ p = "wait"
           \/ u \in Urls /\ NextUrl(u) /\ p = "lock"
  <2>1. CASE NextUrls = {} /\ Become([World EXCEPT !.c.nextUrl = 0, !.c.pc = "wait"])
    <3>1. c' = [c EXCEPT !.nextUrl = 0, !.pc = "wait"] /\ db' = db /\ past' = past
      BY <2>1 DEF Become, World
    <3> QED
      BY <3>1, <1>1
  <2>2. CASE \E u \in Urls : NextUrl(u) /\ Become([World EXCEPT !.c.nextUrl = u, !.c.pc = "lock"])
    <3>1. PICK u \in Urls : NextUrl(u) /\ Become([World EXCEPT !.c.nextUrl = u, !.c.pc = "lock"])
      BY <2>2
    <3>2. c' = [c EXCEPT !.nextUrl = u, !.pc = "lock"] /\ db' = db /\ past' = past
      BY <3>1 DEF Become, World
    <3>3. u \in Ids
      BY DEF Urls, Ids
    <3> QED
      BY <3>1, <3>2, <3>3
  <2> QED
    BY <2>1, <2>2 DEF AutoSelect
<1>4. /\ c' \in Memories /\ c'.pc = p /\ c'.tick = c.tick /\ c'.retryCounter = c.retryCounter
      /\ SameModes /\ c'.last = c.last /\ c'.restore = c.restore
      /\ c'.penultimate = c.penultimate /\ c'.nextUrl = u /\ c'.warped = c.warped
      /\ c'.lockTime = c.lockTime /\ c'.archiveRetry = c.archiveRetry /\ c'.running = c.running
  BY <1>1, <1>3 DEF Memories, SameModes
<1>5. TypeOK'
  BY <1>1, <1>3, <1>4 DEF TypeOK
<1>6. Control' /\ ContentFirst'
  BY <1>1, <1>3, <1>4 DEF Inv, Control, ContentFirst, Selecting, Archiving, Finishing, UrlStates
<1>7. Modes'
  BY <1>1, <1>3, <1>4 DEF Inv, Modes, ManualDone, SameModes, Selecting, Urls
<1>8. u \in Urls => u > c.last /\ CoveredTo(u - 1) /\ db.lock[u] < 0
  <2> SUFFICES ASSUME u \in Urls
               PROVE  u > c.last /\ CoveredTo(u - 1) /\ db.lock[u] < 0
    OBVIOUS
  <2>1. u \in NextUrls /\ \A v \in NextUrls : u <= v
    BY <1>1, <1>3 DEF NextUrl
  <2>2. u > c.last /\ db.lock[u] < 0 /\ u \in 1 .. db.count /\ u \in Int
    BY <2>1 DEF NextUrls, Crawlable
  <2>3. ASSUME NEW x \in 1 .. (u - 1) PROVE Covered(x)
    <3>1. x \in Urls /\ x \in Int /\ u \in Int /\ x < u /\ c.last \in Int /\ db.count \in Int
      BY <1>1, <2>2 DEF Urls, Ids, TypeOK, Tables, Counts, CrawlerAssumption
    <3>2. CASE x <= c.last
      <4>1. x \in 1 .. c.last
        BY <3>1, <3>2
      <4> QED
        BY <4>1 DEF Inv, Positions, CoveredTo
    <3>3. CASE x > c.last
      <4>1. x \in 1 .. db.count
        BY <3>1, <2>2
      <4>2. ~(u <= x)
        BY <3>1
      <4>3. ~Crawlable(x)
        BY <2>1, <4>1, <4>2 DEF NextUrls
      <4>4. x \in Manual \/ db.success[x] \/ ~(db.lock[x] < 0)
        BY <3>3, <4>3 DEF Crawlable
      <4>5. ~(db.lock[x] < 0) => db.lock[x] >= 0
        BY <3>1 DEF TypeOK, Tables, LockTimes, NoRow, CrawlerAssumption
      <4>6. db.lock[x] >= 0 => x \in past.foreign \cup past.skipped \cup past.left
        BY <3>1, <1>2 DEF Inv, Locks, Alive
      <4> QED
        BY <4>4, <4>5, <4>6 DEF Covered, Known
    <3> QED
      BY <3>1, <3>2, <3>3
  <2> QED
    BY <2>2, <2>3 DEF CoveredTo
<1>9. Positions'
  <2>1. \A n : CoveredTo(n)' <=> CoveredTo(n)
    BY <1>3 DEF CoveredTo, Covered, Known
  <2>2. u \in Urls => u >= c.last /\ u # c.last
    BY <1>1, <1>8 DEF Urls, Ids
  <2> QED
    BY <1>1, <1>3, <1>4, <1>8, <2>1, <2>2 DEF Inv, Positions, SameModes
<1>10. Locks'
  <2>1. Alive' = Alive /\ Current' = u
    BY <1>1, <1>3, <1>4 DEF Alive, Current, SameModes
  <2>2. c.lockTime # NoLock /\ u \in Urls => db.lock[u] <= c.lockTime
    BY <1>1, <1>8 DEF TypeOK, Tables, LockTimes, NoRow, NoLock, CrawlerAssumption
  <2>3. p \notin UrlStates \cup {"end", "next"}
    BY <1>3 DEF UrlStates, Finishing, Archiving
  <2>4. \A x \in Urls : other'[x] = "holds" => x \in past'.foreign
    BY <1>1, <1>3 DEF Inv, Locks
  <2> QED
    BY <1>1, <1>2, <1>3, <1>4, <2>1, <2>2, <2>3, <2>4 DEF Locks
<1> QED
  BY <1>5, <1>6, <1>7, <1>9, <1>10 DEF Inv

\* Manual mode is gone through again; automatic mode will go on where it was.
LEMMA RestartManualKeeps ==
  ASSUME CrawlerAssumption, TypeOK, Inv, RestartManual
  PROVE  TypeOK' /\ Inv'
<1> DEFINE m == [c EXCEPT !.pc = "ticked", !.restore = c.last, !.manualUrl = 0,
                          !.manualCounter = 0, !.nextUrl = 0,
                          !.startCrawled = FALSE, !.manualOff = FALSE]
<1>1. /\ c \in Memories /\ db \in Tables /\ config' = config /\ other' = other
      /\ c.pc = "wait" /\ ~c.warped
      /\ c.tick = NoTick /\ c.tick.url = 0 /\ c.manualOff /\ c.nextUrl = 0
      /\ c.last \in Ids /\ 0 \notin Urls /\ 0 \in Ids /\ "ticked" \in ControlStates
  BY DEF TypeOK, RestartManual, At, SameOther, Memories, Inv, Control, Modes, Selecting, NoTick,
         Urls, Ids, ControlStates, CrawlerAssumption
<1>2. c' = [m EXCEPT !.last = 0] /\ db' = [db EXCEPT !.last = 0] /\ past' = past
  <2>1. Become(SetLast([World EXCEPT !.c = m], 0))
    BY DEF RestartManual, World
  <2> HIDE DEF m
  <2> QED
    BY <2>1 DEF Become, SetLast, World
<1>3. m \in Memories
  <2>1. 0 \in PageNumbers
    BY LenProperties DEF PageNumbers, CrawlerAssumption
  <2> QED
    BY <1>1, <2>1 DEF Memories
<1>4. /\ m.pc = "ticked" /\ m.tick = c.tick /\ m.retryCounter = c.retryCounter
      /\ m.manualUrl = 0 /\ m.manualOff = FALSE /\ m.restore = c.last
      /\ m.nextUrl = 0 /\ m.warped = c.warped /\ m.lockTime = c.lockTime
      /\ m.archiveRetry = c.archiveRetry
  BY <1>1 DEF Memories
<1> HIDE DEF m
<1>5. /\ c' \in Memories /\ c'.pc = "ticked" /\ c'.tick = c.tick
      /\ c'.retryCounter = c.retryCounter
      /\ c'.manualUrl = 0 /\ c'.manualOff = FALSE /\ c'.last = 0 /\ c'.restore = c.last
      /\ c'.nextUrl = 0 /\ c'.warped = c.warped /\ c'.lockTime = c.lockTime
      /\ c'.archiveRetry = c.archiveRetry
  BY <1>1, <1>2, <1>3, <1>4 DEF Memories
<1>6. db' \in Tables /\ db'.last = 0 /\ db'.lock = db.lock /\ db'.success = db.success
      /\ db'.saved = db.saved
  BY <1>1, <1>2 DEF Tables
<1>7. TypeOK'
  BY <1>1, <1>2, <1>5, <1>6 DEF TypeOK
<1>8. Control' /\ ContentFirst'
  BY <1>1, <1>5, <1>6 DEF Inv, Control, ContentFirst, Archiving, Finishing, UrlStates
<1>9. Modes'
  BY <1>1, <1>5 DEF Inv, Modes, Selecting
<1>10. Positions'
  <2>1. \A n : CoveredTo(n)' <=> CoveredTo(n)
    BY <1>2, <1>6 DEF CoveredTo, Covered, Known
  <2>2. CoveredTo(0)
    BY DEF CoveredTo
  <2> QED
    BY <1>1, <1>5, <2>1, <2>2 DEF Inv, Positions
<1>11. Locks'
  <2>1. Alive' = Alive /\ Current' = 0 /\ Current = 0
    BY <1>1, <1>5, <1>6 DEF Alive, Current
  <2>2. c'.pc \notin UrlStates \cup {"end", "next"}
    BY <1>5 DEF UrlStates, Finishing, Archiving
  <2>3. \A x \in Alive : x # 0
    BY <1>1 DEF Alive
  <2> QED
    BY <1>1, <1>2, <1>5, <1>6, <2>1, <2>2, <2>3 DEF Inv, Locks
<1> QED
  BY <1>7, <1>8, <1>9, <1>10, <1>11 DEF Inv

\* Only the archives are wanted: the content has been saved before, or need not be.
LEMMA SkipContentKeeps ==
  ASSUME CrawlerAssumption, TypeOK, Inv, SkipContent
  PROVE  TypeOK' /\ Inv'
<1> DEFINE t == [c.tick EXCEPT !.failed = FALSE]
<1>1. /\ c \in Memories /\ c.tick \in TickTypes /\ config' = config /\ other' = other
      /\ c.pc = "content" /\ config.archives /\ (config.archivesOnly \/ c.archiveRetry)
      /\ "archives" \in ControlStates
  BY DEF TypeOK, SkipContent, At, SameOther, Memories, ArchivesOnly, ControlStates
<1>2. c' = [c EXCEPT !.tick = t, !.pc = "archives"] /\ db' = db /\ past' = past
  BY <1>1 DEF SkipContent, Become, World, Memories
<1>3. t \in TickTypes /\ t.url = c.tick.url
  BY <1>1 DEF TickTypes
<1> HIDE DEF t
<1>4. /\ c' \in Memories /\ c'.pc = "archives" /\ c'.tick.url = c.tick.url
      /\ c'.retryCounter = c.retryCounter /\ SameModes /\ SamePlaces
      /\ c'.lockTime = c.lockTime /\ c'.archiveRetry = c.archiveRetry /\ c'.running = c.running
  BY <1>1, <1>2, <1>3 DEF Memories, SameModes, SamePlaces
<1>5. TypeOK'
  BY <1>1, <1>2, <1>4 DEF TypeOK, SamePlaces
<1>6. SameMarks /\ SameLocks
  BY <1>1, <1>2, <1>4 DEF SameMarks, SameLocks
<1>7. Control'
  BY <1>1, <1>4 DEF Inv, Control, SamePlaces, Selecting, Archiving, Finishing, UrlStates
<1>8. ContentFirst'
  BY <1>1, <1>4, <1>6 DEF Inv, ContentFirst, SameMarks
<1>9. Modes'
  BY <1>1, <1>4 DEF Inv, Modes, ManualDone, SameModes, SamePlaces, Selecting
<1>10. Positions'
  BY <1>1, <1>4, <1>6, PositionsStay DEF Inv, SameModes
<1>11. Locks'
  BY <1>1, <1>4, <1>6 DEF Inv, Locks, Alive, Current, SameModes, SamePlaces, SameLocks,
     SameMarks, UrlStates, Finishing, Archiving
<1> QED
  BY <1>5, <1>7, <1>8, <1>9, <1>10, <1>11 DEF Inv

\* The thread is started again: what it had locked is left behind.
LEMMA StartKeeps ==
  ASSUME CrawlerAssumption, TypeOK, Inv, Start
  PROVE  TypeOK' /\ Inv'
<1>1. /\ c \in Memories /\ db \in Tables /\ past \in Pasts /\ config' = config /\ other' = other
      /\ db.last \in Ids /\ c.last = db.last /\ 0 \notin Urls /\ past.upsets + 1 \in Nat
  BY DEF TypeOK, Start, Tables, Pasts, Urls
<1>2. /\ c' = Fresh(db.last) /\ db' = db
      /\ past' = [past EXCEPT !.left = past.left \cup Alive, !.upsets = past.upsets + 1]
  BY <1>1 DEF Start, Become, World, Pasts
<1>3. NoTick \in TickTypes
  BY DEF NoTick, TickTypes, Ids, MementoNumbers, CrawlerAssumption
<1>4. Fresh(db.last) \in Memories
  <2>1. /\ "tick" \in ControlStates /\ 0 \in Ids /\ 0 \in PageNumbers /\ 0 \in Nat
        /\ NoLock \in LockTimes
    BY LenProperties DEF ControlStates, Ids, PageNumbers, LockTimes, NoLock, NoRow,
       CrawlerAssumption
  <2> QED
    BY <1>1, <1>3, <2>1 DEF Fresh, Memories
<1>5. /\ c'.pc = "tick" /\ c'.tick = NoTick /\ c'.tick.url = 0 /\ c'.retryCounter = 0
      /\ c'.manualUrl = 0 /\ c'.manualOff = FALSE /\ c'.last = db.last /\ c'.restore = 0
      /\ c'.nextUrl = 0 /\ c'.warped = FALSE /\ c'.lockTime = NoLock /\ c'.archiveRetry = FALSE
  BY <1>2 DEF Fresh, NoTick
<1>6. /\ past' \in Pasts /\ past'.left = past.left \cup Alive /\ past'.skipped = past.skipped
      /\ past'.foreign = past.foreign /\ past'.base = past.base
  <2>1. past.left \cup Alive \in SUBSET Urls
    BY <1>1 DEF Pasts, Alive
  <2> QED
    BY <1>1, <1>2, <2>1 DEF Pasts
<1>7. TypeOK'
  BY <1>1, <1>2, <1>4, <1>5, <1>6 DEF TypeOK
<1>8. Control' /\ ContentFirst'
  BY <1>1, <1>2, <1>5 DEF Inv, Control, ContentFirst, Archiving, Finishing, UrlStates
<1>9. Modes'
  BY <1>5 DEF Modes, Selecting
<1>10. Positions'
  <2>1. \A u \in Urls : Covered(u) => Covered(u)'
    BY <1>2, <1>6 DEF Covered, Known
  <2>2. CoveredTo(db.last)'
    <3>1. CoveredTo(db.last)
      BY <1>1 DEF Inv, Positions
    <3> QED
      BY <1>1, <1>2, <2>1, <3>1, IdUrls DEF CoveredTo
  <2>3. CoveredTo(0)'
    BY DEF CoveredTo
  <2> QED
    BY <1>2, <1>5, <2>2, <2>3 DEF Positions
<1>11. Locks'
  <2>1. Alive' = Alive
    BY <1>1, <1>2 DEF Alive
  <2>2. \A x \in Urls : other'[x] = "holds" => x \in past'.foreign
    BY <1>1, <1>6 DEF Inv, Locks
  <2>3. c'.pc \notin UrlStates \cup {"end", "next"}
    BY <1>5 DEF UrlStates, Finishing, Archiving
  <2> QED
    BY <1>5, <1>6, <2>1, <2>2, <2>3 DEF Locks
<1> QED
  BY <1>7, <1>8, <1>9, <1>10, <1>11 DEF Inv

\* The thread is sent to another ID, which the user answers for.
LEMMA JumpKeeps ==
  ASSUME CrawlerAssumption, TypeOK, Inv, NEW id \in 1 .. db.count, Jump(id)
  PROVE  TypeOK' /\ Inv'
<1> DEFINE b == IF id > past.base THEN id ELSE past.base
           wp == id # c.last
<1>1. /\ c \in Memories /\ db \in Tables /\ past \in Pasts /\ config' = config /\ other' = other
      /\ c.pc = "ticked" /\ c.tick = NoTick /\ c.tick.url = 0 /\ ~c.warped
  BY DEF TypeOK, Jump, At, SameOther, Inv, Control, Selecting, NoTick
<1>2. id \in Ids /\ id \in Urls /\ id > 0 /\ id \in Int /\ b \in Ids /\ past.base <= b /\ id <= b
  <2>1. id \in Int /\ id > 0 /\ id <= MaxUrl
    BY <1>1 DEF Tables, Counts, Urls, CrawlerAssumption
  <2> QED
    BY <1>1, <2>1 DEF Pasts, Ids, Urls, CrawlerAssumption
<1>3. /\ c' = [c EXCEPT !.last = id, !.pc = "tick", !.warped = wp] /\ db' = [db EXCEPT !.last = id]
      /\ past' = [past EXCEPT !.upsets = past.upsets + 1, !.base = b]
  BY <1>1 DEF Jump, Become, SetLast, World, Pasts
<1> HIDE DEF b, wp
<1>4. /\ c' \in Memories /\ c'.pc = "tick" /\ c'.tick = c.tick /\ c'.retryCounter = c.retryCounter
      /\ SameModes /\ c'.last = id /\ c'.restore = c.restore
      /\ c'.penultimate = c.penultimate /\ c'.nextUrl = c.nextUrl /\ c'.warped = wp
      /\ c'.lockTime = c.lockTime /\ c'.archiveRetry = c.archiveRetry /\ c'.running = c.running
  <2>1. "tick" \in ControlStates /\ wp \in BOOLEAN
    BY DEF ControlStates, wp
  <2> QED
    BY <1>1, <1>2, <1>3, <2>1 DEF Memories, SameModes
<1>5. db' \in Tables /\ db'.last = id /\ db'.lock = db.lock /\ db'.success = db.success
      /\ db'.saved = db.saved
  BY <1>1, <1>2, <1>3 DEF Tables
<1>6. /\ past' \in Pasts /\ past'.left = past.left /\ past'.skipped = past.skipped
      /\ past'.foreign = past.foreign /\ past'.base = b
  <2>1. past.upsets + 1 \in Nat
    BY <1>1 DEF Pasts
  <2> QED
    BY <1>1, <1>2, <1>3, <2>1 DEF Pasts
<1>7. TypeOK'
  BY <1>1, <1>4, <1>5, <1>6 DEF TypeOK
<1>8. Control' /\ ContentFirst'
  BY <1>1, <1>4, <1>5 DEF Inv, Control, ContentFirst, Archiving, Finishing, UrlStates
<1>9. Modes'
  <2>1. c'.last # 0 /\ (~c'.warped => c'.last = c.last)
    <3>1. id # 0 /\ (~wp => id = c.last)
      BY <1>2 DEF wp
    <3> QED
      BY <1>4, <3>1
  <2>2. c'.pc \notin Selecting
    BY <1>4 DEF Selecting
  <2>3. c.last \in Ids /\ (c.last > 0 <=> c.last # 0)
    BY <1>1 DEF Memories, Ids
  <2> QED
    BY <1>1, <1>2, <1>4, <2>1, <2>2, <2>3 DEF Inv, Modes, SameModes, Selecting
<1>10. Positions'
  <2>1. Grows
    BY <1>2, <1>5, <1>6 DEF Grows
  <2>2. past.left \subseteq past'.left \cup past'.foreign
    BY <1>6
  <2>3. \A n \in Ids : (CoveredTo(n) => CoveredTo(n)') /\ (CoveredTo(n - 1) => CoveredTo(n - 1)')
    BY <1>7, <2>1, <2>2, CoveredStays
  <2>4. CoveredTo(id)'
    <3> SUFFICES ASSUME NEW x \in 1 .. id PROVE x <= b
      BY <1>6 DEF CoveredTo, Covered, Known
    <3> QED
      BY <1>2 DEF Ids
  <2>5. c.restore \in Ids /\ c.nextUrl \in Ids
    BY <1>1 DEF Memories
  <2>6. (~c.manualOff => CoveredTo(c.restore))'
    BY <1>4, <2>3, <2>5 DEF Inv, Positions, SameModes
  <2>7. ASSUME c.manualOff, ~wp, c.nextUrl # 0
        PROVE  /\ c.nextUrl >= id /\ CoveredTo(c.nextUrl - 1)'
               /\ c.nextUrl = id => Known(c.nextUrl)'
    <3>1. id = c.last
      BY <2>7 DEF wp
    <3>2. c.nextUrl \in Urls
      BY <2>5, <2>7, IdUrls
    <3>3. /\ c.nextUrl >= id /\ CoveredTo(c.nextUrl - 1)
          /\ c.nextUrl = id => Known(c.nextUrl)
      BY <1>1, <2>7, <3>1 DEF Inv, Positions
    <3> QED
      BY <1>4, <1>7, <2>1, <2>3, <2>5, <3>2, <3>3, KnownStays
  <2>8. (config.archives /\ ~c.warped /\ c.last \in {c.tick.url, c.nextUrl} \ {0} =>
           c.penultimate <= c.last)'
    BY <1>1, <1>4 DEF Inv, Positions, wp
  <2> QED
    BY <1>1, <1>4, <2>4, <2>6, <2>7, <2>8 DEF Positions, SameModes
<1>11. Locks'
  <2>1. Alive' = Alive /\ Current' = Current
    BY <1>1, <1>4, <1>5 DEF Alive, Current, SameModes
  <2>2. c'.pc \notin UrlStates \cup {"end", "next"}
    BY <1>4 DEF UrlStates, Finishing, Archiving
  <2> QED
    BY <1>1, <1>4, <1>5, <1>6, <2>1, <2>2 DEF Inv, Locks
<1> QED
  BY <1>7, <1>8, <1>9, <1>10, <1>11 DEF Inv

\* Time passes: the lock times of the tables and of the crawler pass together.
LEMMA ClockKeeps ==
  ASSUME CrawlerAssumption, TypeOK, Inv, Clock
  PROVE  TypeOK' /\ Inv'
<1> DEFINE l == [u \in Urls |-> Second(db.lock[u])]
<1>1. /\ c \in Memories /\ db \in Tables /\ db.lock \in [Urls -> LockTimes]
      /\ c.lockTime \in LockTimes
      /\ config' = config /\ other' = other /\ past' = past
      /\ db' = [db EXCEPT !.lock = l] /\ c' = [c EXCEPT !.lockTime = Second(c.lockTime)]
  BY DEF TypeOK, Clock, Memories, Tables
<1>2. \A t \in LockTimes : /\ Second(t) \in LockTimes /\ (Second(t) >= 0 => t >= 0)
                           /\ (t >= Passed => Second(t) >= Passed)
                           /\ (Second(t) = NoLock <=> t = NoLock)
  BY DEF Second, LockTimes, NoRow, Passed, NoLock, CrawlerAssumption
<1>3. \A s, t \in LockTimes : s <= t => Second(s) <= Second(t)
  BY DEF Second, LockTimes, NoRow, Passed, CrawlerAssumption
<1>4. /\ l \in [Urls -> LockTimes] /\ \A u \in Urls : l[u] = Second(db.lock[u])
      /\ \A u \in Urls : db.lock[u] \in LockTimes
  BY <1>1, <1>2
<1>5. PICK t \in LockTimes : t = Second(c.lockTime)
  BY <1>1, <1>2
<1> HIDE DEF l
<1>6. /\ c' \in Memories /\ c'.pc = c.pc /\ c'.tick = c.tick /\ c'.retryCounter = c.retryCounter
      /\ SameModes /\ SamePlaces /\ c'.lockTime = t /\ c'.archiveRetry = c.archiveRetry
      /\ c'.running = c.running
  BY <1>1, <1>5 DEF Memories, SameModes, SamePlaces
<1>7. db' \in Tables /\ db'.last = db.last /\ db'.lock = l /\ db'.success = db.success
      /\ db'.saved = db.saved
  BY <1>1, <1>4 DEF Tables
<1>8. TypeOK'
  BY <1>1, <1>6, <1>7 DEF TypeOK, SamePlaces
<1>9. Control' /\ ContentFirst' /\ Modes'
  BY <1>1, <1>6, <1>7 DEF Inv, Control, ContentFirst, Modes, ManualDone, SameModes, SamePlaces
<1>10. Positions'
  <2>1. SameMarks
    BY <1>1, <1>7 DEF SameMarks
  <2> QED
    BY <1>1, <1>6, <2>1, PositionsStay DEF Inv, SameModes
<1>11. Locks'
  <2>1. Current' = Current
    BY <1>6 DEF Current, SameModes, SamePlaces
  <2>2. Alive' \subseteq Alive
    BY <1>1, <1>2, <1>4, <1>7 DEF Alive
  <2>3. \A u \in Urls : db'.lock[u] = Second(db.lock[u])
    BY <1>4, <1>7
  <2>4. \A u \in Urls : db.lock[u] <= c.lockTime => db'.lock[u] <= t
    BY <1>1, <1>3, <1>4, <1>5, <2>3
  <2>5. t = NoLock <=> c.lockTime = NoLock
    BY <1>1, <1>2, <1>5
  <2>6. c.pc \in UrlStates => c.tick.url \in Urls
    <3>1. c.tick.url \in Ids
      BY <1>1 DEF Memories, TickTypes
    <3> QED
      BY <3>1, IdUrls DEF Inv, Control, Ids
  <2>7. c.pc \in UrlStates => db'.lock[c.tick.url] >= Passed
    BY <1>2, <1>4, <2>3, <2>6 DEF Inv, Locks
  <2>8. c'.lockTime # NoLock =>
          \A x \in Urls :
            x = Current \/ (c.pc \in UrlStates \cup {"end"} /\ x = c.tick.url) =>
              db'.lock[x] <= c'.lockTime \/ other[x] = "holds"
    BY <1>6, <2>4, <2>5 DEF Inv, Locks
  <2> QED
    BY <1>1, <1>6, <2>1, <2>2, <2>5, <2>7, <2>8 DEF Inv, Locks, SamePlaces
<1> QED
  BY <1>8, <1>9, <1>10, <1>11 DEF Inv

\* Another crawler locks a URL.
LEMMA OtherLocksKeeps ==
  ASSUME CrawlerAssumption, TypeOK, Inv, NEW u \in Urls, OtherLocks(u)
  PROVE  TypeOK' /\ Inv'
<1>1. /\ c' = c /\ db \in Tables /\ past \in Pasts /\ config' = config
      /\ db.lock \in [Urls -> LockTimes] /\ other \in [Urls -> {"none", "holds", "lost"}]
      /\ db' = [db EXCEPT !.lock = [db.lock EXCEPT ![u] = Lease]]
      /\ past' = [past EXCEPT !.foreign = past.foreign \cup {u}, !.left = past.left \ {u}]
      /\ other' = [other EXCEPT ![u] = "holds"]
      /\ Lease \in LockTimes /\ Lease >= Passed
  <2>1. db \in Tables /\ past \in Pasts /\ other \in [Urls -> {"none", "holds", "lost"}]
        /\ db.lock \in [Urls -> LockTimes]
    BY DEF TypeOK, Tables
  <2>2. /\ c' = c /\ config' = config /\ other' = [other EXCEPT ![u] = "holds"]
        /\ db' = [db EXCEPT !.lock = [db.lock EXCEPT ![u] = Lease]]
        /\ past' = [past EXCEPT !.foreign = past.foreign \cup {u}, !.left = past.left \ {u}]
    BY <2>1 DEF OtherLocks, Tables, Pasts
  <2>3. Lease \in LockTimes /\ Lease >= Passed
    BY DEF LockTimes, NoRow, Passed, CrawlerAssumption
  <2> QED
    BY <2>1, <2>2, <2>3
<1>2. [db.lock EXCEPT ![u] = Lease] \in [Urls -> LockTimes]
  BY <1>1
<1>3. /\ db' \in Tables /\ db'.last = db.last /\ db'.success = db.success
      /\ db'.saved = db.saved /\ db'.lock = [db.lock EXCEPT ![u] = Lease]
  BY <1>1, <1>2 DEF Tables
<1>4. /\ past' \in Pasts /\ past'.left = past.left \ {u} /\ past'.skipped = past.skipped
      /\ past'.foreign = past.foreign \cup {u} /\ past'.base = past.base
  <2>1. past.left \ {u} \in SUBSET Urls /\ past.foreign \cup {u} \in SUBSET Urls
    BY <1>1 DEF Pasts
  <2> QED
    BY <1>1, <2>1 DEF Pasts
<1>5. TypeOK'
  BY <1>1, <1>3, <1>4 DEF TypeOK
<1>6. Control' /\ ContentFirst' /\ Modes'
  BY <1>1, <1>3 DEF Inv, Control, ContentFirst, Modes, ManualDone
<1>7. Positions'
  <2>1. Grows
    <3>1. past.base \in Int
      BY <1>1 DEF Pasts, Ids
    <3> QED
      BY <1>3, <1>4, <3>1 DEF Grows
  <2>2. past.left \subseteq past'.left \cup past'.foreign
    BY <1>4
  <2>3. SamePlaces /\ c'.manualOff = c.manualOff /\ c'.tick.url \in {0, c.tick.url}
    BY <1>1 DEF SamePlaces
  <2> QED
    BY <1>1, <1>5, <2>1, <2>2, <2>3, PositionsGrow DEF Inv
<1>8. Locks'
  <2>1. other'[u] = "holds" /\ db'.lock[u] = Lease
        /\ \A x \in Urls \ {u} : other'[x] = other[x] /\ db'.lock[x] = db.lock[x]
    BY <1>1, <1>3
  <2>2. Alive' \subseteq Alive \ {u}
    BY <2>1 DEF Alive
  <2>3. \A x \in Urls : other'[x] = "holds" => x \in past'.foreign
    BY <2>1, <1>4 DEF Inv, Locks
  <2>4. \A x \in Urls : db.lock[x] <= c.lockTime \/ other[x] = "holds"
                          => db'.lock[x] <= c.lockTime \/ other'[x] = "holds"
    BY <2>1
  <2>5. \A x : db.lock[x] >= Passed => db'.lock[x] >= Passed
    <3>1. \A x : x # u => db'.lock[x] = db.lock[x]
      BY <1>1, <1>3
    <3> QED
      BY <1>1, <2>1, <3>1
  <2>6. Alive' \ past'.left \subseteq Alive \ past.left
    BY <2>2, <1>4
  <2>7. Current' = Current
    BY <1>1 DEF Current
  <2> QED
    BY <1>1, <1>4, <2>3, <2>4, <2>5, <2>6, <2>7 DEF Inv, Locks
<1> QED
  BY <1>5, <1>6, <1>7, <1>8 DEF Inv

\* Another crawler has done with a URL, or has lost its lock meanwhile.
LEMMA OtherUnlocksKeeps ==
  ASSUME CrawlerAssumption, TypeOK, Inv, NEW u \in Urls, NEW success \in BOOLEAN,
         OtherUnlocks(u, success)
  PROVE  TypeOK' /\ Inv'
<1> DEFINE mine == other[u] = "holds" \/ db.lock[u] < 0
           done == [db.success EXCEPT ![u] = db.success[u] \/ (success /\ mine)]
           lock == [db.lock EXCEPT ![u] = IF mine THEN Passed ELSE db.lock[u]]
<1>1. db \in Tables /\ other \in [Urls -> {"none", "holds", "lost"}]
      /\ db.lock \in [Urls -> LockTimes] /\ db.success \in [Urls -> BOOLEAN]
  BY DEF TypeOK, Tables
<1>2. PICK saved \in IF success THEN Stored(u) ELSE {db.saved} :
        /\ c' = c /\ past' = past /\ config' = config
        /\ other' = [other EXCEPT ![u] = "none"]
        /\ db' = [db EXCEPT !.saved = saved, !.success = done, !.lock = lock]
  BY <1>1 DEF OtherUnlocks, Tables
<1>3. Passed \in LockTimes
  BY DEF LockTimes, NoRow, Passed, CrawlerAssumption
<1>4. /\ saved \in SUBSET Urls /\ db.saved \subseteq saved
      /\ done \in [Urls -> BOOLEAN] /\ lock \in [Urls -> LockTimes]
      /\ \A x \in Urls : db.success[x] => done[x]
      /\ \A x \in Urls : done[x] => db.success[x] \/ x \in saved \cup config.large
      /\ \A x \in Urls : x # u => lock[x] = db.lock[x]
      /\ lock[u] = IF mine THEN Passed ELSE db.lock[u]
  <2>1. saved \in SUBSET Urls /\ db.saved \subseteq saved
    BY <1>1, <1>2 DEF Tables, Stored
  <2>2. done \in [Urls -> BOOLEAN] /\ lock \in [Urls -> LockTimes]
    BY <1>1, <1>3
  <2>3. \A x \in Urls : x # u => lock[x] = db.lock[x] /\ (done[x] <=> db.success[x])
    BY <1>1
  <2>4. lock[u] = IF mine THEN Passed ELSE db.lock[u]
    BY <1>1
  <2>5. done[u] <=> db.success[u] \/ (success /\ mine)
    BY <1>1
  <2>6. success => u \in saved \cup config.large
    BY <1>2 DEF Stored
  <2> HIDE DEF done, lock, mine
  <2> QED
    BY <2>1, <2>2, <2>3, <2>4, <2>5, <2>6
<1> HIDE DEF done, lock
<1>5. /\ db' \in Tables /\ db'.last = db.last /\ db'.success = done
      /\ db'.saved = saved /\ db'.lock = lock
  BY <1>1, <1>2, <1>4 DEF Tables
<1>6. TypeOK'
  BY <1>1, <1>2, <1>5 DEF TypeOK
<1>7. Control' /\ Modes'
  BY <1>2 DEF Inv, Control, Modes, ManualDone
<1>8. ContentFirst'
  BY <1>2, <1>4, <1>5 DEF Inv, ContentFirst
<1>9. Positions'
  <2>1. Grows
    <3>1. past.base \in Int
      BY DEF TypeOK, Pasts, Ids
    <3> QED
      BY <1>2, <1>4, <1>5, <3>1 DEF Grows
  <2>2. SamePlaces /\ c'.manualOff = c.manualOff /\ c'.tick.url \in {0, c.tick.url}
        /\ past.left \subseteq past'.left \cup past'.foreign
    BY <1>2 DEF SamePlaces
  <2> QED
    BY <1>2, <1>6, <2>1, <2>2, PositionsGrow DEF Inv
<1>10. Locks'
  <2>1. other'[u] = "none" /\ \A x \in Urls \ {u} : other'[x] = other[x]
    BY <1>1, <1>2
  <2>2. \A x \in Urls : x # u => db'.lock[x] = db.lock[x]
    BY <1>4, <1>5
  <2>3. db'.lock[u] = Passed \/ (~mine /\ db'.lock[u] = db.lock[u])
    BY <1>4, <1>5
  <2>4. db.lock[u] \in LockTimes /\ c.lockTime \in LockTimes
    BY <1>1 DEF TypeOK, Memories
  <2>5. Alive' \subseteq Alive
    <3> SUFFICES ASSUME NEW x \in Alive', x = u PROVE x \in Alive
      BY <2>1, <2>2 DEF Alive
    <3>1. db'.lock[u] # Passed
      BY DEF Alive, Passed
    <3> QED
      BY <2>3, <3>1 DEF Alive
  <2>6. \A x \in Urls : other'[x] = "holds" => x \in past'.foreign
    BY <2>1, <1>2 DEF Inv, Locks
  <2>7. c.lockTime # NoLock => \A x \in Urls : db.lock[x] <= c.lockTime \/ other[x] = "holds"
                                  => db'.lock[x] <= c.lockTime \/ other'[x] = "holds"
    <3>1. c.lockTime # NoLock => Passed <= c.lockTime
      BY <2>4 DEF NoLock, Passed, LockTimes, NoRow, CrawlerAssumption
    <3> QED
      BY <2>1, <2>2, <2>3, <3>1
  <2>8. \A x \in Urls : db.lock[x] >= Passed => db'.lock[x] >= Passed
    <3>1. Passed >= Passed
      BY DEF Passed
    <3> QED
      BY <2>2, <2>3, <3>1
  <2>9. c.pc \in UrlStates => c.tick.url \in Urls
    <3>1. c.tick.url \in Ids
      BY DEF TypeOK, Memories, TickTypes
    <3> QED
      BY <3>1, IdUrls DEF Inv, Control, Ids
  <2>10. Current' = Current
    BY <1>2 DEF Current
  <2> QED
    BY <1>2, <2>5, <2>6, <2>7, <2>8, <2>9, <2>10 DEF Inv, Locks
<1> QED
  BY <1>6, <1>7, <1>8, <1>9, <1>10 DEF Inv

-----------------------------------------------------------------------------
(* The content and the archives of a URL.                                   *)

\* The URL that is crawled: the next one, a page, or one that has been skipped.
LEMMA TickUrl ==
  ASSUME CrawlerAssumption, TypeOK, Inv, c.pc \in UrlStates \cup {"end"}
  PROVE  /\ c.tick.url \in Urls /\ c.tick.url > 0 /\ Current \in {0, c.tick.url} /\ ~c.warped
         /\ c.manualOff => c.manualUrl = 0 /\ c.nextUrl \in {0, c.tick.url}
         /\ ~c.manualOff => c.tick.url \in Manual /\ c.last = 0 /\ c.manualUrl \in {0, c.tick.url}
<1>1. c.tick.url \in Ids /\ c.tick.url > 0 /\ ~c.warped
  BY DEF TypeOK, Memories, TickTypes, Inv, Control, UrlStates, Finishing, Archiving
<1>2. c.tick.url \in Urls
  BY <1>1, IdUrls DEF Ids
<1>3. Current \in {0, c.tick.url}
  BY DEF Inv, Locks
<1> QED
  BY <1>1, <1>2, <1>3 DEF Current, Inv, Modes, Urls

\* What is kept of a URL that is skipped, once or twice, or that will be tried again.
Skipped(w, r, u) ==
  /\ SameThread(w, r) /\ r.c.retryCounter = 0 /\ r.db.success = w.db.success
  /\ r.past.skipped = w.past.skipped \cup {u}
  /\ r.c.archiveRetry => w.c.archiveRetry
  /\ r.c.nextUrl \in {0, w.c.nextUrl} /\ r.c.manualUrl \in {0, w.c.manualUrl}
  /\ \/ ~w.c.manualOff /\ r.c.last = w.c.last
     \/ /\ w.c.manualOff /\ r.c.manualUrl = w.c.manualUrl /\ r.c.last = u
        /\ config.archives => r.c.penultimate \in {w.c.last, u}
  /\ r.db.lock = w.db.lock \/ Unlocks(w, r, u)
  /\ config.archives \/ Unlocks(w, r, u)
  /\ r.c.lockTime # NoLock => r.c.lockTime = w.c.lockTime /\ r.db.lock = w.db.lock
Retried(w, r, u) ==
  /\ SameThread(w, r) /\ SamePlace(w, r)
  /\ r.c.retryCounter = 0 \/ r.c.retryCounter <= config.reTries
  /\ r.c.archiveRetry => w.c.archiveRetry \/ (config.archives /\ config.retryArchive)
  /\ r.c.nextUrl \in {u, w.c.nextUrl} /\ r.c.lockTime = w.c.lockTime
  /\ r.db.lock = w.db.lock /\ r.db.success = w.db.success
  /\ r.past.skipped = w.past.skipped

\* What is left of the URL that is crawled when its content, or its archives, are done.
Leaves(r, t, q, s) ==
  /\ c' = [r.c EXCEPT !.tick = t, !.pc = q] /\ db' = [r.db EXCEPT !.saved = s]
  /\ past' = r.past
\* The fields of what is left.
LEMMA LeavesFacts ==
  ASSUME NEW r \in Worlds, NEW t \in TickTypes, NEW q \in ControlStates, NEW s \in SUBSET Urls,
         Leaves(r, t, q, s)
  PROVE  /\ c' \in Memories /\ c'.pc = q /\ c'.tick = t /\ c'.retryCounter = r.c.retryCounter
         /\ c'.manualUrl = r.c.manualUrl /\ c'.manualCounter = r.c.manualCounter
         /\ c'.startCrawled = r.c.startCrawled /\ c'.manualOff = r.c.manualOff
         /\ c'.last = r.c.last /\ c'.restore = r.c.restore /\ c'.penultimate = r.c.penultimate
         /\ c'.nextUrl = r.c.nextUrl /\ c'.warped = r.c.warped /\ c'.lockTime = r.c.lockTime
         /\ c'.archiveRetry = r.c.archiveRetry /\ c'.running = r.c.running
         /\ db' \in Tables /\ db'.lock = r.db.lock /\ db'.success = r.db.success
         /\ db'.last = r.db.last /\ db'.saved = s
         /\ past' \in Pasts /\ past' = r.past
<1>1. r.c \in Memories /\ r.db \in Tables /\ r.past \in Pasts
  BY DEF Worlds
<1>2. c' \in Memories
  BY <1>1 DEF Leaves, Memories
<1>3. db' \in Tables
  BY <1>1 DEF Leaves, Tables
<1>4. /\ c'.pc = q /\ c'.tick = t /\ c'.retryCounter = r.c.retryCounter
      /\ c'.manualUrl = r.c.manualUrl /\ c'.manualCounter = r.c.manualCounter
      /\ c'.startCrawled = r.c.startCrawled /\ c'.manualOff = r.c.manualOff
      /\ c'.last = r.c.last /\ c'.restore = r.c.restore /\ c'.penultimate = r.c.penultimate
      /\ c'.nextUrl = r.c.nextUrl /\ c'.warped = r.c.warped /\ c'.lockTime = r.c.lockTime
      /\ c'.archiveRetry = r.c.archiveRetry /\ c'.running = r.c.running
  BY <1>1 DEF Leaves, Memories
<1>5. /\ db'.lock = r.db.lock /\ db'.success = r.db.success
      /\ db'.last = r.db.last /\ db'.saved = s
  BY <1>1 DEF Leaves, Tables
<1> QED
  BY <1>1, <1>2, <1>3, <1>4, <1>5 DEF Leaves

\* Where a crawler is that has skipped the URL, or will try it again.
LEMMA LeavesPositions ==
  ASSUME CrawlerAssumption, TypeOK, Inv, TypeOK', c.pc \in UrlStates, NEW u, u = c.tick.url,
         config' = config, NEW r, Skipped(World, r, u) \/ Retried(World, r, u),
         c'.tick.url = u, c'.manualOff = r.c.manualOff, c'.last = r.c.last,
         c'.restore = r.c.restore, c'.penultimate = r.c.penultimate, c'.nextUrl = r.c.nextUrl,
         c'.warped = r.c.warped, db'.success = r.db.success, past' = r.past
  PROVE  Positions'
<1>1. /\ u \in Urls /\ u > 0 /\ ~c.warped
      /\ c.manualOff => c.manualUrl = 0 /\ c.nextUrl \in {0, u}
      /\ ~c.manualOff => u \in Manual /\ c.last = 0
  BY TickUrl
<1>2. /\ c'.manualOff = c.manualOff /\ c'.restore = c.restore /\ c'.warped = c.warped
      /\ past'.foreign = past.foreign /\ past'.left = past.left /\ past'.base = past.base
      /\ past.skipped \subseteq past'.skipped /\ db'.success = db.success
      /\ c'.nextUrl \in {0, c.nextUrl, u}
  BY WorldFacts DEF Skipped, Retried, SameThread, SamePlace
<1>3. c.last \in Ids /\ c.restore \in Ids /\ u \in Ids /\ u \in Int /\ c.last \in Int
  <2>1. c.last \in Ids /\ c.restore \in Ids
    BY DEF TypeOK, Memories
  <2> QED
    BY <1>1, <2>1, IdUrls DEF Ids
<1>4. Grows
  <2>1. past.base \in Int
    BY DEF TypeOK, Pasts, Ids
  <2> QED
    BY <1>2, <2>1 DEF Grows
<1>5. \A n \in Ids : (CoveredTo(n) => CoveredTo(n)') /\ (CoveredTo(n - 1) => CoveredTo(n - 1)')
  BY <1>2, <1>4, CoveredStays
<1>6. CASE ~c.manualOff
  <2>1. c'.last = c.last
    BY <1>6, WorldFacts DEF Skipped, Retried, SamePlace
  <2>2. CoveredTo(c.last) /\ CoveredTo(c.restore)
    BY <1>6 DEF Inv, Positions
  <2> QED
    BY <1>1, <1>2, <1>3, <1>5, <1>6, <2>1, <2>2 DEF Positions
<1>7. CASE c.manualOff
  <2>1. u >= c.last /\ CoveredTo(u - 1) /\ (u = c.last => Known(u))
    BY <1>1, <1>3, <1>7 DEF Inv, Positions
  <2>2. CoveredTo(u - 1)'
    BY <1>3, <1>5, <2>1
  <2>3. CASE Skipped(World, r, u)
    <3>1. c'.last = u /\ u \in past'.skipped
          /\ (config.archives => c'.penultimate \in {c.last, u})
      BY <1>7, <2>3, WorldFacts DEF Skipped
    <3>2. Known(u)'
      BY <3>1 DEF Known
    <3>3. CoveredTo(u)'
      <4> SUFFICES ASSUME NEW x \in 1 .. u PROVE Covered(x)'
        BY DEF CoveredTo
      <4>1. x = u \/ x \in 1 .. (u - 1)
        BY <1>3
      <4> QED
        BY <2>2, <3>2, <4>1 DEF CoveredTo, Covered
    <3>4. u >= u
      BY <1>3
    <3> QED
      BY <1>1, <1>2, <1>3, <1>7, <2>1, <2>2, <3>1, <3>2, <3>3, <3>4 DEF Positions
  <2>4. CASE Retried(World, r, u)
    <3>1. c'.last = c.last /\ c'.penultimate = c.penultimate
      BY <2>4, WorldFacts DEF Retried, SamePlace
    <3>2. u = c.last => Known(u)'
      BY <1>1, <1>4, <2>1, KnownStays
    <3>3. CoveredTo(c.last)'
      BY <1>3, <1>5, <3>1 DEF Inv, Positions
    <3> QED
      BY <1>1, <1>2, <1>3, <1>7, <2>1, <2>2, <3>1, <3>2, <3>3 DEF Inv, Positions
  <2> QED
    BY <2>3, <2>4
<1> QED
  BY <1>6, <1>7

\* No URL is left locked that is skipped without archives.
LEMMA LeavesLocks ==
  ASSUME CrawlerAssumption, TypeOK, Inv, TypeOK', c.pc \in UrlStates, NEW u, u = c.tick.url,
         config' = config, other' = other, NEW r, Skipped(World, r, u) \/ Retried(World, r, u),
         c'.pc # "next", c'.tick.url = u, c'.manualOff = r.c.manualOff,
         c'.manualUrl = r.c.manualUrl, c'.nextUrl = r.c.nextUrl, c'.lockTime = r.c.lockTime,
         db'.lock = r.db.lock, past' = r.past
  PROVE  Locks'
<1>1. /\ u \in Urls /\ Current \in {0, u} /\ ~c.warped /\ 0 \notin Urls
      /\ c.manualOff => c.nextUrl \in {0, u}
      /\ ~c.manualOff => c.manualUrl \in {0, u}
  BY TickUrl DEF Urls
<1>2. /\ c'.manualOff = c.manualOff /\ c'.nextUrl \in {0, c.nextUrl, u}
      /\ c'.manualUrl \in {0, c.manualUrl}
      /\ past'.foreign = past.foreign /\ past'.left = past.left
      /\ past.skipped \subseteq past'.skipped
  BY WorldFacts DEF Skipped, Retried, SameThread, SamePlace
<1>3. Current' \in {0, u}
  BY <1>1, <1>2 DEF Current
<1>4. /\ db.lock \in [Urls -> LockTimes] /\ c.lockTime \in LockTimes
      /\ \A x \in Urls : db.lock[x] \in LockTimes
  BY DEF TypeOK, Memories, Tables
<1>5. db'.lock = db.lock \/ (Mine(World, u) /\ db'.lock = [db.lock EXCEPT ![u] = Passed])
  BY WorldFacts DEF Skipped, Retried, Unlocks
<1>6. \A x \in Urls : x # u => db'.lock[x] = db.lock[x]
  BY <1>4, <1>5
<1>7. db'.lock[u] = db.lock[u] \/ db'.lock[u] = Passed
  BY <1>1, <1>4, <1>5
<1>8. db'.lock[u] >= Passed
  <2>1. db.lock[u] >= Passed /\ Passed >= Passed
    BY DEF Inv, Locks, Passed
  <2> QED
    BY <1>7, <2>1
<1>9. c'.lockTime # NoLock => c'.lockTime = c.lockTime /\ db'.lock = db.lock
  BY WorldFacts DEF Skipped, Retried
<1>10. u \in {Current'} \cup past'.skipped
  <2>1. CASE Skipped(World, r, u)
    BY <2>1, WorldFacts DEF Skipped
  <2>2. CASE Retried(World, r, u)
    <3>1. c'.manualUrl = c.manualUrl /\ c'.nextUrl \in {u, c.nextUrl}
          /\ past'.skipped = past.skipped
      BY <2>2, WorldFacts DEF Retried, SamePlace
    <3>2. u \in {Current} \cup past.skipped
      BY DEF Inv, Locks
    <3> QED
      BY <1>2, <3>1, <3>2 DEF Current
  <2> QED
    BY <2>1, <2>2
<1>11. c.lockTime # NoLock => db.lock[u] <= c.lockTime \/ other[u] = "holds"
  BY <1>1 DEF Inv, Locks
<1>12. \A x \in Alive' : x \in Alive /\ x \in Urls
  <2>1. \A x \in Urls : db'.lock[x] >= 0 => db.lock[x] >= 0
    BY <1>6, <1>7 DEF Passed
  <2> QED
    BY <2>1 DEF Alive
<1>13. \A x \in Alive' \ past'.left : x # u => config.archives /\ x \in past'.skipped
  BY <1>1, <1>2, <1>12 DEF Inv, Locks
<1>14. u \in Alive' \ past'.left =>
         (c'.lockTime # NoLock /\ u = Current') \/ (config.archives /\ u \in past'.skipped)
  <2> SUFFICES ASSUME u \in Alive', u \notin past.left, ~(config.archives /\ u \in past'.skipped)
               PROVE  c'.lockTime # NoLock /\ u = Current'
    BY <1>2
  <2>1. c.lockTime # NoLock /\ u = Current
    BY <1>2, <1>12 DEF Inv, Locks
  <2>2. CASE Skipped(World, r, u)
    <3>1. Unlocks(World, r, u)
      BY <2>2, WorldFacts DEF Skipped
    <3>2. ~Mine(World, u)
      <4>1. Mine(World, u) => db'.lock[u] = Passed
        BY <1>1, <1>4, <3>1, WorldFacts DEF Unlocks
      <4>2. db'.lock[u] # Passed
        BY DEF Alive, Passed
      <4> QED
        BY <4>1, <4>2
    <3>3. other[u] # "holds" /\ db.lock[u] >= 0
      BY <1>12 DEF Alive
    <3> QED
      BY <1>1, <1>4, <1>11, <2>1, <3>2, <3>3, WorldFacts DEF Mine, Passed, LockTimes, NoRow,
         CrawlerAssumption
  <2>3. CASE Retried(World, r, u)
    <3>1. c'.lockTime = c.lockTime /\ c'.manualUrl = c.manualUrl /\ c'.nextUrl \in {u, c.nextUrl}
      BY <2>3, WorldFacts DEF Retried, SamePlace
    <3> QED
      BY <1>2, <2>1, <3>1 DEF Current
  <2> QED
    BY <2>2, <2>3
<1>15. c'.lockTime # NoLock =>
         \A x \in Urls : x \in {Current', u} => db'.lock[x] <= c'.lockTime \/ other'[x] = "holds"
  <2>1. \A x \in Urls : x \in {Current', u} => x = u
    BY <1>1, <1>3
  <2> QED
    BY <1>9, <1>11, <2>1
<1>16. \A x \in Urls : other'[x] = "holds" => x \in past'.foreign
  BY <1>2 DEF Inv, Locks
<1> QED
  BY <1>3, <1>8, <1>10, <1>12, <1>13, <1>14, <1>15, <1>16 DEF Locks

\* The URL is skipped, or will be tried again; or nothing has gone wrong with it.
LEMMA LeavesKeeps ==
  ASSUME CrawlerAssumption, TypeOK, Inv, c.pc \in UrlStates, NEW u, u = c.tick.url,
         config' = config, other' = other, NEW r \in Worlds, r.db.last = r.c.last,
         Skipped(World, r, u) \/ Retried(World, r, u),
         NEW t \in TickTypes, t.url = u, NEW s \in SUBSET Urls, db.saved \subseteq s,
         NEW q \in Finishing \cup {"end", "thrown"}, q \in ControlStates,
         q \in Archiving => config.archives, Leaves(r, t, q, s),
         q \in Finishing /\ ~t.failed =>
           u \in s \cup config.large \/ (c.pc \in Finishing /\ ~c.tick.failed)
  PROVE  TypeOK' /\ Inv'
<1>1. /\ c' \in Memories /\ c'.pc = q /\ c'.tick = t /\ c'.retryCounter = r.c.retryCounter
      /\ c'.manualUrl = r.c.manualUrl /\ c'.manualCounter = r.c.manualCounter
      /\ c'.startCrawled = r.c.startCrawled /\ c'.manualOff = r.c.manualOff
      /\ c'.last = r.c.last /\ c'.restore = r.c.restore /\ c'.penultimate = r.c.penultimate
      /\ c'.nextUrl = r.c.nextUrl /\ c'.warped = r.c.warped /\ c'.lockTime = r.c.lockTime
      /\ c'.archiveRetry = r.c.archiveRetry /\ c'.running = r.c.running
      /\ db' \in Tables /\ db'.lock = r.db.lock /\ db'.success = r.db.success
      /\ db'.last = r.db.last /\ db'.saved = s
      /\ past' \in Pasts /\ past' = r.past
  BY LeavesFacts
<1>2. /\ u \in Urls /\ u > 0 /\ ~c.warped
      /\ c.manualOff => c.manualUrl = 0 /\ c.nextUrl \in {0, u}
      /\ ~c.manualOff => u \in Manual /\ c.last = 0
  BY TickUrl
<1>3. TypeOK'
  <2>1. r.c.retryCounter = 0 \/ r.c.retryCounter <= config.reTries
    BY DEF Skipped, Retried
  <2> QED
    BY <1>1, <2>1 DEF TypeOK
<1>4. c'.warped = c.warped /\ db'.success = db.success /\ c'.manualOff = c.manualOff
      /\ (c'.archiveRetry => c.archiveRetry \/ (config.archives /\ config.retryArchive))
      /\ c'.running = c.running
  BY <1>1, WorldFacts DEF Skipped, Retried, SameThread
<1>5. Control'
  BY <1>1, <1>2, <1>4 DEF Control, Selecting, Finishing, Archiving
<1>6. ContentFirst'
  BY <1>1, <1>4 DEF Inv, ContentFirst
<1>7. Modes'
  <2>1. /\ c'.nextUrl \in {0, c.nextUrl, u} /\ c'.manualUrl \in {0, c.manualUrl}
        /\ (c.manualOff => c'.manualUrl = c.manualUrl)
        /\ (~c.manualOff => c'.last = c.last)
    BY <1>1, WorldFacts DEF Skipped, Retried, SamePlace
  <2>2. q \notin Selecting
    BY DEF Selecting, Finishing, Archiving
  <2>3. c.manualOff /\ c'.last = 0 => ManualDone'
    <3>1. c.manualOff => c'.last = u \/ (c'.last = c.last /\ c'.manualCounter = c.manualCounter
                                         /\ c'.startCrawled = c.startCrawled)
      BY <1>1, WorldFacts DEF Skipped, Retried, SamePlace
    <3>2. c.manualOff /\ c.last = 0 => ManualDone
      BY DEF Inv, Modes, UrlStates, Finishing, Archiving
    <3> QED
      BY <1>2, <3>1, <3>2 DEF ManualDone, Urls
  <2> QED
    BY <1>1, <1>2, <1>4, <2>1, <2>2, <2>3 DEF Inv, Modes, Selecting
<1>8. Positions'
  BY <1>1, <1>3, LeavesPositions
<1>9. Locks'
  <2>1. q # "next"
    BY DEF Finishing, Archiving
  <2> QED
    BY <1>1, <1>3, <2>1, LeavesLocks
<1> QED
  BY <1>3, <1>5, <1>6, <1>7, <1>8, <1>9 DEF Inv

\* A URL that crawlingSkip() is called for is skipped.
LEMMA SkipsSkipped ==
  ASSUME NEW w, NEW r, NEW u, NEW unlock \in BOOLEAN, Skips(w, r, u, unlock),
         unlock \/ config.archives, w.c.manualOff => w.c.manualUrl = 0
  PROVE  Skipped(w, r, u)
<1>1. /\ SameThread(w, r) /\ r.c.retryCounter = 0 /\ r.db.success = w.db.success
      /\ r.past.skipped = w.past.skipped \cup {u}
      /\ r.c.archiveRetry => w.c.archiveRetry
      /\ r.c.nextUrl \in {0, w.c.nextUrl}
      /\ Advances(w, r, u)
  BY DEF Skips
<1>2. r.c.manualUrl \in {0, w.c.manualUrl}
  BY <1>1 DEF Advances, NextPage, NextLast, SamePlace
<1>3. \/ ~w.c.manualOff /\ r.c.last = w.c.last
      \/ /\ w.c.manualOff /\ r.c.manualUrl = w.c.manualUrl /\ r.c.last = u
         /\ config.archives => r.c.penultimate \in {w.c.last, u}
  <2>1. CASE NextPage(w, r)
    <3>1. w.c.manualUrl # 0
      BY <2>1 DEF NextPage
    <3> QED
      BY <2>1, <3>1 DEF NextPage
  <2>2. CASE NextLast(w, r, u)
    BY <2>2 DEF NextLast
  <2>3. CASE w.c.manualUrl = 0 /\ ~w.c.manualOff /\ SamePlace(w, r)
    BY <2>3 DEF SamePlace
  <2> QED
    BY <1>1, <2>1, <2>2, <2>3 DEF Advances
<1>4. /\ r.db.lock = w.db.lock \/ Unlocks(w, r, u)
      /\ config.archives \/ Unlocks(w, r, u)
      /\ r.c.lockTime # NoLock => r.c.lockTime = w.c.lockTime /\ r.db.lock = w.db.lock
  BY DEF Skips
<1> QED
  BY <1>1, <1>2, <1>3, <1>4 DEF Skipped

\* The tick of a crawler may be changed before.
LEMMA SameBefore ==
  ASSUME NEW t, NEW w, w = WorldOf([c EXCEPT !.tick = t]), TypeOK, t \in TickTypes, NEW r, NEW u
  PROVE  /\ w \in Worlds /\ w.db.last = w.c.last /\ w.c.tick = t /\ w.c.pc = c.pc
         /\ w.c.retryCounter = c.retryCounter /\ w.c.manualOff = c.manualOff
         /\ w.c.manualUrl = c.manualUrl /\ w.db.saved = db.saved
         /\ Skipped(w, r, u) => Skipped(World, r, u)
         /\ Retried(w, r, u) => Retried(World, r, u)
<1>1. c \in Memories /\ [c EXCEPT !.tick = t] \in Memories
  BY DEF TypeOK, Memories
<1>2. w \in Worlds /\ w.c = [c EXCEPT !.tick = t] /\ w.db = db /\ w.past = past
  BY <1>1, WorldOfFacts
<1>3. /\ w.c.tick = t /\ w.c.pc = c.pc /\ w.c.retryCounter = c.retryCounter
      /\ w.c.manualOff = c.manualOff /\ w.c.manualUrl = c.manualUrl
      /\ w.c.last = c.last /\ w.c.running = c.running /\ w.c.paused = c.paused
      /\ w.c.warped = c.warped /\ w.c.restore = c.restore /\ w.c.manualCounter = c.manualCounter
      /\ w.c.startCrawled = c.startCrawled /\ w.c.penultimate = c.penultimate
      /\ w.c.nextUrl = c.nextUrl /\ w.c.archiveRetry = c.archiveRetry
      /\ w.c.lockTime = c.lockTime
  BY <1>1, <1>2 DEF Memories
<1>4. Skipped(w, r, u) => Skipped(World, r, u)
  BY <1>2, <1>3, WorldFacts DEF Skipped, SameThread, Unlocks, Mine
<1>5. Retried(w, r, u) => Retried(World, r, u)
  BY <1>2, <1>3, WorldFacts DEF Retried, SameThread, SamePlace
<1>6. db.last = c.last
  BY SMTT(60) DEF TypeOK
<1> QED
  BY <1>2, <1>3, <1>4, <1>5, <1>6

\* The URL that is crawled is skipped.
LEMMA TickSkips ==
  ASSUME CrawlerAssumption, TypeOK, Inv, c.pc \in UrlStates, NEW u, u = c.tick.url,
         NEW t \in TickTypes, NEW w, w = WorldOf([c EXCEPT !.tick = t]),
         NEW unlock \in BOOLEAN, unlock \/ config.archives, NEW r, r = CrawlingSkip(w, u, unlock)
  PROVE  /\ r \in Worlds /\ r.db.last = r.c.last /\ Skipped(World, r, u) /\ r.c.tick = t
         /\ r.c.pc \in {c.pc, "thrown"} /\ r.db.saved = db.saved
         /\ Skips(w, r, u, unlock)
<1>1. u \in Urls /\ (c.manualOff => c.manualUrl = 0) /\ c.pc # "thrown"
  BY TickUrl DEF UrlStates, Finishing, Archiving
<1>2. /\ w \in Worlds /\ w.db.last = w.c.last /\ w.c.tick = t /\ w.c.pc = c.pc
      /\ w.c.manualOff = c.manualOff /\ w.c.manualUrl = c.manualUrl /\ w.db.saved = db.saved
      /\ Skipped(w, r, u) => Skipped(World, r, u)
  BY SameBefore
<1>3. config \in Configs
  BY DEF TypeOK
<1>4. r \in Worlds /\ r.db.last = r.c.last /\ Skips(w, r, u, unlock)
  BY <1>1, <1>2, <1>3, SkipEffect
<1>5. Skipped(w, r, u)
  BY <1>1, <1>2, <1>4, SkipsSkipped
<1> QED
  BY <1>2, <1>4, <1>5, SMTT(60) DEF Skips, SameThread

\* The URL that is crawled will be tried again, or is skipped.
LEMMA TickRetries ==
  ASSUME CrawlerAssumption, TypeOK, Inv, c.pc \in UrlStates, NEW u, u = c.tick.url,
         NEW t \in TickTypes, NEW w, w = WorldOf([c EXCEPT !.tick = t]),
         NEW archiveOnly \in BOOLEAN, archiveOnly => config.archives /\ config.retryArchive,
         NEW r, r = CrawlingRetry(w, u, archiveOnly)
  PROVE  /\ r \in Worlds /\ r.db.last = r.c.last /\ r.c.tick = t
         /\ Skipped(World, r, u) \/ Retried(World, r, u)
         /\ r.c.pc \in {c.pc, "thrown"} /\ r.db.saved = db.saved
<1>1. u \in Urls /\ (c.manualOff => c.manualUrl = 0) /\ c.pc # "thrown"
  BY TickUrl DEF UrlStates, Finishing, Archiving
<1>2. /\ w \in Worlds /\ w.db.last = w.c.last /\ w.c.tick = t /\ w.c.pc = c.pc
      /\ w.c.retryCounter = c.retryCounter
      /\ w.c.manualOff = c.manualOff /\ w.c.manualUrl = c.manualUrl /\ w.db.saved = db.saved
      /\ Skipped(w, r, u) => Skipped(World, r, u)
      /\ Retried(w, r, u) => Retried(World, r, u)
  BY SameBefore, SMTT(60)
<1>3. config \in Configs /\ w.c.pc # "thrown" /\ RetriesLeft(w)
  BY <1>1, <1>2 DEF TypeOK, RetriesLeft
<1>4. /\ r \in Worlds /\ r.db.last = r.c.last
      /\ Retries(w, r, u, archiveOnly) \/ GivesUp(w, r, u)
  BY <1>1, <1>2, <1>3, RetryEffect
<1>5. CASE GivesUp(w, r, u)
  <2>1. Skips(w, r, u, TRUE)
    BY <1>5 DEF GivesUp
  <2>2. Skipped(w, r, u)
    BY <1>1, <1>2, <2>1, SkipsSkipped
  <2> QED
    BY <1>2, <1>4, <2>1, <2>2 DEF Skips, SameThread
<1>6. CASE Retries(w, r, u, archiveOnly)
  <2>1. Retried(w, r, u)
    BY <1>6 DEF Retries, Retried
  <2> QED
    BY <1>2, <1>4, <1>6, <2>1 DEF Retries, SameThread
<1> QED
  BY <1>4, <1>5, <1>6

\* Two calls after each other.
LEMMA SameThreadTwice ==
  ASSUME NEW w, NEW o, NEW r, SameThread(w, o), SameThread(o, r)
  PROVE  SameThread(w, r)
BY DEF SameThread

\* A URL whose content is not UTF-8 is skipped twice.
LEMMA TickSkipsTwice ==
  ASSUME CrawlerAssumption, TypeOK, Inv, c.pc \in UrlStates, NEW u, u = c.tick.url,
         NEW unlock \in BOOLEAN, unlock \/ config.archives, unlock => ~config.archives,
         NEW o, o = CrawlingSkip(World, u, unlock), NEW r, r = CrawlingSkip(o, u, unlock)
  PROVE  /\ r \in Worlds /\ r.db.last = r.c.last /\ Skipped(World, r, u) /\ r.c.tick = c.tick
         /\ r.c.pc \in {c.pc, "thrown"} /\ r.db.saved = db.saved
<1>0. PICK w : w = World
  OBVIOUS
<1>1. /\ w = WorldOf([c EXCEPT !.tick = c.tick]) /\ c.tick \in TickTypes
      /\ unlock \/ config.archives
  BY <1>0 DEF World, WorldOf, TypeOK, Memories, CrawlerAssumption
<1>2. /\ o \in Worlds /\ o.db.last = o.c.last /\ Skipped(w, o, u) /\ o.c.tick = c.tick
      /\ o.c.pc \in {c.pc, "thrown"} /\ o.db.saved = db.saved
      /\ Skips(w, o, u, unlock)
  <2>1. o = CrawlingSkip(w, u, unlock)
    BY <1>0
  <2> QED
    BY <1>0, <1>1, <2>1, TickSkips
<1>3. CASE o.c.pc = "thrown"
  <2>1. r = o
    BY <1>3 DEF CrawlingSkip
  <2> QED
    BY <1>0, <1>2, <2>1, SMTT(60)
<1>4. CASE o.c.pc # "thrown"
  <2>1. /\ u \in Urls /\ w.c = c
        /\ w.c.manualOff => w.c.manualUrl = 0
    BY <1>0, TickUrl, WorldFacts
  <2>2. r \in Worlds /\ r.db.last = r.c.last /\ Skips(o, r, u, unlock)
    <3>1. config \in Configs
      BY DEF TypeOK
    <3> QED
      BY <1>2, <1>4, <2>1, <3>1, SkipEffect, SMTT(60)
  <2>3. /\ SameThread(w, o) /\ Advances(w, o, u) /\ o.db.success = w.db.success
        /\ o.past.skipped = w.past.skipped \cup {u}
        /\ o.c.archiveRetry = FALSE /\ o.c.nextUrl = 0
        /\ IF unlock THEN Unlocks(w, o, u) ELSE o.db.lock = w.db.lock
        /\ o.c.lockTime = IF unlock THEN NoLock ELSE w.c.lockTime
    BY <1>2, <1>4, ZenonT(60) DEF Skips
  <2>4. /\ SameThread(o, r) /\ Advances(o, r, u) /\ r.c.tick = o.c.tick
        /\ r.c.retryCounter = 0
        /\ r.past.skipped = o.past.skipped \cup {u} /\ r.db.success = o.db.success
        /\ IF unlock THEN Unlocks(o, r, u) ELSE r.db.lock = o.db.lock
        /\ r.c.pc \in {"thrown", o.c.pc} /\ r.c.nextUrl \in {0, o.c.nextUrl}
        /\ r.c.archiveRetry => o.c.archiveRetry
        /\ r.c.lockTime \in {o.c.lockTime, NoLock}
        /\ ~unlock => r.c.lockTime = o.c.lockTime
    BY <2>2 DEF Skips
  <2>5. SameThread(w, r)
    BY <2>3, <2>4, SameThreadTwice
  <2>6. \/ ~w.c.manualOff /\ o.c.manualOff = w.c.manualOff /\ o.c.last = w.c.last /\ o.c.manualUrl = 0
        \/ /\ w.c.manualOff /\ o.c.manualOff = w.c.manualOff /\ o.c.last = u
           /\ o.c.manualUrl = w.c.manualUrl
    <3>1. CASE NextPage(w, o)
      <4>1. w.c.manualUrl # 0
        BY <3>1 DEF NextPage
      <4> QED
        BY <2>1, <2>3, <3>1, <4>1 DEF NextPage, SameThread
    <3>2. CASE NextLast(w, o, u)
      BY <2>3, <3>2 DEF NextLast, SameThread
    <3>3. CASE w.c.manualUrl = 0 /\ ~w.c.manualOff /\ SamePlace(w, o)
      BY <2>3, <3>3, SMTT(60) DEF SamePlace, SameThread
    <3> QED
      BY <2>3, <3>1, <3>2, <3>3 DEF Advances
  <2>7. /\ r.c.manualUrl \in {0, w.c.manualUrl}
        /\ \/ ~w.c.manualOff /\ r.c.last = w.c.last
           \/ /\ w.c.manualOff /\ r.c.manualUrl = w.c.manualUrl /\ r.c.last = u
              /\ config.archives => r.c.penultimate \in {w.c.last, u}
    <3>1. o.c.manualUrl = 0
      BY <2>1, <2>6
    <3>2. ~(o.c.manualUrl > 0)
      BY <3>1
    <3>3. CASE NextLast(o, r, u)
      BY <2>6, <3>1, <3>3 DEF NextLast
    <3>4. CASE ~o.c.manualOff /\ SamePlace(o, r)
      BY <2>6, <3>1, <3>4 DEF SamePlace
    <3> QED
      BY <2>4, <3>2, <3>3, <3>4 DEF Advances, NextPage
  <2>8. /\ r.db.lock = w.db.lock \/ Unlocks(w, r, u)
        /\ config.archives \/ Unlocks(w, r, u)
        /\ r.c.lockTime # NoLock => r.c.lockTime = w.c.lockTime /\ r.db.lock = w.db.lock
    <3>1. CASE config.archives
      <4>1. ~unlock
        BY <3>1
      <4> QED
        BY <2>3, <2>4, <3>1, <4>1
    <3>2. CASE ~config.archives
      <4>1. o.c.lockTime = NoLock /\ unlock
        BY <2>3, <3>2
      <4>2. ~Mine(o, u)
        <5>1. o.db.lock[u] \in LockTimes
          BY <1>2, <2>1 DEF Worlds, Tables
        <5>2. o.db.lock[u] \in Int
          BY <5>1 DEF LockTimes, NoRow, CrawlerAssumption
        <5>3. o.c.lockTime = -2
          BY <4>1 DEF NoLock
        <5>4. o.db.lock[u] \notin Passed .. -2
          BY <5>2 DEF Passed
        <5> QED
          BY <5>3, <5>4 DEF Mine
      <4>3. r.db.lock = o.db.lock /\ r.c.lockTime = NoLock
        BY <2>4, <4>1, <4>2 DEF Unlocks
      <4> QED
        BY <2>3, <4>1, <4>3 DEF Unlocks
    <3> QED
      BY <3>1, <3>2
  <2>9. Skipped(w, r, u)
    BY <2>3, <2>4, <2>5, <2>7, <2>8 DEF Skipped
  <2>10. r.db.saved = db.saved /\ r.c.tick = c.tick /\ r.c.pc \in {c.pc, "thrown"}
    BY <1>2, <2>4 DEF SameThread
  <2> QED
    BY <1>0, <2>2, <2>9, <2>10
<1> QED
  BY <1>3, <1>4

\* The tick of a crawler need not be changed before.
LEMMA SameWorld ==
  ASSUME TypeOK
  PROVE  World = WorldOf([c EXCEPT !.tick = c.tick]) /\ c.tick \in TickTypes
BY DEF TypeOK, Memories, World, WorldOf

\* The tick goes on at p, unless it has thrown.
LEMMA ThenLeaves ==
  ASSUME NEW r \in Worlds, NEW p, Become(Then(r, p))
  PROVE  \E q \in {p, "thrown"} : q \in {p, r.c.pc} /\ Leaves(r, r.c.tick, q, r.db.saved)
<1>1. r.c \in Memories /\ r.db \in Tables /\ r.db = [r.db EXCEPT !.saved = r.db.saved]
  BY DEF Worlds, Tables
<1>2. CASE r.c.pc = "thrown"
  <2>1. c' = r.c /\ db' = r.db /\ past' = r.past
    BY <1>2 DEF Become, Then
  <2>2. r.c = [r.c EXCEPT !.tick = r.c.tick, !.pc = "thrown"]
    BY <1>1, <1>2 DEF Memories
  <2> QED
    BY <1>1, <1>2, <2>1, <2>2 DEF Leaves
<1>3. CASE r.c.pc # "thrown"
  <2>1. c' = [r.c EXCEPT !.pc = p] /\ db' = r.db /\ past' = r.past
    BY <1>3 DEF Become, Then, Worlds
  <2>2. [r.c EXCEPT !.pc = p] = [r.c EXCEPT !.tick = r.c.tick, !.pc = p]
    BY <1>1 DEF Memories
  <2> QED
    BY <1>1, <2>1, <2>2 DEF Leaves
<1> QED
  BY <1>2, <1>3

\* Without the content of the URL its archives are got.
LEMMA FailedLeaves ==
  ASSUME NEW r \in Worlds, Become(Failed(r))
  PROVE  \E q \in {"archives", "thrown"} :
           Leaves(r, [r.c.tick EXCEPT !.failed = TRUE], q, r.db.saved)
<1>1. r.c \in Memories /\ r.db \in Tables /\ r.db = [r.db EXCEPT !.saved = r.db.saved]
  BY DEF Worlds, Tables
<1>2. PICK t : t = [r.c.tick EXCEPT !.failed = TRUE]
  OBVIOUS
<1>3. PICK v : v = [r EXCEPT !.c.tick.failed = TRUE]
  OBVIOUS
<1>4. /\ v.c = [r.c EXCEPT !.tick = t] /\ v.db = r.db /\ v.past = r.past
      /\ v = [c |-> v.c, db |-> v.db, past |-> v.past]
  BY <1>2, <1>3 DEF Worlds, Memories
<1>5. v.c.pc = r.c.pc
  BY <1>1, <1>4 DEF Memories
<1>6. Become(Then(v, "archives"))
  BY <1>3 DEF Failed
<1>7. CASE v.c.pc = "thrown"
  <2>1. c' = v.c /\ db' = r.db /\ past' = r.past
    BY <1>4, <1>6, <1>7 DEF Become, Then
  <2>2. v.c = [r.c EXCEPT !.tick = t, !.pc = "thrown"]
    BY <1>1, <1>4, <1>5, <1>7 DEF Memories
  <2> QED
    BY <1>1, <1>2, <2>1, <2>2 DEF Leaves
<1>8. CASE v.c.pc # "thrown"
  <2>1. c' = [v.c EXCEPT !.pc = "archives"] /\ db' = r.db /\ past' = r.past
    BY <1>4, <1>6, <1>8 DEF Become, Then
  <2>2. c' = [r.c EXCEPT !.tick = t, !.pc = "archives"]
    BY <1>1, <1>4, <2>1 DEF Memories
  <2> QED
    BY <1>1, <1>2, <2>1, <2>2 DEF Leaves
<1> QED
  BY <1>7, <1>8

\* With the content its links are extracted.
LEMMA SaveLeaves ==
  ASSUME NEW r \in Worlds, NEW s, Become(SaveContent(r, s))
  PROVE  \E q \in {"links", "thrown"} :
           Leaves(r, [r.c.tick EXCEPT !.failed = FALSE], q, s)
<1>1. r.c \in Memories /\ r.db \in Tables
  BY DEF Worlds
<1>2. PICK t : t = [r.c.tick EXCEPT !.failed = FALSE]
  OBVIOUS
<1>3. PICK v : v = [r EXCEPT !.db.saved = s, !.c.tick.failed = FALSE]
  OBVIOUS
<1>4. /\ v.c = [r.c EXCEPT !.tick = t] /\ v.past = r.past
      /\ v.db = [r.db EXCEPT !.saved = s]
      /\ v = [c |-> v.c, db |-> v.db, past |-> v.past]
  BY <1>2, <1>3 DEF Worlds, Memories, Tables
<1>5. v.c.pc = r.c.pc
  BY <1>1, <1>4 DEF Memories
<1>6. Become(Then(v, "links"))
  BY <1>3 DEF SaveContent
<1>7. CASE v.c.pc = "thrown"
  <2>1. c' = v.c /\ db' = v.db /\ past' = r.past
    BY <1>4, <1>6, <1>7 DEF Become, Then
  <2>2. v.c = [r.c EXCEPT !.tick = t, !.pc = "thrown"]
    BY <1>1, <1>4, <1>5, <1>7 DEF Memories
  <2> QED
    BY <1>1, <1>2, <1>4, <2>1, <2>2 DEF Leaves
<1>8. CASE v.c.pc # "thrown"
  <2>1. c' = [v.c EXCEPT !.pc = "links"] /\ db' = v.db /\ past' = r.past
    BY <1>4, <1>6, <1>8 DEF Become, Then
  <2>2. c' = [r.c EXCEPT !.tick = t, !.pc = "links"]
    BY <1>1, <1>4, <2>1 DEF Memories
  <2> QED
    BY <1>1, <1>2, <1>4, <2>1, <2>2 DEF Leaves
<1> QED
  BY <1>7, <1>8


\* The URL has no content that can be used.
LEMMA ContentFails ==
  ASSUME CrawlerAssumption, TypeOK, Inv, c.pc = "content", config' = config, other' = other,
         NEW r \in Worlds, r.db.last = r.c.last, r.c.tick = c.tick, r.db.saved = db.saved,
         Skipped(World, r, c.tick.url) \/ Retried(World, r, c.tick.url), Become(Failed(r))
  PROVE  TypeOK' /\ Inv'
<1> DEFINE t == [c.tick EXCEPT !.failed = TRUE]
<1>1. c.pc \in UrlStates /\ c.tick \in TickTypes /\ db.saved \in SUBSET Urls
  BY DEF UrlStates, TypeOK, Memories, Tables
<1>2. t \in TickTypes /\ t.url = c.tick.url /\ t.failed
  BY <1>1 DEF TickTypes
<1>3. PICK q \in {"archives", "thrown"} : Leaves(r, t, q, db.saved)
  BY FailedLeaves
<1> HIDE DEF t
<1>4. /\ q \in Finishing \cup {"end", "thrown"} /\ q \in ControlStates
      /\ q \in Archiving => config.archives
  BY <1>3 DEF Finishing, Archiving, ControlStates
<1> QED
  BY <1>1, <1>2, <1>3, <1>4, LeavesKeeps

\* What is skipped in crawlingContent() keeps its lock for the archives.
LEMMA ContentFailsKeep ==
  ASSUME CrawlerAssumption, TypeOK, Inv,
         ContentRetried \/ ContentSkipped \/ ContentSkippedTwice
  PROVE  TypeOK' /\ Inv'
<1>1. /\ c.pc = "content" /\ config' = config /\ other' = other /\ c.pc \in UrlStates
  BY DEF ContentRetried, ContentSkipped, ContentSkippedTwice, At, SameOther, UrlStates
<1>2. PICK u : u = c.tick.url
  OBVIOUS
<1>3. PICK unlock \in BOOLEAN : unlock = ~config.archives
  OBVIOUS
<1>4. (unlock \/ config.archives) /\ (unlock => ~config.archives)
  BY <1>3
<1>5. World = WorldOf([c EXCEPT !.tick = c.tick]) /\ c.tick \in TickTypes
  BY SameWorld
<1>6. CASE ContentRetried
  <2>1. PICK r : r = CrawlingRetry(World, u, FALSE)
    OBVIOUS
  <2>2. Become(Failed(r))
    BY <1>2, <1>6, <2>1 DEF ContentRetried
  <2>3. /\ r \in Worlds /\ r.db.last = r.c.last /\ r.c.tick = c.tick
        /\ Skipped(World, r, u) \/ Retried(World, r, u)
        /\ r.db.saved = db.saved
    <3>1. PICK no \in BOOLEAN :
            /\ r = CrawlingRetry(World, u, no)
            /\ no => config.archives /\ config.retryArchive
      BY <2>1
    <3> QED
      BY <1>1, <1>2, <1>5, <3>1, TickRetries
  <2> QED
    BY <1>1, <1>2, <2>2, <2>3, ContentFails
<1>7. CASE ContentSkipped
  <2>1. PICK r : r = CrawlingSkip(World, u, unlock)
    OBVIOUS
  <2>2. Become(Failed(r))
    BY <1>2, <1>3, <1>7, <2>1 DEF ContentSkipped
  <2>3. /\ r \in Worlds /\ r.db.last = r.c.last /\ r.c.tick = c.tick
        /\ Skipped(World, r, u) /\ r.db.saved = db.saved
    BY <1>1, <1>2, <1>4, <1>5, <2>1, TickSkips
  <2> QED
    BY <1>1, <1>2, <2>2, <2>3, ContentFails
<1>8. CASE ContentSkippedTwice
  <2>1. PICK o : o = CrawlingSkip(World, u, unlock)
    OBVIOUS
  <2>2. PICK r : r = CrawlingSkip(o, u, unlock)
    OBVIOUS
  <2>3. Become(Failed(r))
    BY <1>2, <1>3, <1>8, <2>1, <2>2 DEF ContentSkippedTwice
  <2>4. /\ r \in Worlds /\ r.db.last = r.c.last /\ r.c.tick = c.tick
        /\ Skipped(World, r, u) /\ r.db.saved = db.saved
    BY <1>1, <1>2, <1>4, <2>1, <2>2, TickSkipsTwice
  <2> QED
    BY <1>1, <1>2, <2>3, <2>4, ContentFails
<1> QED
  BY <1>6, <1>7, <1>8

\* The content is saved, or the URL has been skipped, with its content.
LEMMA ContentSavedKeeps ==
  ASSUME CrawlerAssumption, TypeOK, Inv, ContentSaved
  PROVE  TypeOK' /\ Inv'
<1>1. /\ c.pc = "content" /\ config' = config /\ other' = other /\ c.pc \in UrlStates
  BY DEF ContentSaved, At, SameOther, UrlStates
<1>2. PICK u : u = c.tick.url
  OBVIOUS
<1>3. PICK unlock \in BOOLEAN : unlock = ~config.archives
  OBVIOUS
<1>4. unlock \/ config.archives
  BY <1>3
<1>5. World = WorldOf([c EXCEPT !.tick = c.tick]) /\ c.tick \in TickTypes
  BY SameWorld
<1>6. PICK s \in Stored(u) : \E r \in {World, CrawlingSkip(World, u, unlock)} :
        Become(SaveContent(r, s))
  BY <1>2, <1>3 DEF ContentSaved
<1>7. PICK r \in {World, CrawlingSkip(World, u, unlock)} : Become(SaveContent(r, s))
  BY <1>6
<1>8. /\ r \in Worlds /\ r.db.last = r.c.last /\ r.c.tick = c.tick /\ r.db.saved = db.saved
      /\ Skipped(World, r, u) \/ Retried(World, r, u)
  <2>1. CASE r = World
    <3>1. Retried(World, World, u)
      BY DEF Retried, SameThread, SamePlace, World, TypeOK
    <3> QED
      BY <2>1, <3>1, WorldFacts
  <2>2. CASE r = CrawlingSkip(World, u, unlock)
    BY <1>1, <1>2, <1>4, <1>5, <2>2, TickSkips
  <2> QED
    BY <1>7, <2>1, <2>2
<1> DEFINE t == [c.tick EXCEPT !.failed = FALSE]
<1>9. t \in TickTypes /\ t.url = u
  BY <1>2, <1>5 DEF TickTypes
<1>10. s \in SUBSET Urls /\ u \in s \cup config.large /\ db.saved \subseteq s
  <2>1. u \in Urls /\ db.saved \in SUBSET Urls
    BY <1>1, <1>2, TickUrl DEF TypeOK, Tables
  <2> QED
    BY <1>6, <2>1 DEF Stored
<1>11. PICK q \in {"links", "thrown"} : Leaves(r, t, q, s)
  BY <1>2, <1>8, <1>7, SaveLeaves
<1> HIDE DEF t
<1>12. /\ q \in Finishing \cup {"end", "thrown"} /\ q \in ControlStates
       /\ q \in Archiving => config.archives
  BY <1>11 DEF Finishing, Archiving, ControlStates
<1> QED
  BY <1>1, <1>2, <1>8, <1>9, <1>10, <1>11, <1>12, LeavesKeeps

\* The archives, or one of their pages, cannot be had.
LEMMA PageFailsKeeps ==
  ASSUME CrawlerAssumption, TypeOK, Inv, c.pc \in {"page", "memento"}, config' = config,
         other' = other, NEW skip \in BOOLEAN, Become(Then(PageFails(World, skip), "archived"))
  PROVE  TypeOK' /\ Inv'
<1>1. c.pc \in UrlStates /\ c.pc \in Archiving /\ c.pc \in Finishing /\ config.archives
  BY DEF UrlStates, Finishing, Archiving, Inv, Control
<1>2. PICK u : u = c.tick.url
  OBVIOUS
<1>3. PICK t : t = [c.tick EXCEPT !.success = FALSE]
  OBVIOUS
<1>4. t \in TickTypes /\ t.url = u /\ t.failed = c.tick.failed /\ c.tick.failed \in BOOLEAN
  BY <1>2, <1>3 DEF TypeOK, Memories, TickTypes
<1>5. PICK w : w = WorldOf([c EXCEPT !.tick = t])
  OBVIOUS
<1>6. w = [World EXCEPT !.c.tick.success = FALSE]
  <2>1. [World EXCEPT !.c.tick.success = FALSE] = [World EXCEPT !.c = [c EXCEPT !.tick = t]]
    BY <1>3, WorldFacts DEF Worlds, Memories
  <2>2. [World EXCEPT !.c = [c EXCEPT !.tick = t]] = w
    BY <1>5, SMTT(60) DEF World, WorldOf
  <2> QED
    BY <2>1, <2>2
<1>7. PICK r : r = PageFails(World, skip)
  OBVIOUS
<1>8. \/ \E b \in BOOLEAN : r = CrawlingSkip(w, u, b)
      \/ config.retryArchive /\ r = CrawlingRetry(w, u, TRUE)
  BY <1>2, <1>4, <1>6, <1>7 DEF PageFails
<1>9. /\ r \in Worlds /\ r.db.last = r.c.last /\ r.c.tick = t /\ r.db.saved = db.saved
      /\ Skipped(World, r, u) \/ Retried(World, r, u)
      /\ r.c.pc \in {c.pc, "thrown"}
  <2>1. ASSUME NEW b \in BOOLEAN, r = CrawlingSkip(w, u, b)
        PROVE  /\ r \in Worlds /\ r.db.last = r.c.last /\ r.c.tick = t /\ r.db.saved = db.saved
               /\ Skipped(World, r, u)
               /\ r.c.pc \in {c.pc, "thrown"}
    <3>1. b \/ config.archives
      BY <1>1
    <3> QED
      BY <1>1, <1>2, <1>4, <1>5, <2>1, <3>1, TickSkips
  <2>2. CASE config.retryArchive /\ r = CrawlingRetry(w, u, TRUE)
    <3>1. PICK yes \in BOOLEAN :
            /\ r = CrawlingRetry(w, u, yes)
            /\ yes => config.archives /\ config.retryArchive
      BY <1>1, <2>2
    <3> QED
      BY <1>1, <1>2, <1>4, <1>5, <3>1, TickRetries
  <2> QED
    BY <1>8, <2>1, <2>2
<1>10. PICK q \in {"archived", "thrown"} : Leaves(r, t, q, db.saved)
  BY <1>7, <1>9, ThenLeaves
<1>11. /\ q \in Finishing \cup {"end", "thrown"} /\ q \in ControlStates
       /\ db.saved \in SUBSET Urls
  BY <1>10 DEF Finishing, Archiving, ControlStates, TypeOK, Tables
<1> QED
  BY <1>1, <1>2, <1>4, <1>9, <1>10, <1>11, LeavesKeeps


\* The mementos of a page are done.
LEMMA MementosDoneKeeps ==
  ASSUME CrawlerAssumption, TypeOK, Inv, MementosDone
  PROVE  TypeOK' /\ Inv'
<1>1. /\ c \in Memories /\ db \in Tables /\ c.tick \in TickTypes
      /\ c.archiveRetry \in BOOLEAN /\ c.running \in BOOLEAN /\ c.paused \in BOOLEAN
      /\ db.count \in Counts /\ c.pc = "memento" /\ config' = config /\ other' = other
      /\ {"archived", "page"} \subseteq ControlStates
  BY DEF TypeOK, Memories, Tables, MementosDone, At, SameOther, ControlStates
<1>2. db = Counted(db.count)
  BY <1>1 DEF Tables, Counted
<1>3. ASSUME NEW p \in {"archived", "page"}, Goto(p)
      PROVE  TypeOK' /\ Inv'
  <2>1. c' = [c EXCEPT !.pc = p] /\ db' = db /\ past' = past
    BY <1>1, <1>3 DEF Goto, Then, Become, World
  <2>2. c' = Moved(p, c.tick, c.archiveRetry, c.running, c.paused)
    BY <2>1, <1>1 DEF Memories, Moved
  <2>3. c'.pc = p /\ c'.tick = c.tick => MovesOn
    BY <1>1, <1>3 DEF MovesOn, Inv, Control, SameTick, Finishing, Archiving
  <2> QED
    BY <2>1, <2>2, <2>3, <1>1, <1>2, <1>3, MovedOn
<1>4. ASSUME Become(Then(PageFails(World, TRUE), "archived"))
      PROVE  TypeOK' /\ Inv'
  <2>1. PICK skip \in BOOLEAN : Become(Then(PageFails(World, skip), "archived"))
    BY <1>4
  <2> QED
    BY <1>1, <2>1, PageFailsKeeps
<1> QED
  BY <1>3, <1>4 DEF MementosDone

\* A memento will be tried again, while the other ones are tried.
LEMMA MementoRetriedKeeps ==
  ASSUME CrawlerAssumption, TypeOK, Inv, MementoRetried
  PROVE  TypeOK' /\ Inv'
<1>1. /\ c.pc = "memento" /\ config' = config /\ other' = other /\ c.pc \in UrlStates
      /\ c.pc \in Archiving /\ c.pc \in Finishing /\ config.archives /\ config.retryArchive
      /\ c.tick.mementos > 0
  BY DEF MementoRetried, At, SameOther, UrlStates, Archiving, Finishing, Inv, Control
<1>2. PICK u : u = c.tick.url
  OBVIOUS
<1>3. World = WorldOf([c EXCEPT !.tick = c.tick]) /\ c.tick \in TickTypes
  BY SameWorld
<1>4. PICK yes \in BOOLEAN : yes
  OBVIOUS
<1>5. PICK r : r = CrawlingRetry(World, u, yes)
  OBVIOUS
<1>6. /\ r \in Worlds /\ r.db.last = r.c.last /\ r.c.tick = c.tick /\ r.db.saved = db.saved
      /\ Skipped(World, r, u) \/ Retried(World, r, u)
      /\ r.c.pc \in {c.pc, "thrown"}
  <2>1. yes => config.archives /\ config.retryArchive
    BY <1>1
  <2> QED
    BY <1>1, <1>2, <1>3, <1>5, <2>1, TickRetries
<1>7. PICK n : n = c.tick.mementos - 1
  OBVIOUS
<1>8. PICK t : t = [c.tick EXCEPT !.mementos = n, !.fatal = TRUE]
  OBVIOUS
<1>9. n \in MementoNumbers
  <2>1. c.tick.mementos \in MementoNumbers
    BY <1>3 DEF TickTypes
  <2> QED
    BY <1>1, <1>7, <2>1 DEF MementoNumbers, CrawlerAssumption
<1>10. t \in TickTypes /\ t.url = u /\ t.failed = c.tick.failed
  BY <1>2, <1>3, <1>8, <1>9 DEF TickTypes
<1>11. Become([r EXCEPT !.c.tick.mementos = @ - 1, !.c.tick.fatal = TRUE])
  <2>1. yes = TRUE
    BY <1>4
  <2> QED
    BY <1>2, <1>5, <2>1 DEF MementoRetried
<1>12. PICK q : q = r.c.pc
  OBVIOUS
<1>13. Leaves(r, t, q, db.saved)
  <2>1. r.c \in Memories /\ r.db \in Tables
    BY <1>6 DEF Worlds
  <2>2. r.c.tick \in TickTypes
    BY <1>3, <1>6
  <2>3. c' = [r.c EXCEPT !.tick = t] /\ db' = r.db /\ past' = r.past
    BY <1>6, <1>7, <1>8, <1>11, <2>1, <2>2 DEF Become, Worlds, Memories, TickTypes
  <2>4. [r.c EXCEPT !.tick = t] = [r.c EXCEPT !.tick = t, !.pc = q]
    BY <1>12, <2>1 DEF Memories
  <2>5. r.db = [r.db EXCEPT !.saved = db.saved]
    BY <1>6, <2>1 DEF Tables
  <2> QED
    BY <2>3, <2>4, <2>5 DEF Leaves
<1>14. /\ q \in Finishing \cup {"end", "thrown"} /\ q \in ControlStates
       /\ db.saved \in SUBSET Urls
  BY <1>1, <1>6, <1>12 DEF Finishing, Archiving, ControlStates, TypeOK, Tables
<1> QED
  BY <1>1, <1>2, <1>6, <1>10, <1>13, <1>14, LeavesKeeps

\* A thread that is stopped while it gets the archives of its last URL goes back to
\* the URL before.
LEMMA ArchivesEndKeeps ==
  ASSUME CrawlerAssumption, TypeOK, Inv, ArchivesEnd
  PROVE  TypeOK' /\ Inv'
<1>1. /\ c \in Memories /\ db \in Tables /\ c.tick \in TickTypes
      /\ c.archiveRetry \in BOOLEAN /\ c.running \in BOOLEAN /\ c.paused \in BOOLEAN
      /\ db.count \in Counts /\ c.pc = "archived" /\ config' = config /\ other' = other
      /\ {"done", "end"} \subseteq ControlStates
  BY DEF TypeOK, Memories, Tables, ArchivesEnd, At, SameOther, ControlStates
<1>2. db = Counted(db.count)
  BY <1>1 DEF Tables, Counted
<1>3. PICK a : a = IF c.tick.success \/ ~config.retryArchive THEN FALSE ELSE c.archiveRetry
  OBVIOUS
<1>4. PICK b : b = IF c.tick.failed THEN FALSE ELSE a
  OBVIOUS
<1>5. a \in BOOLEAN /\ b \in BOOLEAN /\ (a => c.archiveRetry) /\ (b => c.archiveRetry)
  BY <1>1, <1>3, <1>4
<1>6. PICK w : w = [World EXCEPT !.c.archiveRetry = a]
  OBVIOUS
<1>7. /\ w.c = [c EXCEPT !.archiveRetry = a] /\ w.db = db /\ w.past = past
      /\ w = [c |-> w.c, db |-> w.db, past |-> w.past] /\ w.c.pc = c.pc
  BY <1>1, <1>6 DEF World, Memories
<1>8. Become(IF c.running THEN Then(w, "done")
             ELSE GiveUpArchives(IF c.tick.url = c.last THEN SetLast(w, c.penultimate) ELSE w))
  <2>1. w = [World EXCEPT !.c.archiveRetry =
               IF c.tick.success \/ ~config.retryArchive THEN FALSE ELSE @]
    BY <1>1, <1>3, <1>6 DEF World
  <2> QED
    BY <2>1 DEF ArchivesEnd
<1>9. CASE c.running
  <2>1. c' = [w.c EXCEPT !.pc = "done"] /\ db' = db /\ past' = past
    BY <1>1, <1>7, <1>8, <1>9 DEF Become, Then
  <2>2. c' = Moved("done", c.tick, a, c.running, c.paused)
    BY <1>1, <1>7, <2>1 DEF Memories, Moved
  <2>3. c'.pc = "done" /\ c'.tick = c.tick => MovesOn
    BY <1>1 DEF MovesOn, SameTick, Finishing, Archiving
  <2> QED
    BY <2>1, <2>2, <2>3, <1>1, <1>2, <1>5, MovedOn
<1>10. CASE ~c.running /\ c.tick.url # c.last
  <2>1. c' = [w.c EXCEPT !.archiveRetry = b, !.pc = "end"] /\ db' = db /\ past' = past
    <3>1. Become(GiveUpArchives(w))
      BY <1>8, <1>10
    <3>2. PICK v : v = [w EXCEPT !.c.archiveRetry = IF c.tick.failed THEN FALSE ELSE @]
      OBVIOUS
    <3>3. /\ v.c = [w.c EXCEPT !.archiveRetry = b] /\ v.db = w.db /\ v.past = w.past
          /\ v = [c |-> v.c, db |-> v.db, past |-> v.past] /\ v.c.pc = c.pc
      BY <1>1, <1>4, <1>7, <3>2 DEF Memories
    <3> QED
      BY <1>1, <1>7, <3>1, <3>2, <3>3 DEF Become, GiveUpArchives, Then
  <2>2. c' = Moved("end", c.tick, b, c.running, c.paused)
    BY <1>1, <1>7, <2>1 DEF Memories, Moved
  <2>3. c'.pc = "end" /\ c'.tick = c.tick => MovesOn
    BY <1>1 DEF MovesOn, SameTick, Finishing, Archiving
  <2> QED
    BY <2>1, <2>2, <2>3, <1>1, <1>2, <1>5, MovedOn
<1>11. CASE ~c.running /\ c.tick.url = c.last
  <2> DEFINE p == c.penultimate
  <2>1. /\ c' = [w.c EXCEPT !.last = p, !.archiveRetry = b, !.pc = "end"]
        /\ db' = [db EXCEPT !.last = p] /\ past' = past
    <3>1. Become(GiveUpArchives(SetLast(w, p)))
      BY <1>8, <1>11
    <3>2. PICK l : l = SetLast(w, p)
      OBVIOUS
    <3>3. /\ l.c = [w.c EXCEPT !.last = p] /\ l.db = [db EXCEPT !.last = p] /\ l.past = past
          /\ l = [c |-> l.c, db |-> l.db, past |-> l.past]
      BY <1>7, <3>2 DEF SetLast
    <3>4. PICK v : v = [l EXCEPT !.c.archiveRetry = IF c.tick.failed THEN FALSE ELSE @]
      OBVIOUS
    <3>5. /\ v.c = [w.c EXCEPT !.last = p, !.archiveRetry = b] /\ v.db = l.db /\ v.past = l.past
          /\ v = [c |-> v.c, db |-> v.db, past |-> v.past] /\ v.c.pc = c.pc
      BY <1>1, <1>4, <1>7, <3>3, <3>4 DEF Memories
    <3> QED
      BY <1>1, <3>1, <3>2, <3>3, <3>4, <3>5 DEF Become, GiveUpArchives, Then
  <2>2. p \in Ids
    BY <1>1 DEF Memories
  <2> HIDE DEF p
  <2>3. /\ c' \in Memories /\ c'.pc = "end" /\ c'.tick = c.tick /\ c'.last = p
        /\ c'.retryCounter = c.retryCounter /\ SameModes /\ c'.restore = c.restore
        /\ c'.penultimate = c.penultimate /\ c'.nextUrl = c.nextUrl /\ c'.warped = c.warped
        /\ c'.lockTime = c.lockTime /\ c'.archiveRetry = b /\ c'.running = c.running
    BY <1>1, <1>5, <1>7, <2>1, <2>2, ZenonT(60) DEF Memories, SameModes
  <2>4. /\ db' \in Tables /\ db'.last = p /\ db'.lock = db.lock /\ db'.success = db.success
        /\ db'.saved = db.saved
    BY <1>1, <2>1, <2>2 DEF Tables
  <2>5. TypeOK'
    BY <1>1, <2>1, <2>3, <2>4 DEF TypeOK
  <2>6. /\ c.tick.url \in Urls /\ c.tick.url > 0 /\ ~c.warped /\ c.manualOff /\ c.manualUrl = 0
        /\ config.archives
    <3>1. /\ c.tick.url \in Urls /\ c.tick.url > 0 /\ ~c.warped
          /\ c.manualOff => c.manualUrl = 0
          /\ ~c.manualOff => c.last = 0
      BY <1>1, TickUrl DEF UrlStates, Finishing, Archiving
    <3> QED
      BY <1>1, <1>11, <3>1 DEF Inv, Control, Archiving
  <2>7. p <= c.last /\ c.last \in Ids /\ p \in Int /\ c.last \in Int /\ c.nextUrl \in Int
    <3>1. p <= c.last
      BY <1>11, <2>6 DEF Inv, Positions, p
    <3>2. c.last \in Ids /\ c.nextUrl \in Ids
      BY <1>1 DEF Memories
    <3> QED
      BY <2>2, <3>1, <3>2 DEF Ids
  <2>8. Control' /\ ContentFirst'
    BY <1>1, <1>5, <2>3, <2>4, <2>6 DEF Inv, Control, ContentFirst, Archiving, Finishing,
       UrlStates, Selecting
  <2>9. Modes'
    BY <1>1, <1>11, <2>3, <2>6 DEF Inv, Modes, ManualDone, SameModes, Selecting
  <2>10. Positions'
    <3>1. \A n : CoveredTo(n)' <=> CoveredTo(n)
      BY <2>1, <2>4 DEF CoveredTo, Covered, Known
    <3>2. \A n : Known(n)' <=> Known(n)
      BY <2>1, <2>4 DEF Known
    <3>3. CoveredTo(p)
      <4>1. CoveredTo(c.last)
        BY DEF Inv, Positions
      <4>2. 1 .. p \subseteq 1 .. c.last
        BY <2>7
      <4> QED
        BY <4>1, <4>2 DEF CoveredTo
    <3>4. \A x \in {c.nextUrl, c.tick.url} \ {0} :
            x >= c.last /\ CoveredTo(x - 1) /\ (x = c.last => Known(x))
      BY <2>6 DEF Inv, Positions
    <3>5. \A x \in {c.nextUrl, c.tick.url} \ {0} :
            x >= p /\ CoveredTo(x - 1)' /\ (x = p => Known(x)')
      <4> SUFFICES ASSUME NEW x \in {c.nextUrl, c.tick.url} \ {0}
                   PROVE  x >= p /\ CoveredTo(x - 1)' /\ (x = p => Known(x)')
        OBVIOUS
      <4>1. x \in Int
        BY <1>11, <2>7
      <4>2. x >= c.last
        BY <3>4
      <4>3. x >= p /\ (x = p => x = c.last)
        BY <2>7, <4>1, <4>2
      <4> QED
        BY <3>1, <3>2, <3>4, <4>3
    <3>6. p <= p
      BY <2>7
    <3> QED
      BY <1>1, <2>3, <2>6, <3>1, <3>3, <3>5, <3>6 DEF Positions, SameModes, p
  <2>11. Locks'
    <3>1. Alive' = Alive /\ Current' = Current
      BY <1>1, <2>3, <2>4 DEF Alive, Current, SameModes
    <3>2. "end" \notin UrlStates /\ c.pc \in UrlStates
      BY <1>1 DEF UrlStates, Finishing, Archiving
    <3> QED
      BY <1>1, <2>1, <2>3, <2>4, <3>1, <3>2 DEF Inv, Locks
  <2> QED
    BY <2>5, <2>8, <2>9, <2>10, <2>11 DEF Inv
<1> QED
  BY <1>9, <1>10, <1>11


\* A URL that is finished is known: it counts as crawled, unless somebody else holds it.
LEMMA SuccessKnown ==
  ASSUME CrawlerAssumption, TypeOK, Inv, c.pc = "done", NEW u, u = c.tick.url,
         NEW r \in Worlds, Succeeds(World, r, u), db'.success = r.db.success, past' = r.past
  PROVE  /\ Known(u)' /\ (Mine(World, u) \/ other[u] = "holds")
         /\ Grows /\ past'.left = past.left /\ past'.skipped = past.skipped
<1>1. u \in Urls /\ c.pc \in UrlStates \cup {"end"} /\ c.pc \in UrlStates
  BY TickUrl DEF UrlStates, Finishing
<1>2. /\ c.lockTime \in LockTimes /\ db.lock[u] \in LockTimes /\ db.success \in [Urls -> BOOLEAN]
      /\ past.base \in Int
  BY <1>1 DEF TypeOK, Memories, Tables, Pasts, Ids
<1>3. c.lockTime # NoLock /\ db.lock[u] >= Passed
      /\ (db.lock[u] <= c.lockTime \/ other[u] = "holds")
  BY <1>1, WorldFacts DEF Succeeds, Inv, Locks
<1>4. Mine(World, u) \/ other[u] = "holds"
  <2>1. db.lock[u] \in Int /\ c.lockTime \in Int
    BY <1>2 DEF LockTimes, NoRow, CrawlerAssumption
  <2>2. db.lock[u] <= c.lockTime => db.lock[u] \in Passed .. c.lockTime
    BY <1>3, <2>1 DEF Passed
  <2> QED
    BY <1>3, <2>2, WorldFacts DEF Mine
<1>5. /\ past'.left = past.left /\ past'.skipped = past.skipped /\ past'.base = past.base
      /\ past'.foreign = past.foreign
      /\ db'.success = IF Mine(World, u) THEN [db.success EXCEPT ![u] = TRUE] ELSE db.success
  BY WorldFacts DEF Succeeds, SameThread
<1>6. Grows
  BY <1>2, <1>5 DEF Grows
<1>7. Known(u)'
  <2>1. CASE Mine(World, u)
    <3>1. db'.success = [db.success EXCEPT ![u] = TRUE]
      BY <1>5, <2>1
    <3>2. db'.success[u]
      BY <1>1, <1>2, <3>1
    <3> QED
      BY <3>2 DEF Known
  <2>2. CASE other[u] = "holds"
    <3>1. u \in past'.foreign
      BY <1>1, <1>5, <2>2 DEF Inv, Locks
    <3> QED
      BY <3>1 DEF Known
  <2> QED
    BY <1>4, <2>1, <2>2
<1> QED
  BY <1>4, <1>5, <1>6, <1>7

\* A URL that is finished counts as crawled, and is left unlocked.
LEMMA SuccessKeeps ==
  ASSUME CrawlerAssumption, TypeOK, Inv, c.pc = "done", ~c.tick.failed, NEW u, u = c.tick.url,
         config' = config, other' = other,
         NEW r \in Worlds, r.db.last = r.c.last, Succeeds(World, r, u),
         Leaves(r, c.tick, "end", db.saved)
  PROVE  TypeOK' /\ Inv'
<1>1. /\ u \in Urls /\ u > 0 /\ Current \in {0, u} /\ ~c.warped
      /\ c.manualOff => c.manualUrl = 0 /\ c.nextUrl \in {0, u}
      /\ ~c.manualOff => u \in Manual /\ c.last = 0 /\ c.manualUrl \in {0, u}
      /\ 0 \notin Urls /\ c.pc \in UrlStates
  BY TickUrl DEF UrlStates, Finishing, Urls
<1>2. /\ c.tick \in TickTypes /\ "end" \in ControlStates /\ db.saved \in SUBSET Urls
  BY DEF TypeOK, Memories, Tables, ControlStates
<1>3. /\ c' \in Memories /\ c'.pc = "end" /\ c'.tick = c.tick /\ c'.retryCounter = r.c.retryCounter
      /\ c'.manualUrl = r.c.manualUrl /\ c'.manualCounter = r.c.manualCounter
      /\ c'.startCrawled = r.c.startCrawled /\ c'.manualOff = r.c.manualOff
      /\ c'.last = r.c.last /\ c'.restore = r.c.restore /\ c'.penultimate = r.c.penultimate
      /\ c'.nextUrl = r.c.nextUrl /\ c'.warped = r.c.warped /\ c'.lockTime = r.c.lockTime
      /\ c'.archiveRetry = r.c.archiveRetry /\ c'.running = r.c.running
      /\ db' \in Tables /\ db'.lock = r.db.lock /\ db'.success = r.db.success
      /\ db'.last = r.db.last /\ db'.saved = db.saved
      /\ past' \in Pasts /\ past' = r.past
  BY <1>2, LeavesFacts
<1>4. /\ c'.retryCounter = 0 /\ c'.nextUrl = 0 /\ c'.lockTime = NoLock
      /\ c'.archiveRetry = c.archiveRetry /\ c'.manualOff = c.manualOff
      /\ c'.restore = c.restore /\ c'.warped = c.warped /\ c'.running = c.running
      /\ db'.success = IF Mine(World, u) THEN [db.success EXCEPT ![u] = TRUE] ELSE db.success
      /\ db'.lock = IF Mine(World, u) THEN [db.lock EXCEPT ![u] = Passed] ELSE db.lock
      /\ past'.foreign = past.foreign
  BY <1>3, WorldFacts, ZenonT(60) DEF Succeeds, SameThread, Unlocks
<1>5. /\ Known(u)' /\ (Mine(World, u) \/ other[u] = "holds")
      /\ Grows /\ past'.left = past.left /\ past'.skipped = past.skipped
  BY <1>3, SuccessKnown
<1>6. TypeOK'
  BY <1>3, <1>4 DEF TypeOK
<1>7. /\ c'.manualUrl = 0
      /\ \/ ~c.manualOff /\ c'.last = c.last
         \/ /\ c.manualOff /\ c'.last = u
            /\ config.archives => c'.penultimate = c.last
  <2>1. Advances(World, r, u)
    BY DEF Succeeds
  <2>2. CASE NextPage(World, r)
    <3>1. c.manualUrl > 0 /\ c'.manualUrl = 0 /\ c'.last = c.last
      BY <1>3, <2>2, WorldFacts DEF NextPage
    <3>2. ~c.manualOff
      BY <1>1, <3>1
    <3> QED
      BY <3>1, <3>2
  <2>3. CASE NextLast(World, r, u)
    BY <1>1, <1>3, <2>3, WorldFacts DEF NextLast
  <2>4. CASE World.c.manualUrl = 0 /\ ~World.c.manualOff /\ SamePlace(World, r)
    BY <1>3, <2>4, WorldFacts DEF SamePlace
  <2> QED
    BY <2>1, <2>2, <2>3, <2>4 DEF Advances
<1>8. Control'
  BY <1>1, <1>3, <1>4 DEF Control, Selecting, UrlStates, Finishing, Archiving
<1>9. ContentFirst'
  <2>1. db.success \in [Urls -> BOOLEAN]
    BY DEF TypeOK, Tables
  <2>2. \A x \in Urls : db'.success[x] => db.success[x] \/ x = u
    BY <1>4, <2>1
  <2>3. "end" \notin Finishing /\ c.pc \in Finishing
    BY DEF Finishing, Archiving
  <2> QED
    BY <1>3, <1>4, <2>2, <2>3 DEF Inv, ContentFirst
<1>10. Modes'
  BY <1>1, <1>3, <1>4, <1>7 DEF Inv, Modes, Selecting
<1>11. c.last \in Ids /\ c.restore \in Ids /\ u \in Ids /\ u \in Int /\ c.last \in Int
  <2>1. c.last \in Ids /\ c.restore \in Ids
    BY DEF TypeOK, Memories
  <2> QED
    BY <1>1, <2>1, IdUrls DEF Ids
<1>12. Positions'
  <2>1. \A n \in Ids : (CoveredTo(n) => CoveredTo(n)') /\ (CoveredTo(n - 1) => CoveredTo(n - 1)')
    BY <1>5, <1>6, CoveredStays
  <2>2. CASE ~c.manualOff
    <3>1. CoveredTo(c.last) /\ CoveredTo(c.restore)
      BY <2>2 DEF Inv, Positions
    <3>2. CoveredTo(c.last)' /\ CoveredTo(c.restore)'
      <4>1. c'.last = c.last /\ c'.restore = c.restore
        BY <1>4, <1>7, <2>2
      <4> QED
        BY <1>11, <2>1, <3>1, <4>1
    <3> QED
      BY <1>1, <1>3, <1>4, <1>7, <2>2, <3>2 DEF Positions
  <2>3. CASE c.manualOff
    <3>1. u >= c.last /\ CoveredTo(u - 1)
      BY <1>1, <2>3 DEF Inv, Positions
    <3>2. CoveredTo(u - 1)'
      BY <1>11, <2>1, <3>1
    <3>3. CoveredTo(u)'
      <4> SUFFICES ASSUME NEW x \in 1 .. u PROVE Covered(x)'
        BY DEF CoveredTo
      <4>1. x = u \/ x \in 1 .. (u - 1)
        BY <1>11
      <4> QED
        BY <1>5, <3>2, <4>1 DEF CoveredTo, Covered
    <3>4. u >= u
      BY <1>11
    <3>5. c'.last = u /\ (config.archives => c'.penultimate = c.last)
      BY <1>7, <2>3
    <3> QED
      BY <1>1, <1>3, <1>4, <1>5, <2>3, <3>1, <3>2, <3>3, <3>4, <3>5 DEF Positions
  <2> QED
    BY <2>2, <2>3
<1>13. Locks'
  <2>1. Current' = 0
    BY <1>4, <1>7 DEF Current
  <2>2. db.lock \in [Urls -> LockTimes]
    BY DEF TypeOK, Tables
  <2>3. \A x \in Urls : x # u => db'.lock[x] = db.lock[x]
    BY <1>4, <2>2
  <2>4. u \notin Alive'
    <3>1. CASE Mine(World, u)
      <4>1. db'.lock = [db.lock EXCEPT ![u] = Passed]
        BY <1>4, <3>1
      <4>2. db'.lock[u] = Passed
        BY <1>1, <2>2, <4>1
      <4> QED
        BY <4>2 DEF Alive, Passed
    <3>2. CASE other[u] = "holds"
      BY <3>2 DEF Alive
    <3> QED
      BY <1>5, <3>1, <3>2
  <2>5. \A x \in Alive' \ past'.left : config.archives /\ x \in past'.skipped
    <3> SUFFICES ASSUME NEW x \in Alive' \ past'.left
                 PROVE  config.archives /\ x \in past'.skipped
      OBVIOUS
    <3>1. x # u /\ x \in Urls
      BY <2>4 DEF Alive
    <3>2. x \in Alive \ past.left
      BY <1>5, <2>3, <3>1 DEF Alive
    <3> QED
      BY <1>1, <1>5, <3>1, <3>2 DEF Inv, Locks
  <2>6. "end" \notin UrlStates
    BY DEF UrlStates, Finishing, Archiving
  <2>7. \A x \in Urls : other'[x] = "holds" => x \in past'.foreign
    BY <1>4 DEF Inv, Locks
  <2> QED
    BY <1>3, <1>4, <2>1, <2>5, <2>6, <2>7 DEF Locks
<1> QED
  BY <1>6, <1>8, <1>9, <1>10, <1>12, <1>13 DEF Inv

\* The URL is done, with or without its content; without a lock time it throws.
LEMMA UrlDoneKeeps ==
  ASSUME CrawlerAssumption, TypeOK, Inv, UrlDone
  PROVE  TypeOK' /\ Inv'
<1>1. /\ c \in Memories /\ db \in Tables /\ c.tick \in TickTypes
      /\ c.archiveRetry \in BOOLEAN /\ c.running \in BOOLEAN /\ c.paused \in BOOLEAN
      /\ db.count \in Counts /\ c.pc = "done" /\ config' = config /\ other' = other
      /\ {"end", "thrown"} \subseteq ControlStates /\ db.saved \in SUBSET Urls
      /\ config \in Configs /\ c.pc \in UrlStates
  BY DEF TypeOK, Memories, Tables, UrlDone, At, SameOther, ControlStates, UrlStates, Finishing
<1>2. CASE c.tick.failed
  <2>1. db = Counted(db.count)
    BY <1>1 DEF Tables, Counted
  <2>2. c' = [c EXCEPT !.pc = "end"] /\ db' = db /\ past' = past
    BY <1>1, <1>2 DEF UrlDone, Then, Become, World
  <2>3. c' = Moved("end", c.tick, c.archiveRetry, c.running, c.paused)
    BY <1>1, <2>2 DEF Memories, Moved
  <2>4. c'.pc = "end" /\ c'.tick = c.tick => MovesOn
    BY <1>1 DEF MovesOn, SameTick, Finishing, Archiving
  <2> QED
    BY <1>1, <2>1, <2>2, <2>3, <2>4, MovedOn, SMTT(60)
<1>3. CASE ~c.tick.failed
  <2>1. PICK u : u = c.tick.url
    OBVIOUS
  <2>2. PICK r : r = CrawlingSuccess(World, u)
    OBVIOUS
  <2>3. Become(Then(r, "end"))
    BY <1>3, <2>1, <2>2 DEF UrlDone
  <2>4. u \in Urls
    BY <1>1, <2>1, TickUrl
  <2>5. r \in Worlds /\ r.db.last = r.c.last /\ (Succeeds(World, r, u) \/ Throws(World, r))
    <3>1. World.c.pc # "thrown"
      BY <1>1, WorldFacts
    <3> QED
      BY <1>1, <2>2, <2>4, <3>1, WorldFacts, SuccessEffect
  <2>6. PICK q \in {"end", "thrown"} :
          q \in {"end", r.c.pc} /\ Leaves(r, r.c.tick, q, r.db.saved)
    BY <2>3, <2>5, ThenLeaves
  <2>7. CASE Succeeds(World, r, u)
    <3>1. r.c.tick = c.tick /\ r.c.pc = c.pc /\ r.db.saved = db.saved
      BY <2>7, WorldFacts DEF Succeeds, SameThread
    <3>2. Leaves(r, c.tick, "end", db.saved)
      BY <1>1, <2>6, <3>1
    <3> QED
      BY <1>1, <1>3, <2>1, <2>5, <2>7, <3>2, SuccessKeeps
  <2>8. CASE Throws(World, r)
    <3>1. r.c.tick = c.tick /\ r.db.saved = db.saved
      BY <1>1, <2>8, WorldFacts DEF Throws, Memories
    <3>2. Retried(World, r, u)
      <4>1. r.c = [c EXCEPT !.pc = "thrown"] /\ r.db = db /\ r.past = past
        BY <2>8, WorldFacts DEF Throws
      <4>2. /\ r.c.retryCounter = c.retryCounter /\ r.c.lockTime = c.lockTime
            /\ r.c.nextUrl = c.nextUrl /\ r.c.archiveRetry = c.archiveRetry
            /\ SamePlace(World, r)
        BY <1>1, <4>1, WorldFacts DEF SamePlace, Memories
      <4>3. SameThread(World, r)
        BY <1>1, <4>1, WorldFacts DEF SameThread, Memories
      <4>4. c.retryCounter = 0 \/ c.retryCounter <= config.reTries
        BY DEF TypeOK
      <4> QED
        BY <4>1, <4>2, <4>3, <4>4, WorldFacts DEF Retried
    <3>3. Leaves(r, c.tick, q, db.saved)
      BY <2>6, <3>1
    <3>4. /\ q \in Finishing \cup {"end", "thrown"} /\ q \in ControlStates
          /\ q \in Archiving => config.archives
          /\ q \in Finishing /\ ~c.tick.failed =>
               u \in db.saved \/ (c.pc \in Finishing /\ ~c.tick.failed)
      BY <1>1, <2>6 DEF Finishing, Archiving
    <3>5. c.tick.url = u /\ db.saved \subseteq db.saved
      BY <2>1
    <3>6. Skipped(World, r, u) \/ Retried(World, r, u)
      BY <3>2
    <3>7. PICK t \in TickTypes : t = c.tick
      BY <1>1
    <3> QED
      BY <1>1, <2>1, <2>5, <3>3, <3>4, <3>5, <3>6, <3>7, LeavesKeeps
  <2> QED
    BY <2>5, <2>7, <2>8
<1> QED
  BY <1>2, <1>3

\* A thread that has been stopped unlocks its URL at the end of the tick.
LEMMA UrlEndKeeps ==
  ASSUME CrawlerAssumption, TypeOK, Inv, UrlEnd
  PROVE  TypeOK' /\ Inv'
<1>1. /\ c \in Memories /\ db \in Tables /\ NoTick \in TickTypes
      /\ c.archiveRetry \in BOOLEAN /\ c.running \in BOOLEAN /\ c.paused \in BOOLEAN
      /\ db.count \in Counts /\ c.pc = "end" /\ config' = config /\ other' = other
      /\ "ticked" \in ControlStates /\ NoLock \in LockTimes /\ NoTick.url = 0
  <2>1. /\ c \in Memories /\ db \in Tables
        /\ c.archiveRetry \in BOOLEAN /\ c.running \in BOOLEAN /\ c.paused \in BOOLEAN
        /\ db.count \in Counts
    BY DEF TypeOK, Memories, Tables
  <2>2. NoTick \in TickTypes /\ NoTick.url = 0
    BY DEF NoTick, TickTypes, Ids, MementoNumbers, CrawlerAssumption
  <2>3. "ticked" \in ControlStates /\ NoLock \in LockTimes
    BY DEF ControlStates, LockTimes, NoLock, NoRow, CrawlerAssumption
  <2> QED
    BY <2>1, <2>2, <2>3 DEF UrlEnd, At, SameOther
<1>2. CASE ~(c.lockTime # NoLock /\ ~c.running)
  <2>1. db = Counted(db.count)
    BY <1>1 DEF Tables, Counted
  <2>2. Become(EndTick(World))
    BY <1>2 DEF UrlEnd
  <2>3. c' = [c EXCEPT !.tick = NoTick, !.pc = "ticked"] /\ db' = db /\ past' = past
    BY <1>1, <2>2 DEF EndTick, Then, Become, World, Memories
  <2>4. c' = Moved("ticked", NoTick, c.archiveRetry, c.running, c.paused)
    BY <1>1, <2>3 DEF Memories, Moved
  <2>5. c'.pc = "ticked" /\ c'.tick = NoTick => MovesOn
    BY <1>1 DEF MovesOn
  <2> QED
    BY <1>1, <2>1, <2>3, <2>4, <2>5, MovedOn
<1>3. CASE c.lockTime # NoLock /\ ~c.running
  <2>1. PICK u : u = c.tick.url
    OBVIOUS
  <2>2. PICK r : r = Unlock(World, u)
    OBVIOUS
  <2>3. Become(EndTick(LoseLock(r)))
    BY <1>3, <2>1, <2>2 DEF UrlEnd
  <2>4. u \in Urls /\ Current \in {0, u} /\ 0 \notin Urls /\ ~c.warped
    BY <1>1, <2>1, TickUrl DEF Urls
  <2>5. /\ r \in Worlds /\ r.db.last = r.c.last /\ r.past = past
        /\ SameThread(World, r) /\ SamePlace(World, r)
        /\ r.c.pc = "end" /\ r.c.nextUrl = c.nextUrl
        /\ r.c.retryCounter = c.retryCounter /\ r.c.archiveRetry = c.archiveRetry
        /\ Unlocks(World, r, u) /\ r.db.success = db.success
    BY <1>1, <1>3, <2>2, <2>4, WorldFacts, UnlockEffect
  <2>6. c' = [r.c EXCEPT !.lockTime = NoLock, !.tick = NoTick, !.pc = "ticked"]
        /\ db' = r.db /\ past' = past
    <3>1. PICK v : v = LoseLock(r)
      OBVIOUS
    <3>2. /\ v.c = [r.c EXCEPT !.lockTime = NoLock] /\ v.db = r.db /\ v.past = r.past
          /\ v = [c |-> v.c, db |-> v.db, past |-> v.past]
      BY <2>5, <3>1 DEF LoseLock, Worlds
    <3>3. PICK e : e = [v EXCEPT !.c.tick = NoTick]
      OBVIOUS
    <3>4. /\ e.c = [v.c EXCEPT !.tick = NoTick] /\ e.db = v.db /\ e.past = v.past
          /\ e = [c |-> e.c, db |-> e.db, past |-> e.past]
      BY <3>2, <3>3
    <3>5. e.c.pc = "end"
      BY <2>5, <3>2, <3>4 DEF Worlds, Memories
    <3>6. c' = [e.c EXCEPT !.pc = "ticked"] /\ db' = e.db /\ past' = e.past
      BY <2>3, <3>1, <3>3, <3>4, <3>5 DEF EndTick, Then, Become
    <3>7. r.c \in Memories
      BY <2>5 DEF Worlds
    <3> QED
      BY <2>5, <3>2, <3>4, <3>6, <3>7 DEF Memories
  <2>7. /\ c' \in Memories /\ c'.pc = "ticked" /\ c'.tick = NoTick /\ c'.lockTime = NoLock
        /\ c'.retryCounter = c.retryCounter /\ c'.archiveRetry = c.archiveRetry
        /\ c'.last = r.c.last
    <3>1. r.c \in Memories
      BY <2>5 DEF Worlds
    <3>2. c' \in Memories
      BY <1>1, <2>6, <3>1 DEF Memories
    <3> QED
      BY <2>5, <2>6, <3>1, <3>2 DEF Memories
  <2>8. SameModes /\ SamePlaces /\ c'.running = c.running
    <3>1. r.c \in Memories
      BY <2>5 DEF Worlds
    <3>2. /\ c'.manualUrl = r.c.manualUrl /\ c'.manualCounter = r.c.manualCounter
          /\ c'.startCrawled = r.c.startCrawled /\ c'.manualOff = r.c.manualOff
          /\ c'.last = r.c.last /\ c'.restore = r.c.restore /\ c'.penultimate = r.c.penultimate
          /\ c'.nextUrl = r.c.nextUrl /\ c'.warped = r.c.warped /\ c'.running = r.c.running
      BY <2>6, <3>1 DEF Memories
    <3> QED
      BY <2>5, <3>2, WorldFacts DEF SameThread, SamePlace, SameModes, SamePlaces
  <2>9. SameMarks /\ db' \in Tables /\ db'.last = c'.last
    BY <2>5, <2>6, <2>7, WorldFacts DEF SameMarks, SameThread, Worlds
  <2>10. TypeOK'
    BY <1>1, <2>6, <2>7, <2>9 DEF TypeOK
  <2>11. Control' /\ ContentFirst'
    BY <1>1, <2>4, <2>7, <2>8, <2>9 DEF Inv, Control, ContentFirst, SamePlaces, SameMarks,
       Archiving, Finishing, UrlStates
  <2>12. Modes'
    BY <1>1, <2>7, <2>8 DEF Inv, Modes, ManualDone, SameModes, SamePlaces, Selecting
  <2>13. Positions'
    BY <1>1, <2>7, <2>8, <2>9, PositionsStay DEF Inv, SameModes
  <2>14. Locks'
    <3>1. Current' = Current
      BY <2>8 DEF Current, SameModes, SamePlaces
    <3>2. db.lock \in [Urls -> LockTimes] /\ c.lockTime \in LockTimes
      BY <1>1 DEF Tables, Memories
    <3>3. db'.lock = IF Mine(World, u) THEN [db.lock EXCEPT ![u] = Passed] ELSE db.lock
      BY <2>5, <2>6, WorldFacts DEF Unlocks
    <3>4. \A x \in Urls : x # u => db'.lock[x] = db.lock[x]
      BY <3>2, <3>3
    <3>5. u \notin Alive'
      <4> SUFFICES ASSUME u \in Alive' PROVE FALSE
        OBVIOUS
      <4>1. ~Mine(World, u)
        <5> SUFFICES ASSUME Mine(World, u) PROVE FALSE
          OBVIOUS
        <5>1. db'.lock = [db.lock EXCEPT ![u] = Passed]
          BY <3>3
        <5>2. db'.lock[u] = Passed
          BY <2>4, <3>2, <5>1
        <5> QED
          BY <5>2 DEF Alive, Passed
      <4>2. db.lock[u] >= 0 /\ other[u] # "holds"
        BY <1>1, <3>3, <4>1 DEF Alive
      <4>3. db.lock[u] <= c.lockTime
        BY <1>1, <1>3, <2>1, <2>4, <4>2 DEF Inv, Locks
      <4>4. db.lock[u] \in Int /\ c.lockTime \in Int
        BY <2>4, <3>2 DEF LockTimes, NoRow, CrawlerAssumption
      <4>5. db.lock[u] \in Passed .. c.lockTime
        BY <4>2, <4>3, <4>4 DEF Passed
      <4> QED
        BY <4>1, <4>5, WorldFacts DEF Mine
    <3>6. \A x \in Alive' \ past'.left : config.archives /\ x \in past'.skipped
      <4> SUFFICES ASSUME NEW x \in Alive' \ past'.left
                   PROVE  config.archives /\ x \in past'.skipped
        OBVIOUS
      <4>1. x # u /\ x \in Urls
        BY <3>5 DEF Alive
      <4>2. x \in Alive \ past.left
        BY <1>1, <2>6, <3>4, <4>1 DEF Alive
      <4> QED
        BY <2>4, <2>6, <4>1, <4>2 DEF Inv, Locks
    <3>7. "ticked" \notin UrlStates \cup {"end", "next"}
      BY DEF UrlStates, Finishing, Archiving
    <3>8. \A x \in Urls : other'[x] = "holds" => x \in past'.foreign
      BY <1>1, <2>6 DEF Inv, Locks
    <3> QED
      BY <1>1, <2>7, <3>6, <3>7, <3>8 DEF Locks
  <2> QED
    BY <2>10, <2>11, <2>12, <2>13, <2>14 DEF Inv
<1> QED
  BY <1>2, <1>3


-----------------------------------------------------------------------------
(* The theorems.                                                            *)

\* A crawler starts with nothing passed and nothing locked.
LEMMA InitKeeps ==
  ASSUME CrawlerAssumption, Init
  PROVE  TypeOK /\ Inv
<1>1. /\ 0 \in Ids /\ 0 \in Nat /\ 0 \in MementoNumbers /\ NoLock \in LockTimes
      /\ NoRow \in LockTimes /\ FirstCount \in Counts /\ "tick" \in ControlStates
  BY DEF CrawlerAssumption, Ids, MementoNumbers, LockTimes, NoLock, NoRow, Counts, Urls,
     ControlStates
<1>2. 0 \in PageNumbers
  BY LenProperties DEF PageNumbers, CrawlerAssumption
<1>3. NoTick \in TickTypes /\ NoTick.url = 0
  BY <1>1 DEF NoTick, TickTypes
<1>4. c \in Memories
  BY <1>1, <1>2, <1>3 DEF Init, Fresh, Memories
<1>5. /\ db \in Tables /\ db.last = 0 /\ db.lock = [u \in Urls |-> NoRow]
      /\ db.success = [u \in Urls |-> FALSE]
  BY <1>1 DEF Init, Tables
<1>6. past \in Pasts
  BY <1>1 DEF Init, Pasts
<1>7. /\ c.pc = "tick" /\ c.tick = NoTick /\ c.last = 0 /\ c.restore = 0 /\ c.manualUrl = 0
      /\ c.nextUrl = 0 /\ c.retryCounter = 0 /\ ~c.archiveRetry /\ ~c.manualOff /\ ~c.warped
      /\ c.lockTime = NoLock
  BY DEF Init, Fresh
<1>8. TypeOK
  <2>1. other \in [Urls -> {"none", "holds", "lost"}] /\ config \in Configs
    BY DEF Init
  <2> QED
    BY <1>4, <1>5, <1>6, <1>7, <2>1 DEF TypeOK
<1>9. Control
  BY <1>7 DEF Control, UrlStates, Finishing, Archiving
<1>10. ContentFirst
  BY <1>5, <1>7 DEF ContentFirst, Finishing, Archiving
<1>11. Modes
  BY <1>3, <1>7 DEF Modes, Selecting
<1>12. Positions
  <2>1. CoveredTo(0)
    BY DEF CoveredTo
  <2> QED
    BY <1>3, <1>7, <2>1 DEF Positions
<1>13. Locks
  <2>1. \A u \in Urls : other[u] = "none" /\ db.lock[u] = NoRow
    BY <1>5 DEF Init
  <2>2. Alive = {}
    BY <2>1 DEF Alive, NoRow
  <2> QED
    BY <1>7, <2>1, <2>2 DEF Locks, UrlStates, Finishing, Archiving
<1> QED
  BY <1>8, <1>9, <1>10, <1>11, <1>12, <1>13 DEF Inv

\* Every step of the crawler, its thread, the clock and other crawlers keeps them.
LEMMA NextKeeps ==
  ASSUME CrawlerAssumption, TypeOK, Inv, [Next]_vars
  PROVE  TypeOK' /\ Inv'
<1>1. CASE Select
  BY <1>1, TickKeeps, ManualModeKeeps, AutoStartKeeps, ManualLockKeeps, AutoLockKeeps,
     AutoSelectKeeps, MoveSteps DEF Select
<1>2. CASE Content
  BY <1>2, SkipContentKeeps, ContentFailsKeep, ContentSavedKeeps, MoveSteps DEF Content
<1>3. CASE GetArchives
  <2>1. ASSUME NEW skip \in BOOLEAN, PageError(skip)
        PROVE  TypeOK' /\ Inv'
    <3>1. /\ c.pc \in {"page", "memento"} /\ config' = config /\ other' = other
          /\ Become(Then(PageFails(World, skip), "archived"))
      BY <2>1 DEF PageError, At, SameOther
    <3> QED
      BY <3>1, PageFailsKeeps
  <2> QED
    BY <1>3, <2>1, MementosDoneKeeps, MementoRetriedKeeps, RenewLockKeeps, ArchivesEndKeeps,
       MoveSteps DEF GetArchives
<1>4. CASE UrlDone \/ UrlEnd \/ Thrown \/ NoJump
  BY <1>4, UrlDoneKeeps, UrlEndKeeps, MoveSteps
<1>5. CASE Environment
  BY <1>5, StartKeeps, ClockKeeps, RestartManualKeeps, JumpKeeps, OtherLocksKeeps,
     OtherUnlocksKeeps, MoveSteps DEF Environment
<1>6. CASE UNCHANGED vars
  <2>1. /\ config' = config /\ db' = db /\ c' = c /\ other' = other /\ past' = past
    BY <1>6 DEF vars
  <2>2. TypeOK'
    BY <2>1 DEF TypeOK
  <2>3. Alive' = Alive /\ Current' = Current /\ (ManualDone' <=> ManualDone)
    BY <2>1 DEF Alive, Current, ManualDone
  <2>4. \A n : (Known(n)' <=> Known(n)) /\ (CoveredTo(n)' <=> CoveredTo(n))
    BY <2>1 DEF Known, Covered, CoveredTo
  <2>5. Control' /\ ContentFirst' /\ Modes'
    BY <2>1, <2>3 DEF Inv, Control, ContentFirst, Modes
  <2>6. Positions'
    BY <2>1, <2>4 DEF Inv, Positions
  <2>7. Locks'
    BY <2>1, <2>3 DEF Inv, Locks
  <2> QED
    BY <2>2, <2>5, <2>6, <2>7 DEF Inv
<1> QED
  BY <1>1, <1>2, <1>3, <1>4, <1>5, <1>6 DEF Next, Crawling

\* The types hold always, among them that the last ID of a crawler is the one in
\* its row, and that it counts no more retries than its limit; and so does the
\* invariant.
THEOREM Invariance == Spec => []TypeOK /\ []Inv
<1>1. Init => TypeOK /\ Inv
  BY CrawlerAssumption, InitKeeps
<1>2. TypeOK /\ Inv /\ [Next]_vars => TypeOK' /\ Inv'
  BY CrawlerAssumption, NextKeeps
<1> QED
  BY <1>1, <1>2, PTL DEF Spec

\* The types, by themselves.
THEOREM TypeCorrect == Spec => []TypeOK
BY Invariance, PTL

\* A URL counts as crawled only once its content is in the database, or has been
\* dropped because it is larger than the server takes (Crawler/Database.cpp
\* 1663-1703), whatever fails, is tried again, or is skipped, as long as archives are
\* neither retried nor wanted alone.
THEOREM FinishedUrlsKeepContent == Spec => []FinishedUrlsHaveContent
<1>1. Inv => FinishedUrlsHaveContent
  BY DEF Inv, ContentFirst, FinishedUrlsHaveContent
<1> QED
  BY <1>1, Invariance, PTL

\* Every URL up to the last ID has been crawled or skipped, or was another crawler's,
\* or locked by a thread that is gone, or has been jumped over; and without archives
\* none of them is left locked.
THEOREM UrlsStayInOrder == Spec => []UrlsAreLeftInOrder
<1>1. Inv => UrlsAreLeftInOrder
  <2> SUFFICES ASSUME Inv PROVE NothingIsOverlooked /\ LocksAreReleased
    BY DEF UrlsAreLeftInOrder
  <2>1. NothingIsOverlooked
    <3> SUFFICES ASSUME NEW u \in 1 .. c.last \ Manual
                 PROVE  \/ db.success[u]
                        \/ u \in past.skipped \cup past.foreign \cup past.left
                        \/ u <= past.base
      BY DEF NothingIsOverlooked
    <3>1. Covered(u)
      BY DEF Inv, Positions, CoveredTo
    <3> QED
      BY <3>1 DEF Covered, Known
  <2>2. LocksAreReleased
    BY DEF Inv, Locks, Current, LocksAreReleased
  <2> QED
    BY <2>1, <2>2
<1> QED
  BY <1>1, Invariance, PTL
=============================================================================
