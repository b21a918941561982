------------------------------- MODULE UrlLock -------------------------------
(***************************************************************************)
(* Parsers that share a parsing table (Module/Parser/Thread.cpp and        *)
(* Parser/Database.cpp): every parser caches the next URLs of the list,    *)
(* locks them until a time of the database clock, renews the lock of each  *)
(* URL before it parses it, keeps the results and the finished URLs in     *)
(* memory, and saves both when its cache is used up, when it is paused,    *)
(* warped or cleared.  Every SQL statement is a step; time passes between  *)
(* any two of them.  Times are seconds, 0 stands for NULL and "".          *)
(***************************************************************************)
EXTENDS Naturals, Sequences

CONSTANTS
  Parsers,    \* parser threads with the same target table
  MaxUrl,     \* the URLs of a list are among 1 .. MaxUrl
  Lease,      \* seconds for which a URL is locked (generalLock)
  MaxTime,    \* bound on the database clock
  NoParser,   \* owner of a URL that has never been locked
  Instances   \* see Instance

Urls == 1 .. MaxUrl

\* Who parses what: the URLs of the list are 1 .. listed, cacheSize is the largest
\* number of URLs fetched at once, dbFails tells whether saving may fail, and
\* commands whether parsers are paused, reset and sent to other IDs.
Instance ==
  [parsers : SUBSET Parsers, listed : Urls, cacheSize : Nat \ {0}, dbFails : BOOLEAN,
   commands : BOOLEAN]

ASSUME BoundsAssumption == MaxUrl \in Nat \ {0} /\ Lease \in Nat /\ MaxTime \in Nat \ {0}
ASSUME ParsersAssumption == NoParser \notin Parsers /\ Instances \subseteq Instance

Ids == 0 .. MaxUrl
Times == 0 .. MaxTime + Lease + 1

VARIABLES
  instance,   \* the parsers that run, their list and their options
  now,        \* NOW()
  lock,       \* parsing table: lock[u] is the column locktime
  success,    \* parsing table: the column success
  saved,      \* target table: the URLs whose results are in it
  last,       \* last[p]: last ID of the thread, saved with its row
  running,    \* running[p]: isRunning()
  pc,         \* control state of a parser
  after,      \* where parsingSaveResults() or parsingUrlFinished() returns
  urls,       \* the URLs in the cache
  locked,     \* number of cached URLs fetchUrls() has locked so far
  newTime,    \* local lockTime of fetchUrls() and renewUrlLockIfOk()
  cacheLockTime, lockTime,  \* members: lock times of the cache and of the URL being
                            \* parsed; 0 also when there is none and nothing reads them
  results,    \* URLs with results that have not been saved
  finished,   \* queue of parsed URLs and the times of their locks
  lastUrl,    \* last URL that has been processed
  warped,     \* warpedOver # 0: the thread has been sent to another ID
  owner,      \* history: the parser that has last locked a URL, or NoParser
  intruded,   \* history: URLs whose live lock has been changed by another parser
  lost        \* history: URLs whose results a failed statement has lost

world == <<instance, now>>
table == <<lock, success, saved, owner, intruded, lost>>
cache == <<urls, locked, newTime, cacheLockTime, lockTime>>
memory == <<results, finished, lastUrl, warped>>
vars == <<world, table, last, running, pc, after, cache, memory>>

ControlStates ==
  {"loop", "tick", "fetch", "select", "insert", "check", "renewTime", "renew",
   "parse", "pop", "ticked", "save", "setLast", "finishing", "unlockAll", "exited"}
Returns == {"check", "ticked", "pause", "warp", "reset", "clear"}

Init ==
  /\ instance \in Instances
  /\ now = 1
  /\ lock = [u \in Urls |-> 0] /\ success = [u \in Urls |-> FALSE]
  /\ saved = {} /\ owner = [u \in Urls |-> NoParser] /\ intruded = {} /\ lost = {}
  /\ last = [p \in Parsers |-> 0]
  /\ running = [p \in Parsers |-> TRUE]
  /\ pc = [p \in Parsers |-> "loop"] /\ after = [p \in Parsers |-> "ticked"]
  /\ urls = [p \in Parsers |-> <<>>] /\ locked = [p \in Parsers |-> 0]
  /\ newTime = [p \in Parsers |-> 0]
  /\ cacheLockTime = [p \in Parsers |-> 0] /\ lockTime = [p \in Parsers |-> 0]
  /\ results = [p \in Parsers |-> {}] /\ finished = [p \in Parsers |-> <<>>]
  /\ lastUrl = [p \in Parsers |-> 0] /\ warped = [p \in Parsers |-> FALSE]

-----------------------------------------------------------------------------
(* Statements on the parsing table.                                         *)

Goto(p, from, to) == pc[p] = from /\ pc' = [pc EXCEPT ![p] = to]
GotoAfter(p, from, to, return) ==
  Goto(p, from, to) /\ after' = [after EXCEPT ![p] = return]

\* NOW() + INTERVAL ? SECOND
Expiry == now + Lease

\* The conditions under which a lock is renewed, a URL is marked as finished,
\* and a lock is removed, for a thread that knows lock time t.
Renewable(u, t) == lock[u] <= t \/ lock[u] < now
Removable(u, t) == lock[u] <= t \/ lock[u] <= now

\* p changes the locks of us: which of them are alive and not its own?
Intrude(p, us) ==
  intruded' = intruded \cup {u \in us : lock[u] >= now /\ owner[u] # p}

\* unLockUrlIfOk(), unLockUrlsIfOk()
Unlock(us, t) ==
  lock' = [u \in Urls |-> IF u \in us /\ Removable(u, t) THEN 0 ELSE lock[u]]

\* fetchUrls(): the next URLs that are neither locked nor finished, by ID.
Fetchable(p) == {u \in 1 .. instance.listed : u > last[p] /\ lock[u] < now /\ ~success[u]}
NextUrls(p) ==
  {s \in UNION {[1 .. n -> Fetchable(p)] : n \in 0 .. instance.cacheSize} :
     /\ \A i, j \in DOMAIN s : i < j => s[i] < s[j]
     /\ \A u \in Fetchable(p) : \/ \E i \in DOMAIN s : s[i] = u
                                \/ /\ Len(s) = instance.cacheSize
                                   /\ \A i \in DOMAIN s : s[i] < u}

-----------------------------------------------------------------------------
(* main() and onTick()                                                      *)

\* The thread runs, and starts to wait or to tick.
Loop(p) ==
  /\ running[p] /\ Goto(p, "loop", "tick")
  /\ UNCHANGED <<world, table, last, running, after, cache, memory>>

TickFetch(p) ==
  /\ ~warped[p] /\ urls[p] = <<>>
  /\ Goto(p, "tick", "fetch")
  /\ UNCHANGED <<world, table, last, running, after, cache, memory>>

TickCached(p) ==
  /\ ~warped[p] /\ urls[p] # <<>>
  /\ Goto(p, "tick", "check")
  /\ UNCHANGED <<world, table, last, running, after, cache, memory>>

\* The tick is over; the thread may have been sent to another ID meanwhile.
TickEnd(p) ==
  /\ Goto(p, "ticked", "loop")
  /\ UNCHANGED <<world, table, last, running, after, cache, memory>>

Warp(p, id) ==
  /\ instance.commands /\ id # 0 /\ Goto(p, "ticked", "loop")
  /\ last' = [last EXCEPT ![p] = id]
  /\ warped' = [warped EXCEPT ![p] = id # last[p]]
  /\ UNCHANGED <<world, table, running, after, cache, results, finished, lastUrl>>

\* fetchUrls(): first the time until which the URLs will be locked ...
FetchTime(p) ==
  /\ Goto(p, "fetch", "select")
  /\ newTime' = [newTime EXCEPT ![p] = Expiry]
  /\ UNCHANGED <<world, table, last, running, after, urls, locked, cacheLockTime,
                 lockTime, memory>>

\* ... then the URLs; without any the parser idles until its next tick ...
Select(p) ==
  \E next \in NextUrls(p) :
    /\ urls' = [urls EXCEPT ![p] = next]
    /\ Goto(p, "select", IF next = <<>> THEN "ticked" ELSE "insert")
    /\ newTime' = IF next = <<>> THEN [newTime EXCEPT ![p] = 0] ELSE newTime
    /\ UNCHANGED <<world, table, last, running, after, locked, cacheLockTime, lockTime, memory>>

\* ... then they are locked, one by one; a lock set meanwhile is intruded.
Insert(p) ==
  LET u == urls[p][locked[p] + 1]
      complete == locked[p] + 1 = Len(urls[p])
  IN /\ Goto(p, "insert", IF complete THEN "check" ELSE "insert")
     /\ locked' = [locked EXCEPT ![p] = IF complete THEN 0 ELSE @ + 1]
     /\ IF complete
        THEN /\ cacheLockTime' = [cacheLockTime EXCEPT ![p] = newTime[p]]
             /\ newTime' = [newTime EXCEPT ![p] = 0]
        ELSE UNCHANGED <<cacheLockTime, newTime>>
     /\ lock' = [lock EXCEPT ![u] = newTime[p]]
     /\ owner' = [owner EXCEPT ![u] = p] /\ Intrude(p, {u})
     /\ UNCHANGED <<world, success, saved, lost, last, running, after, urls, lockTime, memory>>

\* parsingUrlFinished(): the results are saved before the last URL is dropped.
UrlFinished(p, from, return) ==
  GotoAfter(p, from, IF Len(urls[p]) = 1 THEN "save" ELSE "pop", return)

\* parsingCheckUrls(): a query tells to skip the first URL of the cache.
CheckSkip(p) ==
  /\ urls[p] # <<>> /\ running[p]
  /\ UrlFinished(p, "check", "check")
  /\ Unlock({Head(urls[p])}, cacheLockTime[p])
  /\ UNCHANGED <<world, success, saved, owner, intruded, lost, last, running, cache, memory>>

CheckEnd(p) ==
  /\ Goto(p, "check", IF urls[p] = <<>> THEN "ticked" ELSE "renewTime")
  /\ UNCHANGED <<world, table, last, running, after, cache, memory>>

\* renewUrlLockIfOk(): first the new time ...
RenewTime(p) ==
  /\ Goto(p, "renewTime", "renew")
  /\ newTime' = [newTime EXCEPT ![p] = Expiry]
  /\ UNCHANGED <<world, table, last, running, after, urls, locked, cacheLockTime,
                 lockTime, memory>>

\* Mutant: the lock is renewed although another parser has taken it.
RenewAlways(p) ==
  LET u == Head(urls[p]) IN
    /\ Goto(p, "renew", "parse")
    /\ lock' = [lock EXCEPT ![u] = newTime[p]] /\ owner' = [owner EXCEPT ![u] = p]
    /\ lockTime' = [lockTime EXCEPT ![p] = newTime[p]]
    /\ newTime' = [newTime EXCEPT ![p] = 0]
    /\ UNCHANGED <<world, success, saved, intruded, lost, last, running, after, urls,
                   locked, cacheLockTime, memory>>

\* ... then the lock, at least one second longer than before, if no other
\* parser holds it.  The caller is told the new time without that second.
Renew(p) ==
  LET u == Head(urls[p])
      longer == IF newTime[p] > cacheLockTime[p] THEN newTime[p]
                ELSE cacheLockTime[p] + 1
  IN /\ Goto(p, "renew", "parse")
     /\ Renewable(u, cacheLockTime[p])
     /\ lock' = [lock EXCEPT ![u] = longer] /\ owner' = [owner EXCEPT ![u] = p]
     /\ lockTime' = [lockTime EXCEPT ![p] = newTime[p]]
     /\ newTime' = [newTime EXCEPT ![p] = 0]
     /\ UNCHANGED <<world, success, saved, intruded, lost, last, running, after, urls,
                    locked, cacheLockTime, memory>>

\* A URL locked by another parser is skipped.
RenewSkip(p) ==
  /\ UrlFinished(p, "renew", "ticked")
  /\ ~Renewable(Head(urls[p]), cacheLockTime[p])
  /\ lockTime' = [lockTime EXCEPT ![p] = 0] /\ newTime' = [newTime EXCEPT ![p] = 0]
  /\ UNCHANGED <<world, table, last, running, urls, locked, cacheLockTime, memory>>

\* parsingNext() has parsed data from the URL.
ParseSuccess(p) ==
  LET u == Head(urls[p]) IN
    /\ running[p]
    /\ UrlFinished(p, "parse", "ticked")
    /\ results' = [results EXCEPT ![p] = @ \cup {u}]
    /\ finished' = [finished EXCEPT ![p] = Append(@, [url |-> u, time |-> lockTime[p]])]
    /\ lockTime' = [lockTime EXCEPT ![p] = 0]
    /\ UNCHANGED <<world, table, last, running, urls, locked, newTime, cacheLockTime, lastUrl, warped>>

\* parsingNext() has found nothing: the URL is unlocked.
ParseFailure(p) ==
  /\ running[p]
  /\ UrlFinished(p, "parse", "ticked")
  /\ Unlock({Head(urls[p])}, lockTime[p])
  /\ lockTime' = [lockTime EXCEPT ![p] = 0]
  /\ UNCHANGED <<world, success, saved, owner, intruded, lost, last, running, urls, locked,
                 newTime, cacheLockTime, memory>>

\* The parser has been stopped meanwhile; it may have parsed some content.
ParseCancelled(p) ==
  /\ ~running[p]
  /\ Goto(p, "parse", "ticked")
  /\ Unlock({Head(urls[p])}, lockTime[p])
  /\ lockTime' = [lockTime EXCEPT ![p] = 0]
  /\ \E r \in {{}, {Head(urls[p])}} : results' = [results EXCEPT ![p] = @ \cup r]
  /\ UNCHANGED <<world, success, saved, owner, intruded, lost, last, running, after, urls,
                 locked, newTime, cacheLockTime, finished, lastUrl, warped>>

\* The URL is dropped from the cache.
Pop(p) ==
  /\ GotoAfter(p, "pop", after[p], "ticked")
  /\ lastUrl' = [lastUrl EXCEPT ![p] = Head(urls[p])]
  /\ urls' = [urls EXCEPT ![p] = Tail(@)]
  /\ cacheLockTime' = IF Len(urls[p]) = 1 THEN [cacheLockTime EXCEPT ![p] = 0]
                      ELSE cacheLockTime
  /\ UNCHANGED <<world, table, last, running, locked, newTime, lockTime, results, finished, warped>>

-----------------------------------------------------------------------------
(* parsingSaveResults(), called by parsingUrlFinished(), onPause(), onTick() *)
(* after a warp, and onClear(), the last also by onReset().                  *)

Return(p, from) ==
  \/ GotoAfter(p, from, "loop", "ticked") /\ after[p] = "pause"
  \/ /\ after' = after
     /\ Goto(p, from, IF after[p] \in {"check", "ticked"} THEN "pop" ELSE "unlockAll")
     /\ after[p] # "pause"

\* Without results nothing is saved but the last URL.
SaveNothing(p) ==
  /\ results[p] = {}
  /\ Return(p, "save")
  /\ last' = IF after[p] # "warp" /\ lastUrl[p] > 0
             THEN [last EXCEPT ![p] = lastUrl[p]] ELSE last
  /\ UNCHANGED <<world, table, running, cache, memory>>

\* Mutant: the results stay in memory until the next time.
SaveLater(p) ==
  /\ results[p] # {}
  /\ Goto(p, "save", "setLast")
  /\ UNCHANGED <<world, table, last, running, after, cache, memory>>

\* updateOrAddEntries()
Save(p) ==
  /\ results[p] # {}
  /\ Goto(p, "save", "setLast")
  /\ saved' = saved \cup results[p] /\ results' = [results EXCEPT ![p] = {}]
  /\ UNCHANGED <<world, lock, success, owner, intruded, lost, last, running, after, cache,
                 finished, lastUrl, warped>>

\* An exception ends onTick() or onClear().  It ends onPause(), too, if it comes
\* from the connection; any other one ends the thread, as in onReset().
AfterThrow(return) ==
  CASE return \in {"check", "ticked", "warp"} -> {"ticked"}
    [] return = "pause" -> {"loop", "exited"}
    [] return \in {"reset", "clear"} -> {"exited"}
Thrown(p, from) == \E to \in AfterThrow(after[p]) : GotoAfter(p, from, to, "ticked")

\* updateOrAddEntries() throws: an entry leaves the queue before the statement.
SaveFails(p) ==
  /\ instance.dbFails
  /\ Thrown(p, "save")
  /\ \E done \in SUBSET results[p] : \E u \in results[p] \ done :
       /\ saved' = saved \cup done
       /\ results' = [results EXCEPT ![p] = @ \ (done \cup {u})]
       /\ lost' = lost \cup {u}
  /\ UNCHANGED <<world, lock, success, owner, intruded, last, running, cache, finished, lastUrl, warped>>

SetLast(p) ==
  /\ Goto(p, "setLast", "finishing")
  /\ last' = IF after[p] # "warp" THEN [last EXCEPT ![p] = lastUrl[p]] ELSE last
  /\ UNCHANGED <<world, table, running, after, cache, memory>>

\* setUrlsFinishedIfLockOk(), one URL after the other.
FinishUrl(p) ==
  LET f == Head(finished[p]) IN
    /\ finished[p] # <<>> /\ Goto(p, "finishing", "finishing")
    /\ finished' = [finished EXCEPT ![p] = Tail(@)]
    /\ IF Renewable(f.url, f.time)
       THEN /\ lock' = [lock EXCEPT ![f.url] = 0]
            /\ success' = [success EXCEPT ![f.url] = TRUE]
       ELSE UNCHANGED <<lock, success>>
    /\ UNCHANGED <<world, saved, owner, intruded, lost, last, running, after, cache, results, lastUrl, warped>>

FinishFails(p) ==
  /\ instance.dbFails
  /\ finished[p] # <<>> /\ Thrown(p, "finishing")
  /\ finished' = [finished EXCEPT ![p] = Tail(@)]
  /\ UNCHANGED <<world, table, last, running, cache, results, lastUrl, warped>>

FinishEnd(p) ==
  /\ finished[p] = <<>> /\ Return(p, "finishing")
  /\ UNCHANGED <<world, table, last, running, cache, memory>>

-----------------------------------------------------------------------------
(* Pause, warp, reset, clear.                                               *)

Pause(p) ==
  /\ instance.commands /\ GotoAfter(p, "tick", "save", "pause")
  /\ UNCHANGED <<world, table, last, running, cache, memory>>

\* onTick() has noticed that the thread has been sent to another ID.
TickWarped(p) ==
  /\ warped[p] /\ GotoAfter(p, "tick", "save", "warp")
  /\ warped' = [warped EXCEPT ![p] = FALSE]
  /\ UNCHANGED <<world, table, last, running, cache, results, finished, lastUrl>>

\* onReset(), which calls onClear()
Reset(p) ==
  /\ instance.commands /\ running[p] /\ GotoAfter(p, "loop", "save", "reset")
  /\ UNCHANGED <<world, table, last, running, cache, memory>>

\* onClear(), called when the thread does not run any more.
Clear(p) ==
  /\ ~running[p] /\ GotoAfter(p, "loop", "save", "clear")
  /\ UNCHANGED <<world, table, last, running, cache, memory>>

\* The URLs left in the cache are unlocked and discarded.
UnlockAll(p) ==
  LET us == {urls[p][i] : i \in DOMAIN urls[p]}
      next == CASE after[p] = "warp" -> "fetch" [] after[p] = "reset" -> "tick"
                [] after[p] = "clear" -> "exited"
  IN /\ GotoAfter(p, "unlockAll", next, "ticked")
     /\ Unlock(us, cacheLockTime[p])
     /\ Intrude(p, {u \in us : Removable(u, cacheLockTime[p])})
     /\ urls' = [urls EXCEPT ![p] = <<>>]
     /\ cacheLockTime' = [cacheLockTime EXCEPT ![p] = 0]
     /\ lastUrl' = IF after[p] = "warp" THEN [lastUrl EXCEPT ![p] = last[p]] ELSE lastUrl
     /\ UNCHANGED <<world, success, saved, owner, lost, last, running, locked, newTime,
                    lockTime, results, finished, warped>>

-----------------------------------------------------------------------------
(* The environment.                                                         *)

Time ==
  /\ now < MaxTime /\ now' = now + 1
  /\ UNCHANGED <<instance, table, last, running, pc, after, cache, memory>>

Stop(p) ==
  /\ running[p] /\ running' = [running EXCEPT ![p] = FALSE]
  /\ UNCHANGED <<world, table, last, pc, after, cache, memory>>

\* The parsers of P are gone with all they had in memory, and new ones start.
Begin(P) ==
  LET reset(f, value) == [p \in Parsers |-> IF p \in P THEN value ELSE f[p]] IN
    /\ pc' = reset(pc, "loop") /\ after' = reset(after, "ticked")
    /\ running' = reset(running, TRUE)
    /\ urls' = reset(urls, <<>>) /\ locked' = reset(locked, 0)
    /\ newTime' = reset(newTime, 0) /\ cacheLockTime' = reset(cacheLockTime, 0)
    /\ lockTime' = reset(lockTime, 0)
    /\ results' = reset(results, {}) /\ finished' = reset(finished, <<>>)
    /\ lastUrl' = reset(lastUrl, 0) /\ warped' = reset(warped, FALSE)

\* A new thread starts with the first URL of the list.
NewThread(p) ==
  /\ pc[p] = "exited"
  /\ Begin({p}) /\ last' = [last EXCEPT ![p] = 0]
  /\ UNCHANGED <<world, table>>

\* The server is gone without unlocking anything; the next one continues the
\* threads from the last IDs in their rows.
Crash == Begin(Parsers) /\ UNCHANGED <<world, table, last>>

Main(p) == Loop(p) \/ Reset(p) \/ Clear(p) \/ Pause(p)
Tick(p) == TickWarped(p) \/ TickFetch(p) \/ TickCached(p) \/ TickEnd(p)
             \/ \E id \in 0 .. instance.listed : Warp(p, id)
Fetch(p) == FetchTime(p) \/ Select(p) \/ Insert(p)
Check(p) == CheckSkip(p) \/ CheckEnd(p)
Parse(p) == RenewTime(p) \/ Renew(p) \/ RenewSkip(p) \/ ParseSuccess(p)
              \/ ParseFailure(p) \/ ParseCancelled(p) \/ Pop(p)
SaveResults(p) == SaveNothing(p) \/ Save(p) \/ SaveFails(p) \/ SetLast(p)
                    \/ FinishUrl(p) \/ FinishFails(p) \/ FinishEnd(p)

ParserStep(p) ==
  \/ Main(p) \/ Tick(p) \/ Fetch(p) \/ Check(p) \/ Parse(p) \/ SaveResults(p)
  \/ UnlockAll(p) \/ Stop(p) \/ NewThread(p)

Next == (\E p \in instance.parsers : ParserStep(p)) \/ Crash \/ Time

Spec == Init /\ [][Next]_vars

-----------------------------------------------------------------------------

TypeOK ==
  /\ instance \in Instances /\ now \in 1 .. MaxTime
  /\ lock \in [Urls -> Times] /\ success \in [Urls -> BOOLEAN]
  /\ saved \subseteq Urls
  /\ owner \in [Urls -> Parsers \cup {NoParser}] /\ intruded \cup lost \subseteq Urls
  /\ last \in [Parsers -> Ids] /\ running \in [Parsers -> BOOLEAN]
  /\ pc \in [Parsers -> ControlStates] /\ after \in [Parsers -> Returns]
  /\ urls \in [Parsers -> Seq(Urls)] /\ locked \in [Parsers -> Nat]
  /\ newTime \in [Parsers -> Times] /\ cacheLockTime \in [Parsers -> Times]
  /\ lockTime \in [Parsers -> Times]
  /\ results \in [Parsers -> SUBSET Urls]
  /\ finished \in [Parsers -> Seq([url : Urls, time : Times])]
  /\ lastUrl \in [Parsers -> Ids] /\ warped \in [Parsers -> BOOLEAN]

\* p parses u and its lock, by the time it knows, has not yet reached its end.
Parses(p, u) == pc[p] = "parse" /\ Head(urls[p]) = u
Holds(p, u) == Parses(p, u) /\ now < lockTime[p]

\* The lock of a URL that is being parsed is in the parsing table for at least
\* as long as its parser believes (renewUrlLockIfOk()): nobody else has removed
\* or shortened it, unless fetchUrls() has overwritten a live lock, set between
\* its SELECT and its INSERT, or a stopping parser has removed one with the
\* second unlock of a URL it had unlocked before (unLockUrlsIfOk()).  If saving
\* fails, a URL that has been skipped and unlocked stays in the cache with its
\* old lock time, and two parsers may come to believe that they have locked it.
CountedLocksAreLive ==
  instance.dbFails \/ \A p \in Parsers, u \in Urls :
    Holds(p, u) /\ u \notin intruded => lock[u] >= lockTime[p]

\* With the same reservations a URL is parsed by one parser at a time.
UrlsAreParsedOnce ==
  instance.dbFails \/ \A p, q \in Parsers, u \in Urls :
    Holds(p, u) /\ Holds(q, u) /\ u \notin intruded => p = q

\* A URL is marked as finished only after its results have been saved, by
\* whichever of the parsers that have parsed it comes first, unless a statement
\* that saves them has failed after they had left the queue
\* (parsingSaveResults(), updateOrAddEntries()).
FinishedHasResults == \A u \in Urls : success[u] => u \in saved \cup lost

\* If saving does not fail, a crash loses no results for good: while a parser
\* has results of a URL in memory only, the last ID in its row is smaller, and
\* it will fetch the URL again.  A parser sent to another ID saves its results before anything else.
UnsavedResultsAreAhead ==
  instance.dbFails \/ \A p \in Parsers :
    warped[p] \/ after[p] = "warp" \/ \A u \in results[p] : last[p] < u

=============================================================================
