---------------------------- MODULE UrlLockProofs ----------------------------
(***************************************************************************)
(* UrlLock keeps its promises for any parsers, URLs, lease and cache size. *)
(* A parser makes claims: it believes that a URL is locked until a time.   *)
(* Its cache, the URL it parses and the URLs it will mark as finished make *)
(* claims; the invariant is that a claim whose time has not come yet is    *)
(* covered by a lock of its own (Live).  Whatever removes or renews a lock *)
(* does so with a claim that is as late as the lock, which makes the lock  *)
(* its own (Foreign).                                                      *)
(***************************************************************************)
EXTENDS UrlLock, SequenceTheorems, TLAPS

Saving(p) == pc[p] \in {"save", "setLast", "finishing"}

\* The first URL in the cache has been dealt with.
HeadIsDone(p) == pc[p] = "pop" \/ (Saving(p) /\ after[p] \in {"check", "ticked"})

\* The positions of the other URLs in the cache
Kept(p) == {i \in DOMAIN urls[p] : i = 1 => ~HeadIsDone(p)}

Control(p) ==
  /\ IF pc[p] = "insert" THEN locked[p] < Len(urls[p]) ELSE locked[p] = 0
  /\ pc[p] \in {"renewTime", "renew", "parse", "pop"} => urls[p] # <<>>
  /\ pc[p] \in {"fetch", "select"} => urls[p] = <<>>
  /\ pc[p] = "pop" => after[p] \in {"check", "ticked"}
  /\ pc[p] = "unlockAll" => after[p] \in {"warp", "reset", "clear"}
  /\ Saving(p) /\ after[p] \in {"check", "ticked"} => Len(urls[p]) = 1
  /\ after[p] = "warp" => Saving(p) \/ pc[p] = "unlockAll"
  /\ newTime[p] <= MaxTime + Lease /\ cacheLockTime[p] <= MaxTime + Lease

TypeInv == TypeOK /\ \A p \in Parsers : Control(p)

-----------------------------------------------------------------------------
(* Results.                                                                 *)

\* A URL in the queue of finished ones has results, saved or not.
QueuedHasResults(p) ==
  /\ pc[p] \in {"setLast", "finishing", "unlockAll"} => results[p] = {}
  /\ \A i \in DOMAIN finished[p] : finished[p][i].url \in saved \cup lost \cup results[p]

ResultsInv == FinishedHasResults /\ \A p \in Parsers : QueuedHasResults(p)

-----------------------------------------------------------------------------
(* The last ID.                                                             *)

Sorted(p) == \A i, j \in DOMAIN urls[p] : i < j => urls[p][i] < urls[p][j]
Ahead(p, id) == \A i \in DOMAIN urls[p] : id < urls[p][i]
Pausing(p) == Saving(p) /\ after[p] = "pause"

Order(p) ==
  /\ Sorted(p)
  /\ warped[p] => \/ pc[p] \in {"loop", "tick", "exited"}
                  \/ Saving(p) /\ after[p] \in {"pause", "reset", "clear"}
                  \/ pc[p] = "unlockAll" /\ after[p] \in {"reset", "clear"}
  /\ pc[p] = "tick" \/ (pc[p] \in {"loop", "ticked"} /\ running[p]) \/ Pausing(p)
       => Ahead(p, lastUrl[p])
  /\ ~warped[p] /\ (Pausing(p) \/ pc[p] \in {"loop", "tick", "ticked", "insert", "check",
                                             "renewTime", "renew", "parse"})
       => Ahead(p, last[p])
  /\ pc[p] = "pop" => Len(urls[p]) = 1 \/ Ahead(p, last[p])
  /\ warped[p] \/ after[p] = "warp" \/ \A u \in results[p] : last[p] < u

OrderInv == ~instance.dbFails => \A p \in Parsers : Order(p)

-----------------------------------------------------------------------------
(* Locks.                                                                   *)

\* p believes that u is locked until t.
Live(p, u, t) == u \in intruded \/ t <= now \/ (owner[u] = p /\ lock[u] >= t)
Over(u, t) == u \in intruded \/ t <= now

Active(p) ==
  running[p] \/ pc[p] \in {"tick", "insert", "check", "renewTime", "renew", "parse", "pop"}

CacheIsLocked(p) ==
  IF pc[p] = "insert" THEN \A i \in 1 .. locked[p] : Live(p, urls[p][i], newTime[p])
  ELSE Active(p) => \A i \in Kept(p) : Live(p, urls[p][i], cacheLockTime[p])

ParsedIsLocked(p) == pc[p] = "parse" => Live(p, Head(urls[p]), lockTime[p])

FinishedIsLocked(p) ==
  \A i \in DOMAIN finished[p] : Live(p, finished[p][i].url, finished[p][i].time)

\* A URL comes back only after the time of its older locks.
OldLocksAreOver(p) ==
  \A i \in DOMAIN finished[p] :
    LET f == finished[p][i] IN
      /\ \A k \in Kept(p) : f.url = urls[p][k] => Over(f.url, f.time)
      /\ \A j \in DOMAIN finished[p] : i < j /\ f.url = finished[p][j].url => Over(f.url, f.time)

Locks(p) == CacheIsLocked(p) /\ ParsedIsLocked(p) /\ FinishedIsLocked(p) /\ OldLocksAreOver(p)

LockInv == ~instance.dbFails => \A p \in Parsers : Locks(p)

-----------------------------------------------------------------------------
(* Sequences.                                                               *)

LEMMA QueueFacts ==
  ASSUME NEW S, NEW s \in Seq(S), s # <<>>
  PROVE  /\ Len(s) \in Nat /\ Len(s) >= 1 /\ DOMAIN s = 1 .. Len(s)
         /\ Head(s) = s[1] /\ Head(s) \in S /\ \A i \in 1 .. Len(s) : s[i] \in S
         /\ Tail(s) \in Seq(S) /\ Len(Tail(s)) = Len(s) - 1
         /\ DOMAIN Tail(s) = 1 .. Len(s) - 1
         /\ \A i \in 1 .. Len(s) - 1 : Tail(s)[i] = s[i + 1]
<1>1. Len(s) \in Nat /\ Len(s) >= 1 /\ DOMAIN s = 1 .. Len(s) /\ \A i \in 1 .. Len(s) : s[i] \in S
  BY EmptySeq, LenProperties, ElementOfSeq
<1>2. Head(s) = s[1] /\ Tail(s) \in Seq(S) /\ Len(Tail(s)) = Len(s) - 1
      /\ \A i \in 1 .. Len(s) - 1 : Tail(s)[i] = s[i + 1]
  BY <1>1, HeadTailProperties
<1>3. DOMAIN Tail(s) = 1 .. Len(s) - 1
  BY <1>1, <1>2, LenProperties
<1> QED
  BY <1>1, <1>2, <1>3

LEMMA AppendFacts ==
  ASSUME NEW S, NEW s \in Seq(S), NEW e \in S
  PROVE  /\ Len(s) \in Nat /\ DOMAIN s = 1 .. Len(s)
         /\ Append(s, e) \in Seq(S) /\ Len(Append(s, e)) = Len(s) + 1
         /\ DOMAIN Append(s, e) = 1 .. Len(s) + 1
         /\ \A i \in 1 .. Len(s) : Append(s, e)[i] = s[i]
         /\ Append(s, e)[Len(s) + 1] = e
<1>1. Len(s) \in Nat /\ DOMAIN s = 1 .. Len(s)
  BY LenProperties
<1>2. Append(s, e) \in Seq(S) /\ Len(Append(s, e)) = Len(s) + 1
      /\ Append(s, e)[Len(s) + 1] = e
      /\ \A i \in 1 .. Len(s) : Append(s, e)[i] = s[i]
  BY <1>1, AppendProperties
<1>3. DOMAIN Append(s, e) = 1 .. Len(s) + 1
  BY <1>1, <1>2, LenProperties
<1> QED
  BY <1>1, <1>2, <1>3

-----------------------------------------------------------------------------
(* Type correctness.                                                        *)

\* The next URLs are a sorted sequence of URLs behind the last ID, not locked.
LEMMA NextUrlsFacts ==
  ASSUME TypeOK, NEW p \in Parsers, NEW s \in NextUrls(p)
  PROVE  /\ s \in Seq(Urls) /\ Len(s) \in Nat /\ DOMAIN s = 1 .. Len(s)
         /\ s # <<>> => Len(s) > 0
         /\ \A i \in DOMAIN s : s[i] \in Urls /\ last[p] < s[i] /\ lock[s[i]] < now
         /\ \A i, j \in DOMAIN s : i < j => s[i] < s[j]
<1>1. instance.cacheSize \in Nat /\ instance.listed \in Urls
  BY ParsersAssumption DEF TypeOK, Instance
<1>2. Fetchable(p) \subseteq Urls
  BY <1>1, BoundsAssumption DEF Fetchable, Urls
<1>3. PICK n \in 0 .. instance.cacheSize : s \in [1 .. n -> Fetchable(p)]
  BY DEF NextUrls
<1>4. n \in Nat /\ s \in Seq(Urls) /\ Len(s) = n
  BY <1>1, <1>2, <1>3, SeqDef
<1>5. DOMAIN s = 1 .. Len(s) /\ (s # <<>> => Len(s) > 0)
  BY <1>3, <1>4, EmptySeq
<1>6. \A i \in DOMAIN s : s[i] \in Fetchable(p)
  BY <1>3
<1>7. \A i, j \in DOMAIN s : i < j => s[i] < s[j]
  BY DEF NextUrls
<1> QED
  BY <1>2, <1>4, <1>5, <1>6, <1>7 DEF Fetchable

LEMMA InstanceFacts ==
  ASSUME TypeOK
  PROVE  /\ instance.parsers \subseteq Parsers /\ instance.listed \in Urls
         /\ instance.cacheSize \in Nat /\ instance.dbFails \in BOOLEAN
         /\ 0 .. instance.listed \subseteq Ids
         /\ MaxUrl \in Nat /\ Lease \in Nat /\ MaxTime \in Nat
BY ParsersAssumption, BoundsAssumption DEF TypeOK, Instance, Urls, Ids

LEMMA TypeInit == Init => TypeInv
<1> SUFFICES ASSUME Init PROVE TypeInv
  OBVIOUS
<1> USE BoundsAssumption
<1>1. <<>> \in Seq(Urls) /\ <<>> \in Seq([url : Urls, time : Times]) /\ Len(<<>>) = 0
  BY EmptySeq
<1>2. TypeOK
  BY <1>1 DEF Init, TypeOK, Times, Ids, ControlStates, Returns
<1>3. ASSUME NEW p \in Parsers PROVE Control(p)
  BY <1>1 DEF Init, Control, Saving
<1> QED
  BY <1>2, <1>3 DEF TypeInv

LEMMA TimeFacts ==
  ASSUME TypeOK
  PROVE  /\ Times \subseteq Nat /\ 0 \in Times /\ now \in Nat /\ now + Lease \in Times
         /\ now + Lease <= MaxTime + Lease
         /\ \A t \in Times : t <= MaxTime + Lease => t + 1 \in Times
BY InstanceFacts, BoundsAssumption DEF TypeOK, Times

LEMMA UnlockType ==
  ASSUME TypeOK, NEW us, NEW t, Unlock(us, t)
  PROVE  lock' \in [Urls -> Times]
BY TimeFacts DEF TypeOK, Unlock

LEMMA UrlsFacts ==
  ASSUME TypeOK, NEW p \in Parsers
  PROVE  /\ urls[p] \in Seq(Urls) /\ Len(urls[p]) \in Nat
         /\ DOMAIN urls[p] = 1 .. Len(urls[p]) /\ \A i \in DOMAIN urls[p] : urls[p][i] \in Urls
         /\ Len(urls[p]) >= 1 => urls[p] # <<>>
         /\ urls[p] # <<>> =>
              /\ Len(urls[p]) >= 1 /\ Head(urls[p]) = urls[p][1] /\ Head(urls[p]) \in Urls
              /\ Tail(urls[p]) \in Seq(Urls) /\ Len(Tail(urls[p])) = Len(urls[p]) - 1
              /\ DOMAIN Tail(urls[p]) = 1 .. Len(urls[p]) - 1
              /\ \A i \in 1 .. Len(urls[p]) - 1 : Tail(urls[p])[i] = urls[p][i + 1]
<1>1. urls[p] \in Seq(Urls)
  BY DEF TypeOK
<1>2. Len(urls[p]) >= 1 => urls[p] # <<>>
  BY EmptySeq
<1> QED
  BY <1>1, <1>2, QueueFacts, LenProperties, ElementOfSeq

LEMMA OneUrl ==
  ASSUME NEW s, Len(s) = 1
  PROVE  s # <<>>
BY EmptySeq

Finished == [url : Urls, time : Times]

LEMMA FinishedFacts ==
  ASSUME TypeOK, NEW p \in Parsers
  PROVE  /\ finished[p] \in Seq(Finished) /\ Len(finished[p]) \in Nat
         /\ DOMAIN finished[p] = 1 .. Len(finished[p])
         /\ \A i \in DOMAIN finished[p] :
              finished[p][i].url \in Urls /\ finished[p][i].time \in Times
         /\ finished[p] # <<>> =>
              /\ Len(finished[p]) >= 1 /\ Head(finished[p]) = finished[p][1]
              /\ Head(finished[p]).url \in Urls /\ Head(finished[p]).time \in Times
              /\ Tail(finished[p]) \in Seq(Finished)
              /\ Len(Tail(finished[p])) = Len(finished[p]) - 1
              /\ DOMAIN Tail(finished[p]) = 1 .. Len(finished[p]) - 1
              /\ \A i \in 1 .. Len(finished[p]) - 1 : Tail(finished[p])[i] = finished[p][i + 1]
<1>1. finished[p] \in Seq(Finished)
  BY DEF TypeOK, Finished
<1>2. \A i \in 1 .. Len(finished[p]) : finished[p][i] \in Finished
  BY <1>1, ElementOfSeq
<1> QED
  BY <1>1, <1>2, QueueFacts, LenProperties DEF Finished

LEMMA TypeStep ==
  ASSUME TypeInv, [Next]_vars
  PROVE  TypeOK'
<1> USE InstanceFacts DEF world, table, cache, memory
<1> TypeOK
  BY DEF TypeInv
<1>1. ASSUME NEW p \in Parsers, Loop(p) PROVE TypeOK'
  BY <1>1 DEF TypeOK, Loop, Goto, GotoAfter, Return, Ids, ControlStates, Returns
<1>2. ASSUME NEW p \in Parsers, TickFetch(p) PROVE TypeOK'
  BY <1>2 DEF TypeOK, TickFetch, Goto, GotoAfter, Return, Ids, ControlStates, Returns
<1>3. ASSUME NEW p \in Parsers, TickCached(p) PROVE TypeOK'
  BY <1>3 DEF TypeOK, TickCached, Goto, GotoAfter, Return, Ids, ControlStates, Returns
<1>4. ASSUME NEW p \in Parsers, TickEnd(p) PROVE TypeOK'
  BY <1>4 DEF TypeOK, TickEnd, Goto, GotoAfter, Return, Ids, ControlStates, Returns
<1>5. ASSUME NEW p \in Parsers, CheckEnd(p) PROVE TypeOK'
  BY <1>5 DEF TypeOK, CheckEnd, Goto, GotoAfter, Return, Ids, ControlStates, Returns
<1>6. ASSUME NEW p \in Parsers, SaveNothing(p) PROVE TypeOK'
  BY <1>6 DEF TypeOK, SaveNothing, Goto, GotoAfter, Return, Ids, ControlStates, Returns
<1>7. ASSUME NEW p \in Parsers, Save(p) PROVE TypeOK'
  BY <1>7 DEF TypeOK, Save, Goto, GotoAfter, Return, Ids, ControlStates, Returns
<1>8. ASSUME NEW p \in Parsers, SetLast(p) PROVE TypeOK'
  BY <1>8 DEF TypeOK, SetLast, Goto, GotoAfter, Return, Ids, ControlStates, Returns
<1>9. ASSUME NEW p \in Parsers, FinishEnd(p) PROVE TypeOK'
  BY <1>9 DEF TypeOK, FinishEnd, Goto, GotoAfter, Return, Ids, ControlStates, Returns
<1>10. ASSUME NEW p \in Parsers, Pause(p) PROVE TypeOK'
  BY <1>10 DEF TypeOK, Pause, Goto, GotoAfter, Return, Ids, ControlStates, Returns
<1>11. ASSUME NEW p \in Parsers, TickWarped(p) PROVE TypeOK'
  BY <1>11 DEF TypeOK, TickWarped, Goto, GotoAfter, Return, Ids, ControlStates, Returns
<1>12. ASSUME NEW p \in Parsers, Reset(p) PROVE TypeOK'
  BY <1>12 DEF TypeOK, Reset, Goto, GotoAfter, Return, Ids, ControlStates, Returns
<1>13. ASSUME NEW p \in Parsers, Clear(p) PROVE TypeOK'
  BY <1>13 DEF TypeOK, Clear, Goto, GotoAfter, Return, Ids, ControlStates, Returns
<1>14. ASSUME NEW p \in Parsers, Stop(p) PROVE TypeOK'
  BY <1>14 DEF TypeOK, Stop, Goto, GotoAfter, Return, Ids, ControlStates, Returns
<1>15. ASSUME NEW p \in Parsers, FetchTime(p) PROVE TypeOK'
  <2>1. newTime' \in [Parsers -> Times]
    BY <1>15, TimeFacts DEF TypeOK, FetchTime, Expiry
  <2> QED
    BY <1>15, <2>1 DEF TypeOK, FetchTime, Goto, ControlStates
<1>16. ASSUME NEW p \in Parsers, RenewTime(p) PROVE TypeOK'
  <2>1. newTime' \in [Parsers -> Times]
    BY <1>16, TimeFacts DEF TypeOK, RenewTime, Expiry
  <2> QED
    BY <1>16, <2>1 DEF TypeOK, RenewTime, Goto, ControlStates
<1>17. ASSUME NEW p \in Parsers, Select(p) PROVE TypeOK'
  <2>1. PICK next \in NextUrls(p) :
          /\ urls' = [urls EXCEPT ![p] = next]
          /\ newTime' = IF next = <<>> THEN [newTime EXCEPT ![p] = 0] ELSE newTime
    BY <1>17 DEF Select
  <2>2. urls' \in [Parsers -> Seq(Urls)]
    BY <2>1, NextUrlsFacts DEF TypeOK
  <2>3. newTime' \in [Parsers -> Times]
    BY <2>1, TimeFacts DEF TypeOK
  <2>4. pc' \in [Parsers -> ControlStates]
    BY <1>17 DEF TypeOK, Select, Goto, ControlStates
  <2> QED
    BY <1>17, <2>2, <2>3, <2>4 DEF TypeOK, Select
<1>18. ASSUME NEW p \in Parsers, Insert(p) PROVE TypeOK'
  <2>1. urls[p][locked[p] + 1] \in Urls /\ locked' \in [Parsers -> Nat]
    BY <1>18, UrlsFacts DEF TypeOK, Insert, Control, TypeInv, Goto
  <2>2. lock' \in [Urls -> Times] /\ owner' \in [Urls -> Parsers \cup {NoParser}] /\ intruded' \subseteq Urls
    BY <1>18, <2>1 DEF TypeOK, Insert, Intrude
  <2>3. newTime' \in [Parsers -> Times] /\ cacheLockTime' \in [Parsers -> Times]
    BY <1>18, TimeFacts DEF TypeOK, Insert, Goto
  <2>4. pc' \in [Parsers -> ControlStates]
    BY <1>18 DEF TypeOK, Insert, Goto, ControlStates
  <2> QED
    BY <1>18, <2>1, <2>2, <2>3, <2>4 DEF TypeOK, Insert, Goto, ControlStates
<1>19. ASSUME NEW p \in Parsers, CheckSkip(p) PROVE TypeOK'
  <2>1. lock' \in [Urls -> Times]
    BY <1>19, UnlockType DEF TypeOK, CheckSkip, Goto
  <2>2. pc' \in [Parsers -> ControlStates] /\ after' \in [Parsers -> Returns]
    BY <1>19 DEF TypeOK, CheckSkip, UrlFinished, Goto, GotoAfter, ControlStates, Returns
  <2> QED
    BY <1>19, <2>1, <2>2 DEF TypeOK, CheckSkip, Goto, ControlStates
<1>20. ASSUME NEW p \in Parsers, Renew(p) PROVE TypeOK'
  <2>1. Head(urls[p]) \in Urls
    BY <1>20, UrlsFacts DEF TypeOK, Renew, Control, TypeInv, Goto
  <2>2. newTime[p] \in Times /\ cacheLockTime[p] \in Times /\ cacheLockTime[p] <= MaxTime + Lease
    BY <1>20 DEF TypeOK, Renew, TypeInv, Control
  <2>3. lock' \in [Urls -> Times] /\ owner' \in [Urls -> Parsers \cup {NoParser}]
    BY <1>20, <2>1, <2>2, TimeFacts DEF TypeOK, Renew, Goto
  <2>4. lockTime' \in [Parsers -> Times] /\ newTime' \in [Parsers -> Times]
    BY <1>20, TimeFacts DEF TypeOK, Renew, Goto
  <2>5. pc' \in [Parsers -> ControlStates]
    BY <1>20 DEF TypeOK, Renew, Goto, ControlStates
  <2> QED
    BY <1>20, <2>1, <2>2, <2>3, <2>4, <2>5 DEF TypeOK, Renew, Goto, ControlStates
<1>21. ASSUME NEW p \in Parsers, RenewSkip(p) PROVE TypeOK'
  <2>1. lockTime' \in [Parsers -> Times] /\ newTime' \in [Parsers -> Times]
    BY <1>21, TimeFacts DEF TypeOK, RenewSkip, Goto
  <2>2. pc' \in [Parsers -> ControlStates] /\ after' \in [Parsers -> Returns]
    BY <1>21 DEF TypeOK, RenewSkip, UrlFinished, Goto, GotoAfter, ControlStates, Returns
  <2> QED
    BY <1>21, <2>1, <2>2 DEF TypeOK, RenewSkip, Goto, ControlStates
<1>22. ASSUME NEW p \in Parsers, ParseSuccess(p) PROVE TypeOK'
  <2>1. Head(urls[p]) \in Urls /\ lockTime[p] \in Times /\ finished[p] \in Seq(Finished)
    BY <1>22, FinishedFacts, UrlsFacts DEF TypeOK, ParseSuccess, Control, TypeInv, Goto, UrlFinished, GotoAfter
  <2>2. finished' \in [Parsers -> Seq(Finished)]
    BY <1>22, <2>1, AppendFacts DEF TypeOK, ParseSuccess, Finished
  <2>3. results' \in [Parsers -> SUBSET Urls]
    BY <1>22, <2>1, <2>2 DEF TypeOK, ParseSuccess, Goto
  <2>4. lockTime' \in [Parsers -> Times]
    BY <1>22, TimeFacts DEF TypeOK, ParseSuccess, Goto
  <2>5. pc' \in [Parsers -> ControlStates] /\ after' \in [Parsers -> Returns]
    BY <1>22 DEF TypeOK, ParseSuccess, UrlFinished, Goto, GotoAfter, ControlStates, Returns
  <2> QED
    BY <1>22, <2>1, <2>2, <2>3, <2>4, <2>5 DEF TypeOK, ParseSuccess, Finished
<1>23. ASSUME NEW p \in Parsers, ParseFailure(p) PROVE TypeOK'
  <2>1. lock' \in [Urls -> Times]
    BY <1>23, UnlockType DEF TypeOK, ParseFailure, Goto
  <2>2. pc' \in [Parsers -> ControlStates] /\ after' \in [Parsers -> Returns]
    BY <1>23 DEF TypeOK, ParseFailure, UrlFinished, Goto, GotoAfter, ControlStates, Returns
  <2>3. lockTime' \in [Parsers -> Times]
    BY <1>23, TimeFacts DEF TypeOK, ParseFailure, Goto
  <2> QED
    BY <1>23, <2>1, <2>2, <2>3 DEF TypeOK, ParseFailure, Goto, ControlStates
<1>24. ASSUME NEW p \in Parsers, ParseCancelled(p) PROVE TypeOK'
  <2>1. lock' \in [Urls -> Times]
    BY <1>24, UnlockType DEF TypeOK, ParseCancelled, Goto
  <2>2. Head(urls[p]) \in Urls
    BY <1>24, UrlsFacts DEF TypeOK, ParseCancelled, Control, TypeInv, Goto
  <2>3. results' \in [Parsers -> SUBSET Urls]
    BY <1>24, <2>1, <2>2 DEF TypeOK, ParseCancelled, Goto
  <2>4. lockTime' \in [Parsers -> Times]
    BY <1>24, TimeFacts DEF TypeOK, ParseCancelled, Goto
  <2>5. pc' \in [Parsers -> ControlStates]
    BY <1>24 DEF TypeOK, ParseCancelled, Goto, ControlStates
  <2> QED
    BY <1>24, <2>1, <2>2, <2>3, <2>4, <2>5 DEF TypeOK, ParseCancelled, Goto, ControlStates
<1>25. ASSUME NEW p \in Parsers, Pop(p) PROVE TypeOK'
  <2>1. urls[p] # <<>> /\ Head(urls[p]) \in Urls /\ Tail(urls[p]) \in Seq(Urls)
    BY <1>25, UrlsFacts DEF TypeOK, Pop, Control, TypeInv, Goto, GotoAfter
  <2>2. urls' \in [Parsers -> Seq(Urls)] /\ lastUrl' \in [Parsers -> Ids]
    BY <1>25, <2>1, UrlsFacts DEF TypeOK, Pop, Urls, Ids
  <2>3. cacheLockTime' \in [Parsers -> Times]
    BY <1>25, TimeFacts DEF TypeOK, Pop, Goto
  <2>4. pc' \in [Parsers -> ControlStates] /\ after' \in [Parsers -> Returns]
    BY <1>25 DEF TypeOK, Pop, TypeInv, Control, Goto, GotoAfter, ControlStates, Returns
  <2> QED
    BY <1>25, <2>1, <2>2, <2>3, <2>4 DEF TypeOK, Pop, Goto, GotoAfter
<1>26. ASSUME NEW p \in Parsers, SaveFails(p) PROVE TypeOK'
  <2>1. pc' \in [Parsers -> ControlStates] /\ after' \in [Parsers -> Returns]
    BY <1>26 DEF TypeOK, SaveFails, Thrown, AfterThrow, Goto, GotoAfter, ControlStates, Returns
  <2>2. saved' \subseteq Urls /\ lost' \subseteq Urls /\ results' \in [Parsers -> SUBSET Urls]
    BY <1>26 DEF TypeOK, SaveFails, Thrown
  <2> QED
    BY <1>26, <2>1, <2>2 DEF TypeOK, SaveFails, Thrown
<1>27. ASSUME NEW p \in Parsers, FinishUrl(p) PROVE TypeOK'
  <2>1. Head(finished[p]).url \in Urls /\ Tail(finished[p]) \in Seq(Finished)
    BY <1>27, FinishedFacts DEF TypeOK, FinishUrl, Goto
  <2>2. finished' \in [Parsers -> Seq(Finished)]
    BY <1>27, <2>1 DEF TypeOK, FinishUrl, Finished
  <2>3. lock' \in [Urls -> Times] /\ success' \in [Urls -> BOOLEAN]
    BY <1>27, TimeFacts DEF TypeOK, FinishUrl, Goto
  <2>4. pc' \in [Parsers -> ControlStates]
    BY <1>27 DEF TypeOK, FinishUrl, Goto, ControlStates
  <2> QED
    BY <1>27, <2>1, <2>2, <2>3, <2>4 DEF TypeOK, FinishUrl, Finished
<1>28. ASSUME NEW p \in Parsers, FinishFails(p) PROVE TypeOK'
  <2>1. pc' \in [Parsers -> ControlStates] /\ after' \in [Parsers -> Returns]
    BY <1>28 DEF TypeOK, FinishFails, Thrown, AfterThrow, Goto, GotoAfter, ControlStates, Returns
  <2>2. finished' \in [Parsers -> Seq(Finished)]
    BY <1>28, FinishedFacts DEF TypeOK, FinishFails, Thrown
  <2> QED
    BY <1>28, <2>1, <2>2 DEF TypeOK, FinishFails, Finished
<1>29. ASSUME NEW p \in Parsers, UnlockAll(p) PROVE TypeOK'
  <2>1. lock' \in [Urls -> Times]
    BY <1>29, UnlockType DEF TypeOK, UnlockAll, Goto
  <2>2. intruded' \subseteq Urls
    BY <1>29 DEF TypeOK, UnlockAll, Intrude
  <2>3. pc' \in [Parsers -> ControlStates] /\ after' \in [Parsers -> Returns]
    BY <1>29 DEF TypeOK, UnlockAll, TypeInv, Control, Goto, GotoAfter, ControlStates, Returns
  <2>4. urls' \in [Parsers -> Seq(Urls)] /\ lastUrl' \in [Parsers -> Ids] /\ cacheLockTime' \in [Parsers -> Times]
    BY <1>29, TimeFacts, EmptySeq, UrlsFacts DEF TypeOK, UnlockAll, Goto
  <2> QED
    BY <1>29, <2>1, <2>2, <2>3, <2>4 DEF TypeOK, UnlockAll, Goto
<1>30. ASSUME NEW p \in Parsers, NEW id \in 0 .. instance.listed, Warp(p, id) PROVE TypeOK'
  <2>1. id \in Ids
    OBVIOUS
  <2>2. last' \in [Parsers -> Ids] /\ warped' \in [Parsers -> BOOLEAN] /\ pc' \in [Parsers -> ControlStates]
    BY <1>30, <2>1 DEF TypeOK, Warp, Goto, ControlStates
  <2> QED
    BY <1>30, <2>2 DEF TypeOK, Warp, Goto
<1>31. ASSUME NEW P \in SUBSET Parsers, Begin(P) , UNCHANGED <<world, table>>, last' \in [Parsers -> Ids] PROVE TypeOK'
  <2>1. pc' \in [Parsers -> ControlStates] /\ after' \in [Parsers -> Returns]
        /\ running' \in [Parsers -> BOOLEAN] /\ warped' \in [Parsers -> BOOLEAN]
    BY <1>31 DEF TypeOK, Begin, ControlStates, Returns
  <2>2. urls' \in [Parsers -> Seq(Urls)] /\ locked' \in [Parsers -> Nat]
    BY <1>31, EmptySeq DEF TypeOK, Begin
  <2>3. newTime' \in [Parsers -> Times] /\ cacheLockTime' \in [Parsers -> Times]
        /\ lockTime' \in [Parsers -> Times]
    BY <1>31, TimeFacts DEF TypeOK, Begin
  <2>4. finished' \in [Parsers -> Seq(Finished)]
    BY <1>31, EmptySeq DEF TypeOK, Begin, Finished
  <2>5. results' \in [Parsers -> SUBSET Urls]
    BY <1>31 DEF TypeOK, Begin
  <2>6. 0 \in Ids
    BY DEF Ids
  <2>7. lastUrl' \in [Parsers -> Ids]
    BY <1>31, <2>6 DEF TypeOK, Begin
  <2> QED
    BY <1>31, <2>1, <2>2, <2>3, <2>4, <2>5, <2>7 DEF TypeOK, Finished, Begin
<1>32. ASSUME NEW p \in Parsers, NewThread(p) PROVE TypeOK'
  <2>1. 0 \in Ids
    BY DEF Ids
  <2>2. {p} \in SUBSET Parsers /\ Begin({p}) /\ UNCHANGED <<world, table>>
    BY <1>32 DEF NewThread
  <2>3. last' \in [Parsers -> Ids]
    BY <1>32, <2>1 DEF TypeOK, NewThread
  <2> QED
    BY <2>2, <2>3, <1>31
<1>33. CASE Crash
  <2>1. Begin(Parsers) /\ last' \in [Parsers -> Ids]
    BY <1>33 DEF TypeOK, Crash
  <2>2. Parsers \in SUBSET Parsers /\ UNCHANGED <<world, table>>
    BY <1>33 DEF Crash
  <2> QED
    BY <2>1, <2>2, <1>31
<1>34. CASE Time
  <2>1. now \in 1 .. MaxTime /\ MaxTime \in Nat
    BY DEF TypeOK
  <2>2. now < MaxTime /\ now' = now + 1
    BY <1>34 DEF Time
  <2>3. now' \in 1 .. MaxTime
    BY <2>1, <2>2
  <2>4. UNCHANGED <<instance, table, last, running, pc, after, cache, memory>>
    BY <1>34 DEF Time
  <2> QED
    BY <2>3, <2>4 DEF TypeOK
<1>35. CASE UNCHANGED vars
  BY <1>35 DEF TypeOK, vars
<1> QED
  BY <1>1, <1>2, <1>3, <1>4, <1>5, <1>6, <1>7, <1>8, <1>9, <1>10, <1>11, <1>12, <1>13, <1>14, <1>15, <1>16, <1>17, <1>18, <1>19, <1>20, <1>21, <1>22, <1>23, <1>24, <1>25, <1>26, <1>27, <1>28, <1>29, <1>30, <1>32, <1>33, <1>34, <1>35
  DEF Next, ParserStep, Main, Tick, Fetch, Check, Parse, SaveResults

\* The step of a parser changes nothing that another one has.
Same(q) ==
  /\ last'[q] = last[q] /\ running'[q] = running[q] /\ pc'[q] = pc[q] /\ after'[q] = after[q]
  /\ urls'[q] = urls[q] /\ locked'[q] = locked[q] /\ newTime'[q] = newTime[q]
  /\ cacheLockTime'[q] = cacheLockTime[q] /\ lockTime'[q] = lockTime[q]
  /\ results'[q] = results[q] /\ finished'[q] = finished[q] /\ lastUrl'[q] = lastUrl[q]
  /\ warped'[q] = warped[q]

LEMMA OthersStay ==
  ASSUME TypeOK, NEW p \in Parsers, ParserStep(p)
  PROVE  \A q \in Parsers \ {p} : Same(q)
<1> USE DEF world, table, cache, memory
<1>1. CASE Loop(p)
  BY <1>1 DEF Loop, Goto, TypeOK, Same
<1>2. CASE TickFetch(p)
  BY <1>2 DEF TickFetch, Goto, TypeOK, Same
<1>3. CASE TickCached(p)
  BY <1>3 DEF TickCached, Goto, TypeOK, Same
<1>4. CASE TickEnd(p)
  BY <1>4 DEF TickEnd, Goto, TypeOK, Same
<1>5. CASE FetchTime(p)
  BY <1>5 DEF FetchTime, Goto, TypeOK, Same
<1>6. CASE Select(p)
  BY <1>6 DEF Select, Goto, TypeOK, Same
<1>7. CASE Insert(p)
  BY <1>7 DEF Insert, Goto, TypeOK, Same
<1>8. CASE CheckSkip(p)
  BY <1>8 DEF CheckSkip, UrlFinished, Goto, GotoAfter, TypeOK, Same
<1>9. CASE CheckEnd(p)
  BY <1>9 DEF CheckEnd, Goto, TypeOK, Same
<1>10. CASE RenewTime(p)
  BY <1>10 DEF RenewTime, Goto, TypeOK, Same
<1>11. CASE Renew(p)
  BY <1>11 DEF Renew, Goto, TypeOK, Same
<1>12. CASE RenewSkip(p)
  BY <1>12 DEF RenewSkip, UrlFinished, Goto, GotoAfter, TypeOK, Same
<1>13. CASE ParseSuccess(p)
  BY <1>13 DEF ParseSuccess, UrlFinished, Goto, GotoAfter, TypeOK, Same
<1>14. CASE ParseFailure(p)
  BY <1>14 DEF ParseFailure, UrlFinished, Goto, GotoAfter, TypeOK, Same
<1>15. CASE ParseCancelled(p)
  BY <1>15 DEF ParseCancelled, Goto, TypeOK, Same
<1>16. CASE Pop(p)
  BY <1>16 DEF Pop, Goto, GotoAfter, TypeOK, Same
<1>17. CASE SaveNothing(p)
  BY <1>17 DEF SaveNothing, Return, Goto, GotoAfter, TypeOK, Same
<1>18. CASE Save(p)
  BY <1>18 DEF Save, Goto, TypeOK, Same
<1>19. CASE SaveFails(p)
  BY <1>19 DEF SaveFails, Thrown, AfterThrow, Goto, GotoAfter, TypeOK, Same
<1>20. CASE SetLast(p)
  BY <1>20 DEF SetLast, Goto, TypeOK, Same
<1>21. CASE FinishUrl(p)
  BY <1>21 DEF FinishUrl, Goto, TypeOK, Same
<1>22. CASE FinishFails(p)
  BY <1>22 DEF FinishFails, Thrown, AfterThrow, Goto, GotoAfter, TypeOK, Same
<1>23. CASE FinishEnd(p)
  BY <1>23 DEF FinishEnd, Return, Goto, GotoAfter, TypeOK, Same
<1>24. CASE Pause(p)
  BY <1>24 DEF Pause, Goto, GotoAfter, TypeOK, Same
<1>25. CASE TickWarped(p)
  BY <1>25 DEF TickWarped, Goto, GotoAfter, TypeOK, Same
<1>26. CASE Reset(p)
  BY <1>26 DEF Reset, Goto, GotoAfter, TypeOK, Same
<1>27. CASE Clear(p)
  BY <1>27 DEF Clear, Goto, GotoAfter, TypeOK, Same
<1>28. CASE UnlockAll(p)
  BY <1>28 DEF UnlockAll, Goto, GotoAfter, TypeOK, Same
<1>29. CASE Stop(p)
  BY <1>29 DEF Stop, TypeOK, Same
<1>30. CASE NewThread(p)
  BY <1>30 DEF NewThread, Begin, TypeOK, Same
<1>31. ASSUME NEW id \in 0 .. instance.listed, Warp(p, id) PROVE \A q \in Parsers \ {p} : Same(q)
  BY <1>31 DEF Warp, Goto, TypeOK, Same
<1> QED
  BY <1>1, <1>2, <1>3, <1>4, <1>5, <1>6, <1>7, <1>8, <1>9, <1>10, <1>11, <1>12, <1>13, <1>14, <1>15, <1>16, <1>17, <1>18, <1>19, <1>20, <1>21, <1>22, <1>23, <1>24, <1>25, <1>26, <1>27, <1>28, <1>29, <1>30, <1>31
  DEF ParserStep, Main, Tick, Fetch, Check, Parse, SaveResults

LEMMA ControlStep ==
  ASSUME TypeInv, NEW p \in Parsers, ParserStep(p)
  PROVE  Control(p)'
<1> USE InstanceFacts DEF world, table, cache, memory
<1> TypeOK /\ Control(p)
  BY DEF TypeInv
<1>1. CASE Loop(p)
  BY <1>1 DEF Loop, Goto, TypeOK, Control, Saving, ControlStates, Returns, Begin
<1>2. CASE TickFetch(p)
  BY <1>2 DEF TickFetch, Goto, TypeOK, Control, Saving, ControlStates, Returns, Begin
<1>3. CASE TickCached(p)
  BY <1>3 DEF TickCached, Goto, TypeOK, Control, Saving, ControlStates, Returns, Begin
<1>4. CASE TickEnd(p)
  BY <1>4 DEF TickEnd, Goto, TypeOK, Control, Saving, ControlStates, Returns, Begin
<1>5. CASE FetchTime(p)
  <2>1. pc[p] = "fetch" /\ pc'[p] = "select" /\ after'[p] = after[p] /\ urls'[p] = urls[p] /\ locked'[p] = locked[p]
        /\ newTime'[p] = now + Lease /\ cacheLockTime'[p] = cacheLockTime[p]
    BY <1>5 DEF TypeOK, FetchTime, Goto, Expiry, Control
  <2> QED
    BY <2>1, TimeFacts DEF Control, Saving
<1>6. CASE Select(p)
  <2>1. PICK next \in NextUrls(p) :
          /\ urls'[p] = next /\ pc'[p] = IF next = <<>> THEN "ticked" ELSE "insert"
          /\ newTime'[p] = IF next = <<>> THEN 0 ELSE newTime[p]
    BY <1>6 DEF TypeOK, Select, Goto
  <2>2. pc[p] = "select" /\ after'[p] = after[p] /\ locked'[p] = locked[p]
        /\ cacheLockTime'[p] = cacheLockTime[p]
    BY <1>6 DEF Select, Goto
  <2>3. locked[p] = 0
    BY <2>2 DEF Control
  <2>4. newTime'[p] <= MaxTime + Lease
    BY <2>1 DEF Control
  <2> QED
    BY <2>1, <2>2, <2>3, <2>4, NextUrlsFacts DEF Control, Saving
<1>7. CASE Insert(p)
  <2>1. pc[p] = "insert" /\ after'[p] = after[p] /\ urls'[p] = urls[p] /\ locked[p] \in Nat
    BY <1>7 DEF TypeOK, Insert, Goto
  <2>2. CASE locked[p] + 1 = Len(urls[p])
    <3>1. pc'[p] = "check" /\ locked'[p] = 0 /\ newTime'[p] = 0 /\ cacheLockTime'[p] = newTime[p]
      BY <1>7, <2>2 DEF TypeOK, Insert, Goto
    <3> QED
      BY <2>1, <3>1 DEF Control, Saving
  <2>3. CASE locked[p] + 1 # Len(urls[p])
    <3>1. pc'[p] = "insert" /\ locked'[p] = locked[p] + 1
          /\ newTime'[p] = newTime[p] /\ cacheLockTime'[p] = cacheLockTime[p]
      BY <1>7, <2>3 DEF TypeOK, Insert, Goto
    <3> QED
      BY <2>1, <2>3, <3>1, UrlsFacts DEF Control, Saving
  <2> QED
    BY <2>2, <2>3
<1>8. CASE CheckSkip(p)
  BY <1>8, UrlsFacts DEF CheckSkip, UrlFinished, Goto, GotoAfter, TypeOK, Control, Saving, ControlStates, Returns, Begin
<1>9. CASE CheckEnd(p)
  BY <1>9 DEF CheckEnd, Goto, TypeOK, Control, Saving, ControlStates, Returns, Begin
<1>10. CASE RenewTime(p)
  <2>1. pc[p] = "renewTime" /\ pc'[p] = "renew" /\ after'[p] = after[p] /\ urls'[p] = urls[p] /\ locked'[p] = locked[p]
        /\ newTime'[p] = now + Lease /\ cacheLockTime'[p] = cacheLockTime[p]
    BY <1>10 DEF TypeOK, RenewTime, Goto, Expiry, Control
  <2> QED
    BY <2>1, TimeFacts DEF Control, Saving
<1>11. CASE Renew(p)
  <2>1. pc[p] = "renew" /\ pc'[p] = "parse" /\ after'[p] = after[p] /\ urls'[p] = urls[p] /\ locked'[p] = locked[p]
        /\ newTime'[p] = 0 /\ cacheLockTime'[p] = cacheLockTime[p]
    BY <1>11 DEF TypeOK, Renew, Goto, Control
  <2> QED
    BY <2>1 DEF Control, Saving
<1>12. CASE RenewSkip(p)
  <2>1. pc[p] = "renew" /\ after'[p] = "ticked" /\ urls'[p] = urls[p] /\ locked'[p] = locked[p] /\ newTime'[p] = 0
        /\ cacheLockTime'[p] = cacheLockTime[p]
        /\ pc'[p] = IF Len(urls[p]) = 1 THEN "save" ELSE "pop"
    BY <1>12 DEF TypeOK, RenewSkip, UrlFinished, Goto, GotoAfter, Control
  <2> QED
    BY <2>1, UrlsFacts DEF Control, Saving
<1>13. CASE ParseSuccess(p)
  BY <1>13, UrlsFacts DEF ParseSuccess, UrlFinished, Goto, GotoAfter, TypeOK, Control, Saving, ControlStates, Returns, Begin
<1>14. CASE ParseFailure(p)
  BY <1>14, UrlsFacts DEF ParseFailure, UrlFinished, Goto, GotoAfter, TypeOK, Control, Saving, ControlStates, Returns, Begin
<1>15. CASE ParseCancelled(p)
  BY <1>15 DEF ParseCancelled, Goto, TypeOK, Control, Saving, ControlStates, Returns, Begin
<1>16. CASE Pop(p)
  <2>1. pc[p] = "pop" /\ pc'[p] = after[p] /\ after'[p] = "ticked" /\ urls'[p] = Tail(urls[p])
        /\ locked'[p] = locked[p] /\ newTime'[p] = newTime[p]
        /\ cacheLockTime'[p] \in {0, cacheLockTime[p]}
    BY <1>16 DEF TypeOK, Pop, Goto, GotoAfter
  <2>2. after[p] \in {"check", "ticked"}
    BY <2>1 DEF Control
  <2>3. cacheLockTime'[p] <= MaxTime + Lease
    BY <2>1 DEF Control
  <2> QED
    BY <2>1, <2>2, <2>3 DEF Control, Saving
<1>17. CASE SaveNothing(p)
  <2>1. pc[p] = "save" /\ urls'[p] = urls[p] /\ locked'[p] = locked[p] /\ newTime'[p] = newTime[p] /\ cacheLockTime'[p] = cacheLockTime[p]
    BY <1>17 DEF SaveNothing, Return, Goto, GotoAfter
  <2>2. \/ after[p] = "pause" /\ pc'[p] = "loop" /\ after'[p] = "ticked"
        \/ after[p] \in {"check", "ticked"} /\ pc'[p] = "pop" /\ after'[p] = after[p]
        \/ after[p] \in {"warp", "reset", "clear"} /\ pc'[p] = "unlockAll" /\ after'[p] = after[p]
    BY <1>17 DEF TypeOK, Returns, SaveNothing, Return, Goto, GotoAfter
  <2>3. after[p] \in {"check", "ticked"} => urls[p] # <<>>
    <3>1. after[p] \in {"check", "ticked"} => Len(urls[p]) = 1
      BY <2>1 DEF Control, Saving
    <3> QED
      BY <3>1, OneUrl
  <2> QED
    BY <2>1, <2>2, <2>3 DEF Control, Saving
<1>18. CASE Save(p)
  BY <1>18 DEF Save, Goto, TypeOK, Control, Saving, ControlStates, Returns, Begin
<1>19. CASE SaveFails(p)
  BY <1>19 DEF SaveFails, Thrown, AfterThrow, Goto, GotoAfter, TypeOK, Control, Saving, ControlStates, Returns, Begin
<1>20. CASE SetLast(p)
  BY <1>20 DEF SetLast, Goto, TypeOK, Control, Saving, ControlStates, Returns, Begin
<1>21. CASE FinishUrl(p)
  BY <1>21 DEF FinishUrl, Goto, TypeOK, Control, Saving, ControlStates, Returns, Begin
<1>22. CASE FinishFails(p)
  BY <1>22 DEF FinishFails, Thrown, AfterThrow, Goto, GotoAfter, TypeOK, Control, Saving, ControlStates, Returns, Begin
<1>23. CASE FinishEnd(p)
  <2>1. pc[p] = "finishing" /\ urls'[p] = urls[p] /\ locked'[p] = locked[p] /\ newTime'[p] = newTime[p] /\ cacheLockTime'[p] = cacheLockTime[p]
    BY <1>23 DEF FinishEnd, Return, Goto, GotoAfter
  <2>2. \/ after[p] = "pause" /\ pc'[p] = "loop" /\ after'[p] = "ticked"
        \/ after[p] \in {"check", "ticked"} /\ pc'[p] = "pop" /\ after'[p] = after[p]
        \/ after[p] \in {"warp", "reset", "clear"} /\ pc'[p] = "unlockAll" /\ after'[p] = after[p]
    BY <1>23 DEF TypeOK, Returns, FinishEnd, Return, Goto, GotoAfter
  <2>3. after[p] \in {"check", "ticked"} => urls[p] # <<>>
    <3>1. after[p] \in {"check", "ticked"} => Len(urls[p]) = 1
      BY <2>1 DEF Control, Saving
    <3> QED
      BY <3>1, OneUrl
  <2> QED
    BY <2>1, <2>2, <2>3 DEF Control, Saving
<1>24. CASE Pause(p)
  BY <1>24 DEF Pause, Goto, GotoAfter, TypeOK, Control, Saving, ControlStates, Returns, Begin
<1>25. CASE TickWarped(p)
  BY <1>25 DEF TickWarped, Goto, GotoAfter, TypeOK, Control, Saving, ControlStates, Returns, Begin
<1>26. CASE Reset(p)
  BY <1>26 DEF Reset, Goto, GotoAfter, TypeOK, Control, Saving, ControlStates, Returns, Begin
<1>27. CASE Clear(p)
  BY <1>27 DEF Clear, Goto, GotoAfter, TypeOK, Control, Saving, ControlStates, Returns, Begin
<1>28. CASE UnlockAll(p)
  <2>1. pc[p] = "unlockAll" /\ after'[p] = "ticked" /\ urls'[p] = <<>> /\ locked'[p] = locked[p]
        /\ newTime'[p] = newTime[p] /\ cacheLockTime'[p] = 0
    BY <1>28 DEF TypeOK, UnlockAll, Goto, GotoAfter
  <2>2. pc'[p] \in {"fetch", "tick", "exited"}
    BY <1>28, <2>1 DEF TypeOK, Control, UnlockAll, Goto, GotoAfter
  <2> QED
    BY <2>1, <2>2 DEF Control, Saving
<1>29. CASE Stop(p)
  BY <1>29 DEF Stop, TypeOK, Control, Saving, ControlStates, Returns, Begin
<1>30. CASE NewThread(p)
  <2>1. pc'[p] = "loop" /\ after'[p] = "ticked" /\ locked'[p] = 0 /\ newTime'[p] = 0
        /\ cacheLockTime'[p] = 0
    BY <1>30 DEF NewThread, Begin
  <2> QED
    BY <2>1 DEF Control, Saving
<1>31. ASSUME NEW id \in 0 .. instance.listed, Warp(p, id) PROVE Control(p)'
  BY <1>31 DEF Warp, Goto, TypeOK, Control, Saving, ControlStates, Returns, Begin
<1> QED
  BY <1>1, <1>2, <1>3, <1>4, <1>5, <1>6, <1>7, <1>8, <1>9, <1>10, <1>11, <1>12, <1>13, <1>14, <1>15, <1>16, <1>17, <1>18, <1>19, <1>20, <1>21, <1>22, <1>23, <1>24, <1>25, <1>26, <1>27, <1>28, <1>29, <1>30, <1>31
  DEF ParserStep, Main, Tick, Fetch, Check, Parse, SaveResults

LEMMA TypeInvStep ==
  ASSUME TypeInv, [Next]_vars
  PROVE  TypeInv'
<1> TypeOK
  BY DEF TypeInv
<1>1. CASE \E p \in instance.parsers : ParserStep(p)
  <2>1. PICK p \in Parsers : ParserStep(p)
    BY <1>1, InstanceFacts
  <2>2. ASSUME NEW q \in Parsers \ {p} PROVE Control(q)'
    BY <2>1, <2>2, OthersStay DEF TypeInv, Control, Saving, Same
  <2>3. Control(p)'
    BY <2>1, ControlStep
  <2> QED
    BY <2>2, <2>3, TypeStep DEF TypeInv
<1>2. CASE Crash
  <2>1. ASSUME NEW p \in Parsers PROVE Control(p)'
    BY <1>2, InstanceFacts DEF Crash, Begin, Control, Saving
  <2> QED
    BY <2>1, TypeStep DEF TypeInv
<1>3. CASE Time \/ UNCHANGED vars
  <2>1. ASSUME NEW p \in Parsers PROVE Control(p)'
    BY <1>3 DEF Time, vars, cache, memory, TypeInv, Control, Saving
  <2> QED
    BY <2>1, TypeStep DEF TypeInv
<1> QED
  BY <1>1, <1>2, <1>3 DEF Next

\* Every variable keeps its type, and every parser its control state consistent
\* with its cache: among others, no parser renews, parses or drops a URL without
\* having one (onTick(), parsingUrlFinished()).
THEOREM TypeCorrect == Spec => []TypeInv
BY TypeInit, TypeInvStep, PTL DEF Spec

-----------------------------------------------------------------------------
(* A finished URL has results.                                              *)

LEMMA QueuedStep ==
  ASSUME TypeInv, NEW p \in Parsers, ParserStep(p), QueuedHasResults(p)
  PROVE  QueuedHasResults(p)'
<1> USE InstanceFacts DEF world, table, cache, memory
<1> TypeOK /\ Control(p)
  BY DEF TypeInv
<1>1. CASE Loop(p)
  BY <1>1 DEF Loop, Goto, TypeOK, QueuedHasResults
<1>2. CASE TickFetch(p)
  BY <1>2 DEF TickFetch, Goto, TypeOK, QueuedHasResults
<1>3. CASE TickCached(p)
  BY <1>3 DEF TickCached, Goto, TypeOK, QueuedHasResults
<1>4. CASE TickEnd(p)
  BY <1>4 DEF TickEnd, Goto, TypeOK, QueuedHasResults
<1>5. CASE FetchTime(p)
  BY <1>5 DEF FetchTime, Goto, TypeOK, QueuedHasResults
<1>6. CASE Select(p)
  BY <1>6 DEF Select, Goto, TypeOK, QueuedHasResults
<1>7. CASE Insert(p)
  BY <1>7 DEF Insert, Goto, TypeOK, QueuedHasResults
<1>8. CASE CheckSkip(p)
  BY <1>8 DEF CheckSkip, UrlFinished, Goto, GotoAfter, TypeOK, QueuedHasResults
<1>9. CASE CheckEnd(p)
  BY <1>9 DEF CheckEnd, Goto, TypeOK, QueuedHasResults
<1>10. CASE RenewTime(p)
  BY <1>10 DEF RenewTime, Goto, TypeOK, QueuedHasResults
<1>11. CASE Renew(p)
  BY <1>11 DEF Renew, Goto, TypeOK, QueuedHasResults
<1>12. CASE RenewSkip(p)
  BY <1>12 DEF RenewSkip, UrlFinished, Goto, GotoAfter, TypeOK, QueuedHasResults
<1>13. CASE ParseSuccess(p)
  <2> DEFINE f == [url |-> Head(urls[p]), time |-> lockTime[p]]
  <2>1. pc'[p] \in {"save", "pop"} /\ results'[p] = results[p] \cup {f.url}
        /\ finished'[p] = Append(finished[p], f) /\ saved' = saved /\ lost' = lost
    BY <1>13 DEF TypeOK, ParseSuccess, UrlFinished, Goto, GotoAfter
  <2>2. f \in Finished
    BY <1>13, UrlsFacts DEF TypeOK, Control, Finished, ParseSuccess, UrlFinished, Goto, GotoAfter
  <2> HIDE DEF f
  <2>3. \A i \in DOMAIN finished'[p] : finished'[p][i] = f \/ (i \in DOMAIN finished[p] /\ finished'[p][i] = finished[p][i])
    BY <2>1, <2>2, FinishedFacts, AppendFacts
  <2> QED
    BY <2>1, <2>3 DEF QueuedHasResults
<1>14. CASE ParseFailure(p)
  BY <1>14 DEF ParseFailure, UrlFinished, Goto, GotoAfter, TypeOK, QueuedHasResults
<1>15. CASE ParseCancelled(p)
  BY <1>15 DEF ParseCancelled, Goto, TypeOK, QueuedHasResults
<1>16. CASE Pop(p)
  <2>1. results'[p] = results[p] /\ finished'[p] = finished[p] /\ saved' = saved /\ lost' = lost
    BY <1>16 DEF Pop
  <2>2. pc'[p] \in {"check", "ticked"}
    BY <1>16 DEF TypeOK, Control, Pop, Goto, GotoAfter
  <2> QED
    BY <2>1, <2>2 DEF QueuedHasResults
<1>17. CASE SaveNothing(p)
  BY <1>17 DEF SaveNothing, Return, Goto, GotoAfter, TypeOK, QueuedHasResults
<1>18. CASE Save(p)
  BY <1>18 DEF Save, Goto, TypeOK, QueuedHasResults
<1>19. CASE SaveFails(p)
  <2>1. finished'[p] = finished[p] /\ pc'[p] \notin {"setLast", "finishing", "unlockAll"}
    BY <1>19 DEF TypeOK, Returns, SaveFails, Thrown, AfterThrow, Goto, GotoAfter
  <2>2. saved \cup lost \cup results[p] \subseteq saved' \cup lost' \cup results'[p]
    BY <1>19 DEF TypeOK, SaveFails
  <2> QED
    BY <2>1, <2>2 DEF QueuedHasResults
<1>20. CASE SetLast(p)
  BY <1>20 DEF SetLast, Goto, TypeOK, QueuedHasResults
<1>21. CASE FinishUrl(p)
  <2>1. finished[p] # <<>> /\ finished'[p] = Tail(finished[p]) /\ pc'[p] = pc[p]
        /\ results'[p] = results[p] /\ saved' = saved /\ lost' = lost
    BY <1>21 DEF TypeOK, FinishUrl, Goto
  <2> QED
    BY <2>1, FinishedFacts DEF QueuedHasResults
<1>22. CASE FinishFails(p)
  <2>1. finished[p] # <<>> /\ finished'[p] = Tail(finished[p])
        /\ pc'[p] \notin {"setLast", "finishing", "unlockAll"}
        /\ results'[p] = results[p] /\ saved' = saved /\ lost' = lost
    BY <1>22 DEF TypeOK, Returns, FinishFails, Thrown, AfterThrow, Goto, GotoAfter
  <2> QED
    BY <2>1, FinishedFacts DEF QueuedHasResults
<1>23. CASE FinishEnd(p)
  BY <1>23 DEF FinishEnd, Return, Goto, GotoAfter, TypeOK, QueuedHasResults
<1>24. CASE Pause(p)
  BY <1>24 DEF Pause, Goto, GotoAfter, TypeOK, QueuedHasResults
<1>25. CASE TickWarped(p)
  BY <1>25 DEF TickWarped, Goto, GotoAfter, TypeOK, QueuedHasResults
<1>26. CASE Reset(p)
  BY <1>26 DEF Reset, Goto, GotoAfter, TypeOK, QueuedHasResults
<1>27. CASE Clear(p)
  BY <1>27 DEF Clear, Goto, GotoAfter, TypeOK, QueuedHasResults
<1>28. CASE UnlockAll(p)
  <2>1. results'[p] = results[p] /\ finished'[p] = finished[p] /\ saved' = saved /\ lost' = lost
    BY <1>28 DEF UnlockAll
  <2>2. pc'[p] \in {"fetch", "tick", "exited"}
    BY <1>28 DEF TypeOK, Control, UnlockAll, Goto, GotoAfter
  <2> QED
    BY <2>1, <2>2 DEF QueuedHasResults
<1>29. CASE Stop(p)
  BY <1>29 DEF Stop, TypeOK, QueuedHasResults
<1>30. CASE NewThread(p)
  <2>1. finished'[p] = <<>> /\ results'[p] = {}
    BY <1>30 DEF NewThread, Begin
  <2> QED
    BY <2>1 DEF QueuedHasResults
<1>31. ASSUME NEW id \in 0 .. instance.listed, Warp(p, id) PROVE QueuedHasResults(p)'
  BY <1>31 DEF Warp, Goto, TypeOK, QueuedHasResults
<1> QED
  BY <1>1, <1>2, <1>3, <1>4, <1>5, <1>6, <1>7, <1>8, <1>9, <1>10, <1>11, <1>12, <1>13, <1>14, <1>15, <1>16, <1>17, <1>18, <1>19, <1>20, <1>21, <1>22, <1>23, <1>24, <1>25, <1>26, <1>27, <1>28, <1>29, <1>30, <1>31
  DEF ParserStep, Main, Tick, Fetch, Check, Parse, SaveResults

LEMMA ResultsStep ==
  ASSUME TypeInv, ResultsInv, [Next]_vars
  PROVE  ResultsInv'
<1> TypeOK
  BY DEF TypeInv
<1>1. CASE \E p \in instance.parsers : ParserStep(p)
  <2>1. PICK p \in Parsers : ParserStep(p)
    BY <1>1, InstanceFacts
  <2>2. saved \subseteq saved' /\ lost \subseteq lost'
    BY <2>1 DEF ParserStep, Main, Tick, Fetch, Check, Parse, SaveResults, world, table, cache,
         memory, Loop, TickFetch, TickCached, TickEnd, FetchTime, Select, Insert, CheckSkip,
         CheckEnd, RenewTime, Renew, RenewSkip, ParseSuccess, ParseFailure, ParseCancelled, Pop,
         SaveNothing, Save, SaveFails, SetLast, FinishUrl, FinishFails, FinishEnd, Pause,
         TickWarped, Reset, Clear, UnlockAll, Stop, NewThread, Warp
  <2>3. ASSUME NEW q \in Parsers \ {p} PROVE QueuedHasResults(q)'
    BY <2>1, <2>2, <2>3, OthersStay DEF ResultsInv, QueuedHasResults, Same
  <2>4. QueuedHasResults(p)'
    BY <2>1, QueuedStep DEF ResultsInv
  <2>5. FinishedHasResults'
    <3>1. CASE FinishUrl(p)
      <4>1. Head(finished[p]).url \in saved \cup lost
        BY <3>1, FinishedFacts DEF ResultsInv, QueuedHasResults, FinishUrl, Goto
      <4>2. \A u \in Urls : success'[u] => success[u] \/ u = Head(finished[p]).url
        BY <3>1 DEF TypeOK, FinishUrl
      <4> QED
        BY <2>2, <4>1, <4>2 DEF ResultsInv, FinishedHasResults
    <3>2. CASE success' = success
      BY <2>2, <3>2 DEF ResultsInv, FinishedHasResults
    <3> QED
      BY <2>1, <3>1, <3>2 DEF ParserStep, Main, Tick, Fetch, Check, Parse, SaveResults, world,
           table, cache, memory, Loop, TickFetch, TickCached, TickEnd, FetchTime, Select, Insert,
           CheckSkip, CheckEnd, RenewTime, Renew, RenewSkip, ParseSuccess, ParseFailure,
           ParseCancelled, Pop, SaveNothing, Save, SaveFails, SetLast, FinishFails, FinishEnd,
           Pause, TickWarped, Reset, Clear, UnlockAll, Stop, NewThread, Warp
  <2> QED
    BY <2>3, <2>4, <2>5 DEF ResultsInv
<1>2. CASE Crash
  <2>1. ASSUME NEW p \in Parsers PROVE QueuedHasResults(p)'
    BY <1>2, <2>1 DEF Crash, Begin, QueuedHasResults
  <2> QED
    BY <1>2, <2>1 DEF Crash, table, ResultsInv, FinishedHasResults
<1>3. CASE Time \/ UNCHANGED vars
  BY <1>3 DEF Time, vars, table, cache, memory, ResultsInv, FinishedHasResults, QueuedHasResults
<1> QED
  BY <1>1, <1>2, <1>3 DEF Next

\* A URL is marked as finished only if its results have been saved, or a failed
\* statement has lost them: parsingSaveResults() saves before it marks, and the
\* results of a queued URL leave the memory of its parser in no other way.
THEOREM FinishedUrlsHaveResults == Spec => []FinishedHasResults
<1>1. Init => ResultsInv
  BY DEF Init, ResultsInv, FinishedHasResults, QueuedHasResults
<1> QED
  BY <1>1, TypeCorrect, ResultsStep, PTL DEF Spec, ResultsInv

-----------------------------------------------------------------------------
(* What is not saved comes after the last ID.                               *)

LEMMA OrderStep ==
  ASSUME TypeInv, ~instance.dbFails, NEW p \in Parsers, ParserStep(p), QueuedHasResults(p), Order(p)
  PROVE  Order(p)'
<1> USE InstanceFacts DEF world, table, cache, memory
<1> TypeOK /\ Control(p)
  BY DEF TypeInv
<1>1. CASE Loop(p)
  BY <1>1 DEF Loop, Goto, TypeOK, Control, Order, Sorted, Ahead, Pausing, Saving
<1>2. CASE TickFetch(p)
  BY <1>2 DEF TickFetch, Goto, TypeOK, Control, Order, Sorted, Ahead, Pausing, Saving
<1>3. CASE TickCached(p)
  BY <1>3 DEF TickCached, Goto, TypeOK, Control, Order, Sorted, Ahead, Pausing, Saving
<1>4. CASE TickEnd(p)
  BY <1>4 DEF TickEnd, Goto, TypeOK, Control, Order, Sorted, Ahead, Pausing, Saving
<1>5. CASE FetchTime(p)
  BY <1>5 DEF FetchTime, Goto, TypeOK, Control, Order, Sorted, Ahead, Pausing, Saving
<1>6. CASE Select(p)
  <2>1. PICK next \in NextUrls(p) :
          /\ urls'[p] = next /\ pc[p] = "select" /\ pc'[p] \in {"ticked", "insert"}
          /\ pc'[p] = "ticked" => next = <<>>
    BY <1>6 DEF TypeOK, Select, Goto
  <2>2. last'[p] = last[p] /\ lastUrl'[p] = lastUrl[p] /\ warped'[p] = warped[p]
        /\ after'[p] = after[p] /\ results'[p] = results[p]
    BY <1>6 DEF Select
  <2>3. next = <<>> => DOMAIN next = {}
    BY EmptySeq, NextUrlsFacts
  <2>4. Sorted(p)' /\ Ahead(p, last[p])'
    BY <2>1, <2>2, NextUrlsFacts DEF Sorted, Ahead
  <2>5. pc'[p] = "ticked" => Ahead(p, lastUrl[p])'
    BY <2>1, <2>3 DEF Ahead
  <2> QED
    BY <2>1, <2>2, <2>4, <2>5 DEF Order, Pausing, Saving
<1>7. CASE Insert(p)
  BY <1>7 DEF Insert, Goto, TypeOK, Control, Order, Sorted, Ahead, Pausing, Saving
<1>8. CASE CheckSkip(p)
  BY <1>8 DEF CheckSkip, UrlFinished, Goto, GotoAfter, TypeOK, Control, Order, Sorted, Ahead, Pausing, Saving
<1>9. CASE CheckEnd(p)
  <2>1. pc[p] = "check" /\ pc'[p] \in {"ticked", "renewTime"} /\ after'[p] = after[p]
        /\ urls'[p] = urls[p] /\ lastUrl'[p] = lastUrl[p] /\ warped'[p] = warped[p] /\ last'[p] = last[p] /\ results'[p] = results[p]
        /\ (pc'[p] = "ticked" => urls[p] = <<>>)
    BY <1>9 DEF TypeOK, CheckEnd, Goto
  <2> QED
    BY <2>1 DEF Order, Sorted, Ahead, Pausing, Saving
<1>10. CASE RenewTime(p)
  BY <1>10 DEF RenewTime, Goto, TypeOK, Control, Order, Sorted, Ahead, Pausing, Saving
<1>11. CASE Renew(p)
  BY <1>11 DEF Renew, Goto, TypeOK, Control, Order, Sorted, Ahead, Pausing, Saving
<1>12. CASE RenewSkip(p)
  BY <1>12 DEF RenewSkip, UrlFinished, Goto, GotoAfter, TypeOK, Control, Order, Sorted, Ahead, Pausing, Saving
<1>13. CASE ParseSuccess(p)
  <2>1. pc[p] = "parse" /\ pc'[p] = (IF Len(urls[p]) = 1 THEN "save" ELSE "pop") /\ after'[p] = "ticked" /\ results'[p] \subseteq results[p] \cup {Head(urls[p])}
        /\ urls'[p] = urls[p] /\ lastUrl'[p] = lastUrl[p] /\ warped'[p] = warped[p] /\ last'[p] = last[p]
    BY <1>13 DEF TypeOK, ParseSuccess, UrlFinished, Goto, GotoAfter
  <2>2. urls[p] # <<>> /\ Head(urls[p]) = urls[p][1] /\ 1 \in DOMAIN urls[p]
    BY <2>1, UrlsFacts DEF Control
  <2>3. ~warped[p] => last[p] < Head(urls[p])
    BY <2>1, <2>2 DEF Order, Ahead
  <2>4. Sorted(p)' /\ (Ahead(p, last[p]) => Ahead(p, last[p])')
    BY <2>1 DEF Order, Sorted, Ahead
  <2> QED
    BY <2>1, <2>3, <2>4 DEF Order, Pausing, Saving, Control
<1>14. CASE ParseFailure(p)
  BY <1>14 DEF ParseFailure, UrlFinished, Goto, GotoAfter, TypeOK, Control, Order, Sorted, Ahead, Pausing, Saving
<1>15. CASE ParseCancelled(p)
  <2>1. pc[p] = "parse" /\ pc'[p] = "ticked" /\ after'[p] = after[p] /\ ~running'[p] /\ results'[p] \subseteq results[p] \cup {Head(urls[p])}
        /\ urls'[p] = urls[p] /\ lastUrl'[p] = lastUrl[p] /\ warped'[p] = warped[p] /\ last'[p] = last[p]
    BY <1>15 DEF TypeOK, ParseCancelled, Goto
  <2>2. urls[p] # <<>> /\ Head(urls[p]) = urls[p][1] /\ 1 \in DOMAIN urls[p]
    BY <2>1, UrlsFacts DEF Control
  <2>3. ~warped[p] => last[p] < Head(urls[p])
    BY <2>1, <2>2 DEF Order, Ahead
  <2>4. Sorted(p)' /\ (Ahead(p, last[p]) => Ahead(p, last[p])')
    BY <2>1 DEF Order, Sorted, Ahead
  <2> QED
    BY <2>1, <2>3, <2>4 DEF Order, Pausing, Saving, Control
<1>16. CASE Pop(p)
  <2>1. pc[p] = "pop" /\ pc'[p] = after[p] /\ after[p] \in {"check", "ticked"}
        /\ after'[p] = "ticked" /\ urls'[p] = Tail(urls[p]) /\ urls[p] # <<>>
        /\ lastUrl'[p] = Head(urls[p]) /\ last'[p] = last[p] /\ warped'[p] = warped[p]
        /\ results'[p] = results[p]
    BY <1>16 DEF TypeOK, Control, Pop, Goto, GotoAfter
  <2>2. DOMAIN urls[p] = 1 .. Len(urls[p]) /\ Len(urls[p]) \in Nat
    BY UrlsFacts
  <2>3. \A i \in DOMAIN urls'[p] : i + 1 \in DOMAIN urls[p] /\ urls'[p][i] = urls[p][i + 1]
    BY <2>1, <2>2, UrlsFacts
  <2>4. DOMAIN urls'[p] \subseteq Nat \ {0} /\ Head(urls[p]) = urls[p][1] /\ 1 \in DOMAIN urls[p]
    BY <2>1, <2>2, UrlsFacts
  <2>5. Sorted(p)'
    BY <2>3, <2>4 DEF Order, Sorted
  <2>6. Ahead(p, lastUrl[p])'
    BY <2>1, <2>3, <2>4 DEF Order, Sorted, Ahead
  <2>7. Ahead(p, last[p])'
    <3>1. Len(urls[p]) = 1 => DOMAIN urls'[p] = {}
      BY <2>1, <2>2, UrlsFacts
    <3> QED
      BY <2>1, <2>3, <3>1 DEF Order, Ahead
  <2> QED
    BY <2>1, <2>5, <2>6, <2>7 DEF Order, Pausing, Saving
<1>17. CASE SaveNothing(p)
  <2>1. pc[p] = "save" /\ urls'[p] = urls[p] /\ lastUrl'[p] = lastUrl[p] /\ warped'[p] = warped[p]
        /\ running'[p] = running[p] /\ results'[p] = results[p] /\ results[p] = {}
    BY <1>17 DEF SaveNothing, Return, Goto, GotoAfter, QueuedHasResults
  <2>2. \/ after[p] = "pause" /\ pc'[p] = "loop" /\ after'[p] = "ticked"
        \/ after[p] \in {"check", "ticked"} /\ pc'[p] = "pop" /\ after'[p] = after[p]
        \/ after[p] \in {"warp", "reset", "clear"} /\ pc'[p] = "unlockAll" /\ after'[p] = after[p]
    BY <1>17 DEF TypeOK, Returns, SaveNothing, Return, Goto, GotoAfter
  <2>3. last'[p] \in {last[p], lastUrl[p]}
    BY <1>17 DEF TypeOK, SaveNothing
  <2>4. pc'[p] = "pop" => Len(urls'[p]) = 1
    BY <2>1, <2>2 DEF Control, Saving
  <2>5. after[p] = "pause" => Ahead(p, lastUrl[p])' /\ (~warped'[p] => Ahead(p, last[p])')
    BY <2>1, <2>3 DEF Order, Ahead, Pausing, Saving
  <2>6. warped'[p] => \/ pc'[p] = "loop"
                      \/ pc'[p] = "unlockAll" /\ after'[p] \in {"reset", "clear"}
    BY <2>1, <2>2 DEF Order, Saving
  <2>7. Sorted(p)'
    BY <2>1 DEF Order, Sorted
  <2> QED
    BY <2>1, <2>2, <2>4, <2>5, <2>6, <2>7 DEF Order, Pausing, Saving
<1>18. CASE Save(p)
  BY <1>18 DEF Save, Goto, TypeOK, Control, Order, Sorted, Ahead, Pausing, Saving
<1>19. CASE SaveFails(p)
  BY <1>19 DEF SaveFails
<1>20. CASE SetLast(p)
  <2>1. pc[p] = "setLast" /\ pc'[p] = "finishing" /\ after'[p] = after[p]
        /\ urls'[p] = urls[p] /\ lastUrl'[p] = lastUrl[p] /\ warped'[p] = warped[p]
        /\ results'[p] = results[p] /\ results[p] = {} /\ last'[p] \in {last[p], lastUrl[p]}
    BY <1>20 DEF TypeOK, SetLast, Goto, QueuedHasResults
  <2>2. Sorted(p)'
    BY <2>1 DEF Order, Sorted
  <2>3. Pausing(p)' => Ahead(p, lastUrl[p])' /\ (~warped'[p] => Ahead(p, last[p])')
    BY <2>1 DEF Order, Ahead, Pausing, Saving
  <2> QED
    BY <2>1, <2>2, <2>3 DEF Order, Pausing, Saving
<1>21. CASE FinishUrl(p)
  BY <1>21 DEF FinishUrl, Goto, TypeOK, Control, Order, Sorted, Ahead, Pausing, Saving
<1>22. CASE FinishFails(p)
  BY <1>22 DEF FinishFails
<1>23. CASE FinishEnd(p)
  <2>1. pc[p] = "finishing" /\ urls'[p] = urls[p] /\ lastUrl'[p] = lastUrl[p] /\ warped'[p] = warped[p]
        /\ running'[p] = running[p] /\ results'[p] = results[p] /\ results[p] = {}
    BY <1>23 DEF FinishEnd, Return, Goto, GotoAfter, QueuedHasResults
  <2>2. \/ after[p] = "pause" /\ pc'[p] = "loop" /\ after'[p] = "ticked"
        \/ after[p] \in {"check", "ticked"} /\ pc'[p] = "pop" /\ after'[p] = after[p]
        \/ after[p] \in {"warp", "reset", "clear"} /\ pc'[p] = "unlockAll" /\ after'[p] = after[p]
    BY <1>23 DEF TypeOK, Returns, FinishEnd, Return, Goto, GotoAfter
  <2>3. last'[p] = last[p]
    BY <1>23 DEF TypeOK, FinishEnd
  <2>4. pc'[p] = "pop" => Len(urls'[p]) = 1
    BY <2>1, <2>2 DEF Control, Saving
  <2>5. after[p] = "pause" => Ahead(p, lastUrl[p])' /\ (~warped'[p] => Ahead(p, last[p])')
    BY <2>1, <2>3 DEF Order, Ahead, Pausing, Saving
  <2>6. warped'[p] => \/ pc'[p] = "loop"
                      \/ pc'[p] = "unlockAll" /\ after'[p] \in {"reset", "clear"}
    BY <2>1, <2>2 DEF Order, Saving
  <2>7. Sorted(p)'
    BY <2>1 DEF Order, Sorted
  <2> QED
    BY <2>1, <2>2, <2>4, <2>5, <2>6, <2>7 DEF Order, Pausing, Saving
<1>24. CASE Pause(p)
  BY <1>24 DEF Pause, Goto, GotoAfter, TypeOK, Control, Order, Sorted, Ahead, Pausing, Saving
<1>25. CASE TickWarped(p)
  BY <1>25 DEF TickWarped, Goto, GotoAfter, TypeOK, Control, Order, Sorted, Ahead, Pausing, Saving
<1>26. CASE Reset(p)
  BY <1>26 DEF Reset, Goto, GotoAfter, TypeOK, Control, Order, Sorted, Ahead, Pausing, Saving
<1>27. CASE Clear(p)
  BY <1>27 DEF Clear, Goto, GotoAfter, TypeOK, Control, Order, Sorted, Ahead, Pausing, Saving
<1>28. CASE UnlockAll(p)
  <2>1. pc[p] = "unlockAll" /\ after'[p] = "ticked" /\ urls'[p] = <<>> /\ last'[p] = last[p]
        /\ warped'[p] = warped[p] /\ results'[p] = results[p]
    BY <1>28 DEF TypeOK, UnlockAll, Goto, GotoAfter
  <2>2. pc'[p] = CASE after[p] = "warp" -> "fetch" [] after[p] = "reset" -> "tick"
                   [] after[p] = "clear" -> "exited"
    BY <1>28 DEF TypeOK, UnlockAll, Goto, GotoAfter
  <2>3. after[p] \in {"warp", "reset", "clear"} /\ results[p] = {}
    BY <2>1 DEF Control, QueuedHasResults
  <2>4. Sorted(p)' /\ Ahead(p, last[p])' /\ Ahead(p, lastUrl[p])'
    BY <2>1 DEF Sorted, Ahead
  <2> QED
    BY <2>1, <2>2, <2>3, <2>4 DEF Order, Pausing, Saving
<1>29. CASE Stop(p)
  BY <1>29 DEF Stop, TypeOK, Control, Order, Sorted, Ahead, Pausing, Saving
<1>30. CASE NewThread(p)
  <2>1. pc'[p] = "loop" /\ urls'[p] = <<>> /\ results'[p] = {} /\ warped'[p] = FALSE
    BY <1>30 DEF NewThread, Begin
  <2> QED
    BY <2>1 DEF Order, Sorted, Ahead, Pausing, Saving
<1>31. ASSUME NEW id \in 0 .. instance.listed, Warp(p, id) PROVE Order(p)'
  BY <1>31 DEF Warp, Goto, TypeOK, Control, Order, Sorted, Ahead, Pausing, Saving
<1> QED
  BY <1>1, <1>2, <1>3, <1>4, <1>5, <1>6, <1>7, <1>8, <1>9, <1>10, <1>11, <1>12, <1>13, <1>14, <1>15, <1>16, <1>17, <1>18, <1>19, <1>20, <1>21, <1>22, <1>23, <1>24, <1>25, <1>26, <1>27, <1>28, <1>29, <1>30, <1>31
  DEF ParserStep, Main, Tick, Fetch, Check, Parse, SaveResults

LEMMA InstanceKept ==
  ASSUME NEW p \in Parsers, ParserStep(p)
  PROVE  instance' = instance /\ now' = now
BY DEF ParserStep, Main, Tick, Fetch, Check, Parse, SaveResults, world, Loop, TickFetch,
     TickCached, TickEnd, FetchTime, Select, Insert, CheckSkip, CheckEnd, RenewTime, Renew,
     RenewSkip, ParseSuccess, ParseFailure, ParseCancelled, Pop, SaveNothing, Save, SaveFails,
     SetLast, FinishUrl, FinishFails, FinishEnd, Pause, TickWarped, Reset, Clear, UnlockAll,
     Stop, NewThread, Warp

LEMMA OrderInvStep ==
  ASSUME TypeInv, ResultsInv, OrderInv, [Next]_vars
  PROVE  OrderInv'
<1> TypeOK
  BY DEF TypeInv
<1> SUFFICES ASSUME ~instance'.dbFails, NEW q \in Parsers PROVE Order(q)'
  BY DEF OrderInv
<1>1. CASE \E p \in instance.parsers : ParserStep(p)
  <2>1. PICK p \in Parsers : ParserStep(p)
    BY <1>1, InstanceFacts
  <2>2. ~instance.dbFails
    BY <2>1, InstanceKept
  <2>3. CASE q = p
    BY <2>1, <2>2, <2>3, OrderStep DEF OrderInv, ResultsInv
  <2>4. CASE q # p
    BY <2>1, <2>2, <2>4, OthersStay DEF OrderInv, Order, Sorted, Ahead, Pausing, Saving, Same
  <2> QED
    BY <2>3, <2>4
<1>2. CASE Crash
  <2>1. pc'[q] = "loop" /\ urls'[q] = <<>> /\ results'[q] = {} /\ warped'[q] = FALSE
    BY <1>2 DEF Crash, Begin
  <2> QED
    BY <2>1 DEF Order, Sorted, Ahead, Pausing, Saving
<1>3. CASE Time \/ UNCHANGED vars
  BY <1>3 DEF Time, vars, world, cache, memory, OrderInv, Order, Sorted, Ahead, Pausing, Saving
<1> QED
  BY <1>1, <1>2, <1>3 DEF Next

\* A parser whose statements do not fail saves its results before the last ID
\* of its thread reaches their URLs: the URLs in a cache are sorted, and the last
\* ID that is saved is the one that has left the cache, whether the cache has
\* been used up or the parser pauses, resets or follows a jump.
THEOREM ResultsAreAhead == Spec => []UnsavedResultsAreAhead
<1>1. Init => ResultsInv /\ OrderInv
  BY DEF Init, ResultsInv, FinishedHasResults, QueuedHasResults, OrderInv, Order, Sorted, Ahead, Pausing, Saving
<1>2. OrderInv /\ TypeInv => UnsavedResultsAreAhead
  BY DEF OrderInv, Order, UnsavedResultsAreAhead
<1>3. Spec => []ResultsInv
  BY <1>1, TypeCorrect, ResultsStep, PTL DEF Spec
<1>4. Spec => []OrderInv
  BY <1>1, <1>3, TypeCorrect, OrderInvStep, PTL DEF Spec
<1> QED
  BY <1>2, <1>4, TypeCorrect, PTL

-----------------------------------------------------------------------------
(* Locks of others.                                                         *)

\* p changes only locks that are over or its own, or the intrusion is recorded.
TakesOwn(p) ==
  /\ intruded \subseteq intruded'
  /\ \A u \in Urls : \/ lock'[u] = lock[u] /\ owner'[u] = owner[u]
                     \/ u \in intruded' \/ owner[u] = p \/ lock[u] <= now

LEMMA TakesOwnStep ==
  ASSUME TypeInv, ~instance.dbFails, NEW p \in Parsers, ParserStep(p), Locks(p)
  PROVE  TakesOwn(p)
<1> USE DEF world, table, cache, memory
<1> TypeOK /\ Control(p)
  BY DEF TypeInv
<1> now \in Nat /\ \A v \in Urls : lock[v] \in Nat
  BY TimeFacts DEF TypeOK
<1>1. CASE Loop(p)
  BY <1>1 DEF Loop, Goto, TakesOwn
<1>2. CASE TickFetch(p)
  BY <1>2 DEF TickFetch, Goto, TakesOwn
<1>3. CASE TickCached(p)
  BY <1>3 DEF TickCached, Goto, TakesOwn
<1>4. CASE TickEnd(p)
  BY <1>4 DEF TickEnd, Goto, TakesOwn
<1>5. CASE FetchTime(p)
  BY <1>5 DEF FetchTime, Goto, TakesOwn
<1>6. CASE Select(p)
  BY <1>6 DEF Select, Goto, TakesOwn
<1>7. CASE Insert(p)
  <2> DEFINE u == urls[p][locked[p] + 1]
  <2>1. /\ lock' = [lock EXCEPT ![u] = newTime[p]] /\ owner' = [owner EXCEPT ![u] = p]
        /\ intruded' = intruded \cup {v \in {u} : lock[v] >= now /\ owner[v] # p}
    BY <1>7 DEF Insert, Intrude
  <2> HIDE DEF u
  <2>2. \A v \in Urls \ {u} : lock'[v] = lock[v] /\ owner'[v] = owner[v]
    BY <2>1 DEF TypeOK
  <2>3. u \in Urls => u \in intruded' \/ owner[u] = p \/ lock[u] <= now
    BY <2>1
  <2> QED
    BY <2>1, <2>2, <2>3 DEF TakesOwn
<1>8. CASE CheckSkip(p)
  <2>1. /\ urls[p] # <<>> /\ owner' = owner /\ intruded' = intruded
        /\ Unlock({Head(urls[p])}, cacheLockTime[p])
    BY <1>8 DEF CheckSkip, UrlFinished, Goto, GotoAfter, Control
  <2>2. Head(urls[p]) = urls[p][1] /\ 1 \in DOMAIN urls[p]
    BY <2>1, UrlsFacts
  <2>3. Live(p, Head(urls[p]), cacheLockTime[p])
    BY <1>8, <2>2 DEF CheckSkip, UrlFinished, Goto, GotoAfter, Locks, CacheIsLocked, Active, Kept, HeadIsDone, Saving
  <2>4. cacheLockTime[p] \in Nat
    BY TimeFacts DEF TypeOK
  <2>5. \A v \in Urls : lock'[v] = lock[v] \/ (v = Head(urls[p]) /\ Removable(v, cacheLockTime[p]))
    BY <2>1 DEF Unlock
  <2> QED
    BY <2>1, <2>3, <2>4, <2>5 DEF Removable, TakesOwn, Live
<1>9. CASE CheckEnd(p)
  BY <1>9 DEF CheckEnd, Goto, TakesOwn
<1>10. CASE RenewTime(p)
  BY <1>10 DEF RenewTime, Goto, TakesOwn
<1>11. CASE Renew(p)
  <2> DEFINE u == Head(urls[p])
             longer == IF newTime[p] > cacheLockTime[p] THEN newTime[p] ELSE cacheLockTime[p] + 1
  <2>1. /\ urls[p] # <<>> /\ intruded' = intruded /\ owner' = [owner EXCEPT ![u] = p]
        /\ Renewable(u, cacheLockTime[p]) /\ lock' = [lock EXCEPT ![u] = longer]
    BY <1>11 DEF Renew, Goto, Control
  <2>2. u = urls[p][1] /\ 1 \in DOMAIN urls[p]
    BY <2>1, UrlsFacts
  <2>3. Live(p, u, cacheLockTime[p])
    BY <1>11, <2>2 DEF Renew, Goto, Locks, CacheIsLocked, Active, Kept, HeadIsDone, Saving
  <2>4. cacheLockTime[p] \in Nat
    BY TimeFacts DEF TypeOK
  <2> HIDE DEF u, longer
  <2>5. \A v \in Urls \ {u} : lock'[v] = lock[v] /\ owner'[v] = owner[v]
    BY <2>1 DEF TypeOK
  <2> QED
    BY <2>1, <2>3, <2>4, <2>5 DEF Renewable, TakesOwn, Live
<1>12. CASE RenewSkip(p)
  BY <1>12 DEF RenewSkip, UrlFinished, Goto, GotoAfter, TakesOwn
<1>13. CASE ParseSuccess(p)
  BY <1>13 DEF ParseSuccess, UrlFinished, Goto, GotoAfter, TakesOwn
<1>14. CASE ParseFailure(p)
  <2>1. /\ urls[p] # <<>> /\ owner' = owner /\ intruded' = intruded
        /\ Unlock({Head(urls[p])}, lockTime[p])
    BY <1>14 DEF ParseFailure, UrlFinished, Goto, GotoAfter, Control
  <2>2. Head(urls[p]) = urls[p][1] /\ 1 \in DOMAIN urls[p]
    BY <2>1, UrlsFacts
  <2>3. Live(p, Head(urls[p]), lockTime[p])
    BY <1>14, <2>2 DEF ParseFailure, UrlFinished, Goto, GotoAfter, Locks, ParsedIsLocked
  <2>4. lockTime[p] \in Nat
    BY TimeFacts DEF TypeOK
  <2>5. \A v \in Urls : lock'[v] = lock[v] \/ (v = Head(urls[p]) /\ Removable(v, lockTime[p]))
    BY <2>1 DEF Unlock
  <2> QED
    BY <2>1, <2>3, <2>4, <2>5 DEF Removable, TakesOwn, Live
<1>15. CASE ParseCancelled(p)
  <2>1. /\ urls[p] # <<>> /\ owner' = owner /\ intruded' = intruded
        /\ Unlock({Head(urls[p])}, lockTime[p])
    BY <1>15 DEF ParseCancelled, Goto, Control
  <2>2. Head(urls[p]) = urls[p][1] /\ 1 \in DOMAIN urls[p]
    BY <2>1, UrlsFacts
  <2>3. Live(p, Head(urls[p]), lockTime[p])
    BY <1>15, <2>2 DEF ParseCancelled, Goto, Locks, ParsedIsLocked
  <2>4. lockTime[p] \in Nat
    BY TimeFacts DEF TypeOK
  <2>5. \A v \in Urls : lock'[v] = lock[v] \/ (v = Head(urls[p]) /\ Removable(v, lockTime[p]))
    BY <2>1 DEF Unlock
  <2> QED
    BY <2>1, <2>3, <2>4, <2>5 DEF Removable, TakesOwn, Live
<1>16. CASE Pop(p)
  BY <1>16 DEF Pop, Goto, GotoAfter, TakesOwn
<1>17. CASE SaveNothing(p)
  BY <1>17 DEF SaveNothing, Return, Goto, GotoAfter, TakesOwn
<1>18. CASE Save(p)
  BY <1>18 DEF Save, Goto, TakesOwn
<1>19. CASE SaveFails(p)
  BY <1>19 DEF SaveFails, Thrown, AfterThrow, Goto, GotoAfter, TakesOwn
<1>20. CASE SetLast(p)
  BY <1>20 DEF SetLast, Goto, TakesOwn
<1>21. CASE FinishUrl(p)
  <2> DEFINE f == Head(finished[p])
  <2>1. /\ finished[p] # <<>> /\ intruded' = intruded /\ owner' = owner
        /\ \/ lock' = lock
           \/ Renewable(f.url, f.time) /\ lock' = [lock EXCEPT ![f.url] = 0]
    BY <1>21 DEF FinishUrl
  <2>2. Live(p, f.url, f.time) /\ f.url \in Urls /\ f.time \in Nat
    BY <2>1, FinishedFacts, TimeFacts DEF Locks, FinishedIsLocked
  <2> HIDE DEF f
  <2>3. \A v \in Urls : lock'[v] = lock[v] \/ (v = f.url /\ Renewable(f.url, f.time))
    BY <2>1 DEF TypeOK
  <2> QED
    BY <2>1, <2>2, <2>3 DEF Renewable, TakesOwn, Live
<1>22. CASE FinishFails(p)
  BY <1>22 DEF FinishFails, Thrown, AfterThrow, Goto, GotoAfter, TakesOwn
<1>23. CASE FinishEnd(p)
  BY <1>23 DEF FinishEnd, Return, Goto, GotoAfter, TakesOwn
<1>24. CASE Pause(p)
  BY <1>24 DEF Pause, Goto, GotoAfter, TakesOwn
<1>25. CASE TickWarped(p)
  BY <1>25 DEF TickWarped, Goto, GotoAfter, TakesOwn
<1>26. CASE Reset(p)
  BY <1>26 DEF Reset, Goto, GotoAfter, TakesOwn
<1>27. CASE Clear(p)
  BY <1>27 DEF Clear, Goto, GotoAfter, TakesOwn
<1>28. CASE UnlockAll(p)
  <2> DEFINE us == {urls[p][i] : i \in DOMAIN urls[p]}
  <2>1. /\ owner' = owner /\ Unlock(us, cacheLockTime[p])
        /\ Intrude(p, {u \in us : Removable(u, cacheLockTime[p])})
    BY <1>28 DEF UnlockAll
  <2> HIDE DEF us
  <2> QED
    BY <2>1 DEF Unlock, Intrude, TakesOwn
<1>29. CASE Stop(p)
  BY <1>29 DEF Stop, TakesOwn
<1>30. CASE NewThread(p)
  BY <1>30 DEF NewThread, Begin, TakesOwn
<1>31. ASSUME NEW id \in 0 .. instance.listed, Warp(p, id) PROVE TakesOwn(p)
  BY <1>31 DEF Warp, Goto, TakesOwn
<1> QED
  BY <1>1, <1>2, <1>3, <1>4, <1>5, <1>6, <1>7, <1>8, <1>9, <1>10, <1>11, <1>12, <1>13, <1>14, <1>15, <1>16, <1>17, <1>18, <1>19, <1>20, <1>21, <1>22, <1>23, <1>24, <1>25, <1>26, <1>27, <1>28, <1>29, <1>30, <1>31
  DEF ParserStep, Main, Tick, Fetch, Check, Parse, SaveResults

LEMMA OthersLocks ==
  ASSUME TypeOK, TypeOK', NEW p \in Parsers, NEW q \in Parsers \ {p}, Same(q), now' = now,
         TakesOwn(p), Control(q), Locks(q)
  PROVE  Locks(q)'
<1>1. Times \subseteq Nat /\ now \in Nat /\ \A u \in Urls : lock[u] \in Nat
  BY TimeFacts DEF TypeOK
<1>2. ASSUME NEW u \in Urls, NEW t \in Nat, u \in intruded \/ t <= now \/ (owner[u] = q /\ lock[u] >= t)
      PROVE  u \in intruded' \/ t <= now' \/ (owner'[u] = q /\ lock'[u] >= t)
  BY <1>1, <1>2 DEF TakesOwn
<1>3. intruded \subseteq intruded'
  BY DEF TakesOwn
<1>4. /\ newTime[q] \in Nat /\ cacheLockTime[q] \in Nat /\ lockTime[q] \in Nat
      /\ \A i \in DOMAIN urls[q] : urls[q][i] \in Urls
      /\ \A i \in DOMAIN finished[q] : finished[q][i].url \in Urls /\ finished[q][i].time \in Nat
      /\ 1 .. locked[q] \subseteq DOMAIN urls[q] \/ pc[q] # "insert"
      /\ Head(urls[q]) \in Urls \/ pc[q] # "parse"
  <2>1. 1 .. locked[q] \subseteq DOMAIN urls[q] \/ pc[q] # "insert"
    BY UrlsFacts DEF TypeOK, Control
  <2>2. Head(urls[q]) \in Urls \/ pc[q] # "parse"
    BY UrlsFacts DEF Control
  <2> QED
    BY <1>1, <2>1, <2>2, UrlsFacts, FinishedFacts DEF TypeOK
<1>5. CacheIsLocked(q)'
  BY <1>2, <1>4 DEF Same, Locks, CacheIsLocked, Active, Kept, HeadIsDone, Saving, Live
<1>6. ParsedIsLocked(q)'
  BY <1>2, <1>4 DEF Same, Locks, ParsedIsLocked, Live
<1>7. FinishedIsLocked(q)'
  BY <1>2, <1>4 DEF Same, Locks, FinishedIsLocked, Live
<1>8. OldLocksAreOver(q)'
  BY <1>3 DEF Same, Locks, OldLocksAreOver, Kept, HeadIsDone, Saving, Over
<1> QED
  BY <1>5, <1>6, <1>7, <1>8 DEF Locks

-----------------------------------------------------------------------------
(* Locks of the parser itself.                                              *)

LEMMA LocksStay ==
  ASSUME NEW p \in Parsers, Locks(p), lock' = lock, owner' = owner, intruded' = intruded,
         now' = now, finished'[p] = finished[p], urls'[p] = urls[p],
         cacheLockTime'[p] = cacheLockTime[p], pc[p] # "insert", pc'[p] \notin {"insert", "parse"},
         Active(p)' => Active(p), HeadIsDone(p) => HeadIsDone(p)'
  PROVE  Locks(p)'
<1>1. Kept(p)' \subseteq Kept(p)
  BY DEF Kept
<1> QED
  BY <1>1 DEF Locks, CacheIsLocked, ParsedIsLocked, FinishedIsLocked, OldLocksAreOver, Live, Over

LEMMA FirstUrl ==
  ASSUME TypeOK, NEW p \in Parsers, urls[p] # <<>>, Sorted(p)
  PROVE  /\ Head(urls[p]) = urls[p][1] /\ Head(urls[p]) \in Urls /\ 1 \in DOMAIN urls[p]
         /\ \A i \in DOMAIN urls[p] \ {1} : urls[p][i] \in Urls \ {Head(urls[p])}
<1>1. /\ Head(urls[p]) = urls[p][1] /\ Head(urls[p]) \in Urls /\ 1 \in DOMAIN urls[p]
      /\ \A i \in DOMAIN urls[p] : i \in Nat \ {0} /\ urls[p][i] \in Urls /\ urls[p][i] \in Nat
  BY UrlsFacts DEF Urls
<1>2. ASSUME NEW i \in DOMAIN urls[p] \ {1} PROVE urls[p][i] # urls[p][1]
  BY <1>1 DEF Sorted
<1> QED
  BY <1>1, <1>2

\* The lock of the first URL is gone, and its time is over wherever it is known.
LEMMA HeadIsUnlocked ==
  ASSUME TypeOK, NEW p \in Parsers, Locks(p), Sorted(p), urls[p] # <<>>, ~HeadIsDone(p),
         owner' = owner, intruded' = intruded, now' = now,
         \A v \in Urls \ {Head(urls[p])} : lock'[v] = lock[v],
         finished'[p] = finished[p], urls'[p] = urls[p], cacheLockTime'[p] = cacheLockTime[p],
         pc[p] # "insert", pc'[p] \notin {"insert", "parse"},
         Active(p)' => Active(p) /\ HeadIsDone(p)'
  PROVE  Locks(p)'
<1>1. Kept(p)' \subseteq Kept(p) /\ Kept(p) = DOMAIN urls[p]
  BY DEF Kept
<1>2. Active(p)' => Kept(p)' = DOMAIN urls[p] \ {1}
  BY DEF Kept
<1>3. CacheIsLocked(p)'
  BY <1>1, <1>2, FirstUrl DEF Locks, CacheIsLocked, Live
<1>4. ASSUME NEW i \in DOMAIN finished[p] PROVE Live(p, finished[p][i].url, finished[p][i].time)'
  <2>1. CASE finished[p][i].url = Head(urls[p])
    BY <1>1, <2>1, FirstUrl DEF Locks, OldLocksAreOver, Live, Over
  <2>2. CASE finished[p][i].url # Head(urls[p])
    BY <2>2, FinishedFacts DEF Locks, FinishedIsLocked, Live
  <2> QED
    BY <2>1, <2>2
<1>5. FinishedIsLocked(p)'
  BY <1>4 DEF FinishedIsLocked, Live
<1>6. ParsedIsLocked(p)' /\ OldLocksAreOver(p)'
  BY <1>1 DEF Locks, ParsedIsLocked, OldLocksAreOver, Over
<1> QED
  BY <1>3, <1>5, <1>6 DEF Locks

LEMMA OwnLocksStep ==
  ASSUME TypeInv, ~instance.dbFails, NEW p \in Parsers, ParserStep(p), Locks(p), Sorted(p)
  PROVE  Locks(p)'
<1> USE DEF world, table, cache, memory
<1> TypeOK /\ Control(p)
  BY DEF TypeInv
<1> now \in Nat /\ \A v \in Urls : lock[v] \in Nat
  BY TimeFacts DEF TypeOK
<1> now' = now
  BY InstanceKept
<1>1. CASE Loop(p)
  BY <1>1, LocksStay DEF Loop, Goto, TypeOK, Control, Active, HeadIsDone, Saving
<1>2. CASE TickFetch(p)
  BY <1>2, LocksStay DEF TickFetch, Goto, TypeOK, Control, Active, HeadIsDone, Saving
<1>3. CASE TickCached(p)
  BY <1>3, LocksStay DEF TickCached, Goto, TypeOK, Control, Active, HeadIsDone, Saving
<1>4. CASE TickEnd(p)
  BY <1>4, LocksStay DEF TickEnd, Goto, TypeOK, Control, Active, HeadIsDone, Saving
<1>5. CASE FetchTime(p)
  BY <1>5, LocksStay DEF FetchTime, Goto, TypeOK, Control, Active, HeadIsDone, Saving
<1>6. CASE Select(p)
  <2>1. PICK next \in NextUrls(p) :
          /\ urls'[p] = next /\ pc[p] = "select" /\ pc'[p] \in {"ticked", "insert"}
          /\ pc'[p] = "ticked" => next = <<>>
    BY <1>6 DEF TypeOK, Select, Goto
  <2>2. /\ lock' = lock /\ owner' = owner /\ intruded' = intruded
        /\ finished'[p] = finished[p] /\ locked'[p] = locked[p]
    BY <1>6 DEF Select
  <2>3. locked[p] = 0 /\ (next = <<>> => DOMAIN next = {})
    BY <2>1, EmptySeq, NextUrlsFacts DEF Control
  <2>4. CacheIsLocked(p)' /\ ParsedIsLocked(p)' /\ FinishedIsLocked(p)'
    BY <2>1, <2>2, <2>3 DEF Locks, CacheIsLocked, ParsedIsLocked, FinishedIsLocked, Kept, Live
  <2>5. ASSUME NEW i \in DOMAIN finished[p], NEW k \in DOMAIN next, finished[p][i].url = next[k]
        PROVE  Over(finished[p][i].url, finished[p][i].time)
    <3>1. lock[finished[p][i].url] < now
      BY <2>5, NextUrlsFacts
    <3> QED
      BY <2>5, <3>1, TimeFacts, FinishedFacts DEF Locks, FinishedIsLocked, Live, Over
  <2>6. OldLocksAreOver(p)'
    BY <2>1, <2>2, <2>5 DEF Locks, OldLocksAreOver, Kept, Over
  <2> QED
    BY <2>4, <2>6 DEF Locks
<1>7. CASE Insert(p)
  <2> DEFINE n == locked[p] + 1
             u == urls[p][n]
  <2>1. /\ pc[p] = "insert" /\ urls'[p] = urls[p] /\ finished'[p] = finished[p]
        /\ lock' = [lock EXCEPT ![u] = newTime[p]] /\ owner' = [owner EXCEPT ![u] = p]
        /\ intruded \subseteq intruded'
    BY <1>7 DEF Insert, Goto, Intrude
  <2>2. n \in DOMAIN urls[p] /\ u \in Urls /\ locked[p] \in Nat /\ ~HeadIsDone(p)
    BY <2>1, UrlsFacts DEF TypeOK, Control, HeadIsDone, Saving
  <2>3. \A v \in Urls \ {u} : lock'[v] = lock[v] /\ owner'[v] = owner[v]
    BY <2>1 DEF TypeOK
  <2>4. lock'[u] = newTime[p] /\ owner'[u] = p
    BY <2>1, <2>2 DEF TypeOK
  <2>5. \A i \in DOMAIN urls[p] \ {n} : urls[p][i] \in Urls \ {u}
    <3>1. \A i \in DOMAIN urls[p] : i \in Nat /\ urls[p][i] \in Urls /\ urls[p][i] \in Nat
      BY UrlsFacts DEF Urls
    <3> QED
      BY <2>2, <3>1 DEF Sorted
  <2> HIDE DEF u, n
  <2>6. \A i \in 1 .. n : \/ urls[p][i] \in intruded' \/ newTime[p] <= now'
                          \/ owner'[urls[p][i]] = p /\ lock'[urls[p][i]] >= newTime[p]
    <3>1. CacheIsLocked(p) /\ 1 .. n = (1 .. locked[p]) \cup {n} /\ 1 .. n \subseteq DOMAIN urls[p]
          /\ n \notin 1 .. locked[p]
      BY <2>2, UrlsFacts DEF Locks, n
    <3>2. ASSUME NEW i \in 1 .. locked[p]
          PROVE  \/ urls[p][i] \in intruded' \/ newTime[p] <= now'
                 \/ owner'[urls[p][i]] = p /\ lock'[urls[p][i]] >= newTime[p]
      BY <2>1, <2>3, <2>5, <3>1 DEF CacheIsLocked, Live
    <3>3. urls[p][n] = u /\ newTime[p] \in Nat
      BY TimeFacts DEF u, TypeOK
    <3> QED
      <4>1. ASSUME NEW i \in 1 .. n
            PROVE  \/ urls[p][i] \in intruded' \/ newTime[p] <= now'
                   \/ owner'[urls[p][i]] = p /\ lock'[urls[p][i]] >= newTime[p]
        <5>1. CASE i = n
          <6>1. lock'[u] >= newTime[p]
            BY <2>4, <3>3
          <6> QED
            BY <2>4, <3>3, <5>1, <6>1
        <5>2. CASE i \in 1 .. locked[p]
          BY <3>2, <5>2
        <5> QED
          BY <3>1, <5>1, <5>2
      <4> QED
        BY <4>1
  <2>7. CacheIsLocked(p)'
    <3>1. CASE n = Len(urls[p])
      <4>1. pc'[p] = "check" /\ cacheLockTime'[p] = newTime[p]
        BY <1>7, <3>1 DEF TypeOK, Insert, Goto, n
      <4>2. DOMAIN urls[p] = 1 .. n
        BY <3>1, UrlsFacts
      <4> QED
        BY <2>1, <2>6, <4>1, <4>2 DEF CacheIsLocked, Kept, Live
    <3>2. CASE n # Len(urls[p])
      <4>1. pc'[p] = "insert" /\ newTime'[p] = newTime[p] /\ locked'[p] = n
        BY <1>7, <3>2 DEF TypeOK, Insert, Goto, n
      <4> QED
        BY <2>1, <2>6, <4>1 DEF CacheIsLocked, Live
    <3> QED
      BY <3>1, <3>2
  <2>8. FinishedIsLocked(p)'
    <3>1. ASSUME NEW i \in DOMAIN finished[p] PROVE Live(p, finished[p][i].url, finished[p][i].time)'
      <4>1. CASE finished[p][i].url = u
        BY <2>1, <2>2, <4>1 DEF Locks, OldLocksAreOver, Kept, Live, Over, u
      <4>2. CASE finished[p][i].url # u
        BY <2>1, <2>3, <4>2, FinishedFacts DEF Locks, FinishedIsLocked, Live
      <4> QED
        BY <4>1, <4>2
    <3> QED
      BY <2>1, <3>1 DEF FinishedIsLocked, Live
  <2>9. pc'[p] \in {"insert", "check"}
    BY <1>7 DEF TypeOK, Insert, Goto
  <2>10. ParsedIsLocked(p)' /\ OldLocksAreOver(p)'
    BY <2>1, <2>2, <2>9 DEF Locks, ParsedIsLocked, OldLocksAreOver, Kept, Over
  <2> QED
    BY <2>7, <2>8, <2>10 DEF Locks
<1>8. CASE CheckSkip(p)
  <2>1. /\ pc[p] \in {"check", "parse"} /\ urls[p] # <<>> /\ Unlock({Head(urls[p])}, cacheLockTime[p])
        /\ owner' = owner /\ intruded' = intruded /\ finished'[p] = finished[p]
        /\ urls'[p] = urls[p] /\ cacheLockTime'[p] = cacheLockTime[p]
    BY <1>8 DEF CheckSkip, UrlFinished, Goto, GotoAfter, Control
  <2>2. pc'[p] = (IF Len(urls[p]) = 1 THEN "save" ELSE "pop") /\ after'[p] \in {"check", "ticked"}
    BY <1>8 DEF TypeOK, CheckSkip, UrlFinished, Goto, GotoAfter
  <2>3. \A v \in Urls \ {Head(urls[p])} : lock'[v] = lock[v]
    BY <2>1 DEF Unlock
  <2>4. ~HeadIsDone(p) /\ pc'[p] \notin {"insert", "parse"} /\ (Active(p)' => Active(p) /\ HeadIsDone(p)')
    BY <1>8, <2>1, <2>2 DEF HeadIsDone, Saving, Active, CheckSkip
  <2> QED
    BY <2>1, <2>3, <2>4, HeadIsUnlocked
<1>9. CASE CheckEnd(p)
  BY <1>9, LocksStay DEF CheckEnd, Goto, TypeOK, Control, Active, HeadIsDone, Saving
<1>10. CASE RenewTime(p)
  BY <1>10, LocksStay DEF RenewTime, Goto, TypeOK, Control, Active, HeadIsDone, Saving
<1>11. CASE Renew(p)
  <2> DEFINE u == Head(urls[p])
             longer == IF newTime[p] > cacheLockTime[p] THEN newTime[p] ELSE cacheLockTime[p] + 1
  <2>1. /\ pc[p] = "renew" /\ pc'[p] = "parse" /\ urls[p] # <<>> /\ urls'[p] = urls[p]
        /\ intruded' = intruded /\ owner' = [owner EXCEPT ![u] = p]
        /\ lock' = [lock EXCEPT ![u] = longer] /\ finished'[p] = finished[p]
        /\ lockTime'[p] = newTime[p] /\ cacheLockTime'[p] = cacheLockTime[p]
    BY <1>11 DEF TypeOK, Renew, Goto, Control
  <2>2. cacheLockTime[p] \in Nat /\ newTime[p] \in Nat /\ longer \in Nat /\ longer >= cacheLockTime[p]
        /\ longer >= newTime[p]
    <3>1. cacheLockTime[p] \in Nat /\ newTime[p] \in Nat
      BY TimeFacts DEF TypeOK
    <3> QED
      BY <3>1
  <2>3. u \in Urls /\ u = urls[p][1] /\ 1 \in DOMAIN urls[p]
        /\ \A i \in DOMAIN urls[p] \ {1} : urls[p][i] \in Urls \ {u}
    BY <2>1, FirstUrl
  <2> HIDE DEF longer
  <2>4. lock'[u] = longer /\ owner'[u] = p
        /\ \A v \in Urls \ {u} : lock'[v] = lock[v] /\ owner'[v] = owner[v]
    BY <2>1, <2>3 DEF TypeOK
  <2> HIDE DEF u
  <2>5. Kept(p) = DOMAIN urls[p] /\ Kept(p)' = DOMAIN urls[p] /\ Active(p)
    BY <2>1 DEF Kept, HeadIsDone, Saving, Active
  <2>6. CacheIsLocked(p)'
    <3>1. ASSUME NEW i \in DOMAIN urls[p] PROVE Live(p, urls[p][i], cacheLockTime[p])'
      <4>1. CASE i = 1
        BY <2>1, <2>2, <2>3, <2>4, <4>1 DEF Live
      <4>2. CASE i # 1
        BY <2>1, <2>3, <2>4, <2>5, <4>2 DEF Locks, CacheIsLocked, Live
      <4> QED
        BY <4>1, <4>2
    <3> QED
      BY <2>1, <2>5, <3>1 DEF CacheIsLocked, Live
  <2>7. ParsedIsLocked(p)'
    <3>1. u = Head(urls'[p])
      BY <2>1 DEF u
    <3> QED
      BY <2>1, <2>2, <2>4, <3>1 DEF ParsedIsLocked, Live
  <2>8. FinishedIsLocked(p)'
    <3>1. ASSUME NEW i \in DOMAIN finished[p] PROVE Live(p, finished[p][i].url, finished[p][i].time)'
      <4>1. CASE finished[p][i].url = u
        BY <2>1, <2>3, <2>5, <4>1 DEF Locks, OldLocksAreOver, Live, Over
      <4>2. CASE finished[p][i].url # u
        BY <2>1, <2>4, <4>2, FinishedFacts DEF Locks, FinishedIsLocked, Live
      <4> QED
        BY <4>1, <4>2
    <3> QED
      BY <2>1, <3>1 DEF FinishedIsLocked, Live
  <2>9. OldLocksAreOver(p)'
    BY <2>1, <2>5 DEF Locks, OldLocksAreOver, Over
  <2> QED
    BY <2>6, <2>7, <2>8, <2>9 DEF Locks
<1>12. CASE RenewSkip(p)
  BY <1>12, LocksStay DEF RenewSkip, UrlFinished, Goto, GotoAfter, TypeOK, Control, Active, HeadIsDone, Saving
<1>13. CASE ParseSuccess(p)
  <2> DEFINE f == [url |-> Head(urls[p]), time |-> lockTime[p]]
  <2>1. /\ pc[p] = "parse" /\ urls[p] # <<>> /\ urls'[p] = urls[p] /\ lock' = lock
        /\ owner' = owner /\ intruded' = intruded /\ cacheLockTime'[p] = cacheLockTime[p]
        /\ after'[p] = "ticked" /\ pc'[p] = IF Len(urls[p]) = 1 THEN "save" ELSE "pop"
        /\ finished'[p] = Append(finished[p], f)
    BY <1>13 DEF TypeOK, ParseSuccess, UrlFinished, Goto, GotoAfter, Control
  <2>2. f \in Finished /\ Live(p, f.url, f.time) /\ f.url = Head(urls[p])
    BY <2>1, FirstUrl DEF TypeOK, Finished, Locks, ParsedIsLocked
  <2> HIDE DEF f
  <2>3. /\ Len(finished[p]) \in Nat /\ DOMAIN finished[p] = 1 .. Len(finished[p])
        /\ DOMAIN finished'[p] = 1 .. Len(finished[p]) + 1
        /\ \A i \in 1 .. Len(finished[p]) : finished'[p][i] = finished[p][i]
        /\ finished'[p][Len(finished[p]) + 1] = f
    BY <2>1, <2>2, FinishedFacts, AppendFacts
  <2>4. \A i \in DOMAIN finished'[p] :
          \/ i \in DOMAIN finished[p] /\ finished'[p][i] = finished[p][i]
          \/ i = Len(finished[p]) + 1 /\ finished'[p][i] = f
    BY <2>3
  <2>5. Kept(p) = DOMAIN urls[p] /\ Kept(p)' = DOMAIN urls[p] \ {1} /\ Active(p)
    BY <2>1 DEF Kept, HeadIsDone, Saving, Active
  <2>6. CacheIsLocked(p)'
    BY <2>1, <2>5 DEF Locks, CacheIsLocked, Live
  <2>7. ParsedIsLocked(p)'
    BY <2>1 DEF ParsedIsLocked
  <2>8. FinishedIsLocked(p)'
    BY <2>1, <2>2, <2>4 DEF Locks, FinishedIsLocked, Live
  <2>9. OldLocksAreOver(p)'
    <3>1. \A i \in DOMAIN finished'[p], k \in Kept(p)' :
            finished'[p][i].url = urls'[p][k] => finished'[p][i].url \in intruded' \/ finished'[p][i].time <= now'
      BY <2>1, <2>2, <2>4, <2>5, FirstUrl DEF Locks, OldLocksAreOver, Over
    <3>2. ASSUME NEW i \in DOMAIN finished'[p], NEW j \in DOMAIN finished'[p], i < j,
                 finished'[p][i].url = finished'[p][j].url
          PROVE  finished'[p][i].url \in intruded' \/ finished'[p][i].time <= now'
      <4>1. i \in DOMAIN finished[p] /\ finished'[p][i] = finished[p][i]
        BY <2>3, <3>2
      <4>2. CASE j \in DOMAIN finished[p] /\ finished'[p][j] = finished[p][j]
        BY <2>1, <3>2, <4>1, <4>2 DEF Locks, OldLocksAreOver, Over
      <4>3. CASE finished'[p][j] = f
        BY <2>1, <2>2, <2>5, <3>2, <4>1, <4>3, FirstUrl DEF Locks, OldLocksAreOver, Over
      <4> QED
        BY <2>4, <4>2, <4>3
    <3> QED
      BY <3>1, <3>2 DEF OldLocksAreOver, Over
  <2> QED
    BY <2>6, <2>7, <2>8, <2>9 DEF Locks
<1>14. CASE ParseFailure(p)
  <2>1. /\ pc[p] \in {"check", "parse"} /\ urls[p] # <<>> /\ Unlock({Head(urls[p])}, lockTime[p])
        /\ owner' = owner /\ intruded' = intruded /\ finished'[p] = finished[p]
        /\ urls'[p] = urls[p] /\ cacheLockTime'[p] = cacheLockTime[p]
    BY <1>14 DEF ParseFailure, UrlFinished, Goto, GotoAfter, Control
  <2>2. pc'[p] = (IF Len(urls[p]) = 1 THEN "save" ELSE "pop") /\ after'[p] \in {"check", "ticked"}
    BY <1>14 DEF TypeOK, ParseFailure, UrlFinished, Goto, GotoAfter
  <2>3. \A v \in Urls \ {Head(urls[p])} : lock'[v] = lock[v]
    BY <2>1 DEF Unlock
  <2>4. ~HeadIsDone(p) /\ pc'[p] \notin {"insert", "parse"} /\ (Active(p)' => Active(p) /\ HeadIsDone(p)')
    BY <1>14, <2>1, <2>2 DEF HeadIsDone, Saving, Active, ParseFailure
  <2> QED
    BY <2>1, <2>3, <2>4, HeadIsUnlocked
<1>15. CASE ParseCancelled(p)
  <2>1. /\ pc[p] \in {"check", "parse"} /\ urls[p] # <<>> /\ Unlock({Head(urls[p])}, lockTime[p])
        /\ owner' = owner /\ intruded' = intruded /\ finished'[p] = finished[p]
        /\ urls'[p] = urls[p] /\ cacheLockTime'[p] = cacheLockTime[p]
    BY <1>15 DEF ParseCancelled, Goto, Control
  <2>2. pc'[p] = "ticked" /\ ~running'[p]
    BY <1>15 DEF TypeOK, ParseCancelled, Goto
  <2>3. \A v \in Urls \ {Head(urls[p])} : lock'[v] = lock[v]
    BY <2>1 DEF Unlock
  <2>4. ~HeadIsDone(p) /\ pc'[p] \notin {"insert", "parse"} /\ (Active(p)' => Active(p) /\ HeadIsDone(p)')
    BY <1>15, <2>1, <2>2 DEF HeadIsDone, Saving, Active, ParseCancelled
  <2> QED
    BY <2>1, <2>3, <2>4, HeadIsUnlocked
<1>16. CASE Pop(p)
  <2>1. /\ pc[p] = "pop" /\ after[p] \in {"check", "ticked"} /\ pc'[p] = after[p]
        /\ urls[p] # <<>> /\ urls'[p] = Tail(urls[p]) /\ lock' = lock /\ owner' = owner
        /\ intruded' = intruded /\ finished'[p] = finished[p]
        /\ Len(urls[p]) = 1 \/ cacheLockTime'[p] = cacheLockTime[p]
    BY <1>16 DEF TypeOK, Control, Pop, Goto, GotoAfter
  <2>2. /\ DOMAIN urls[p] = 1 .. Len(urls[p]) /\ Len(urls[p]) \in Nat
        /\ DOMAIN urls'[p] = 1 .. Len(urls[p]) - 1
        /\ \A i \in 1 .. Len(urls[p]) - 1 : urls'[p][i] = urls[p][i + 1]
    BY <2>1, UrlsFacts
  <2>3. Kept(p) = DOMAIN urls[p] \ {1} /\ Kept(p)' = DOMAIN urls'[p] /\ Active(p)
    BY <2>1 DEF Kept, HeadIsDone, Saving, Active
  <2>4. \A k \in Kept(p)' : k + 1 \in Kept(p) /\ urls'[p][k] = urls[p][k + 1]
    BY <2>2, <2>3
  <2>5. Len(urls[p]) = 1 => Kept(p)' = {}
    BY <2>2, <2>3
  <2>6. CacheIsLocked(p)'
    BY <2>1, <2>3, <2>4, <2>5 DEF Locks, CacheIsLocked, Live
  <2>7. ParsedIsLocked(p)' /\ FinishedIsLocked(p)'
    BY <2>1 DEF Locks, ParsedIsLocked, FinishedIsLocked, Live
  <2>8. OldLocksAreOver(p)'
    BY <2>1, <2>4 DEF Locks, OldLocksAreOver, Over
  <2> QED
    BY <2>6, <2>7, <2>8 DEF Locks
<1>17. CASE SaveNothing(p)
  <2>1. /\ pc[p] = "save" /\ running'[p] = running[p] /\ lock' = lock /\ owner' = owner
        /\ intruded' = intruded /\ finished'[p] = finished[p] /\ urls'[p] = urls[p]
        /\ cacheLockTime'[p] = cacheLockTime[p]
    BY <1>17 DEF SaveNothing, Return, Goto, GotoAfter
  <2>2. \/ after[p] = "pause" /\ pc'[p] = "loop" /\ after'[p] = "ticked"
        \/ after[p] \in {"check", "ticked"} /\ pc'[p] = "pop" /\ after'[p] = after[p]
        \/ after[p] \in {"warp", "reset", "clear"} /\ pc'[p] = "unlockAll" /\ after'[p] = after[p]
    BY <1>17 DEF TypeOK, Returns, SaveNothing, Return, Goto, GotoAfter
  <2>3. CASE pc'[p] = "pop"
    <3>1. Kept(p)' = {} /\ Kept(p) = {}
      <4>1. DOMAIN urls[p] = {1} /\ HeadIsDone(p) /\ HeadIsDone(p)'
        BY <2>1, <2>2, <2>3, UrlsFacts DEF Control, HeadIsDone, Saving
      <4> QED
        BY <2>1, <4>1 DEF Kept
    <3> QED
      BY <2>1, <2>3, <3>1 DEF Locks, CacheIsLocked, ParsedIsLocked, FinishedIsLocked, OldLocksAreOver, Live, Over
  <2>4. CASE pc'[p] # "pop"
    BY <2>1, <2>2, <2>4, LocksStay DEF Active, HeadIsDone, Saving
  <2> QED
    BY <2>3, <2>4
<1>18. CASE Save(p)
  BY <1>18, LocksStay DEF Save, Goto, TypeOK, Control, Active, HeadIsDone, Saving
<1>19. CASE SaveFails(p)
  BY <1>19 DEF SaveFails
<1>20. CASE SetLast(p)
  BY <1>20, LocksStay DEF SetLast, Goto, TypeOK, Control, Active, HeadIsDone, Saving
<1>21. CASE FinishUrl(p)
  <2> DEFINE f == Head(finished[p])
  <2>1. /\ pc[p] = "finishing" /\ pc'[p] = pc[p] /\ after' = after /\ urls' = urls
        /\ running' = running /\ cacheLockTime' = cacheLockTime
        /\ finished[p] # <<>> /\ finished'[p] = Tail(finished[p])
        /\ intruded' = intruded /\ owner' = owner
        /\ \/ lock' = lock
           \/ Renewable(f.url, f.time) /\ lock' = [lock EXCEPT ![f.url] = 0]
    BY <1>21 DEF TypeOK, FinishUrl, Goto
  <2>2. /\ f = finished[p][1] /\ f.url \in Urls /\ f.time \in Nat /\ 1 \in DOMAIN finished[p]
        /\ \A i \in DOMAIN finished'[p] :
             i \in Nat /\ i + 1 > 1 /\ i + 1 \in DOMAIN finished[p] /\ finished'[p][i] = finished[p][i + 1]
    BY <2>1, FinishedFacts, TimeFacts
  <2> HIDE DEF f
  <2>3. ASSUME NEW u \in Urls, NEW t \in Nat, u = f.url => Over(f.url, f.time), Live(p, u, t)
        PROVE  u \in intruded' \/ t <= now' \/ (owner'[u] = p /\ lock'[u] >= t)
    <3>1. CASE lock'[u] = lock[u]
      BY <2>1, <2>3, <3>1 DEF Live
    <3>2. CASE lock'[u] # lock[u]
      <4>1. u = f.url /\ Renewable(f.url, f.time)
        BY <2>1, <3>2 DEF TypeOK
      <4>2. u \in intruded \/ f.time <= now
        BY <2>3, <4>1 DEF Over
      <4>3. u \in intruded \/ lock[u] <= now
        BY <2>2, <4>1, <4>2 DEF Renewable
      <4> QED
        BY <2>1, <2>3, <4>3 DEF Live
    <3> QED
      BY <3>1, <3>2
  <2>4. Kept(p)' = Kept(p) /\ Kept(p) \subseteq DOMAIN urls[p] /\ (Active(p)' => Active(p))
    BY <2>1 DEF Kept, HeadIsDone, Saving, Active
  <2>5. CacheIsLocked(p)'
    <3>1. ASSUME Active(p), NEW k \in Kept(p)
          PROVE  \/ urls[p][k] \in intruded' \/ cacheLockTime[p] <= now'
                 \/ owner'[urls[p][k]] = p /\ lock'[urls[p][k]] >= cacheLockTime[p]
      <4>1. urls[p][k] \in Urls /\ cacheLockTime[p] \in Nat
        BY <2>4, UrlsFacts, TimeFacts DEF TypeOK
      <4>2. Live(p, urls[p][k], cacheLockTime[p])
        BY <2>1, <3>1 DEF Locks, CacheIsLocked
      <4>3. urls[p][k] = f.url => Over(f.url, f.time)
        BY <2>2 DEF Locks, OldLocksAreOver
      <4> QED
        BY <2>3, <4>1, <4>2, <4>3
    <3> QED
      BY <2>1, <2>4, <3>1 DEF CacheIsLocked, Live
  <2>6. FinishedIsLocked(p)'
    <3>1. ASSUME NEW i \in DOMAIN finished'[p]
          PROVE  LET g == finished[p][i + 1] IN
                   g.url \in intruded' \/ g.time <= now' \/ (owner'[g.url] = p /\ lock'[g.url] >= g.time)
      <4> DEFINE g == finished[p][i + 1]
      <4>1. g.url \in Urls /\ g.time \in Nat /\ i + 1 \in DOMAIN finished[p] /\ 1 < i + 1
        BY <2>2, FinishedFacts, TimeFacts
      <4>2. Live(p, g.url, g.time)
        BY <4>1 DEF Locks, FinishedIsLocked
      <4>3. g.url = f.url => Over(f.url, f.time)
        BY <2>2, <4>1 DEF Locks, OldLocksAreOver
      <4> HIDE DEF g
      <4>4. g.url \in intruded' \/ g.time <= now' \/ (owner'[g.url] = p /\ lock'[g.url] >= g.time)
        BY <2>3, <4>1, <4>2, <4>3
      <4> QED
        BY <4>4 DEF g
    <3> QED
      BY <2>2, <3>1 DEF FinishedIsLocked, Live
  <2>7. ParsedIsLocked(p)'
    BY <2>1 DEF ParsedIsLocked
  <2>8. OldLocksAreOver(p)'
    <3>1. \A i, j \in DOMAIN finished'[p] : i < j => i + 1 < j + 1
      BY <2>2
    <3> QED
      BY <2>1, <2>2, <2>4, <3>1 DEF Locks, OldLocksAreOver, Over
  <2> QED
    BY <2>5, <2>6, <2>7, <2>8 DEF Locks
<1>22. CASE FinishFails(p)
  BY <1>22 DEF FinishFails
<1>23. CASE FinishEnd(p)
  <2>1. /\ pc[p] = "finishing" /\ running'[p] = running[p] /\ lock' = lock /\ owner' = owner
        /\ intruded' = intruded /\ finished'[p] = finished[p] /\ urls'[p] = urls[p]
        /\ cacheLockTime'[p] = cacheLockTime[p]
    BY <1>23 DEF FinishEnd, Return, Goto, GotoAfter
  <2>2. \/ after[p] = "pause" /\ pc'[p] = "loop" /\ after'[p] = "ticked"
        \/ after[p] \in {"check", "ticked"} /\ pc'[p] = "pop" /\ after'[p] = after[p]
        \/ after[p] \in {"warp", "reset", "clear"} /\ pc'[p] = "unlockAll" /\ after'[p] = after[p]
    BY <1>23 DEF TypeOK, Returns, FinishEnd, Return, Goto, GotoAfter
  <2>3. CASE pc'[p] = "pop"
    <3>1. Kept(p)' = {} /\ Kept(p) = {}
      <4>1. DOMAIN urls[p] = {1} /\ HeadIsDone(p) /\ HeadIsDone(p)'
        BY <2>1, <2>2, <2>3, UrlsFacts DEF Control, HeadIsDone, Saving
      <4> QED
        BY <2>1, <4>1 DEF Kept
    <3> QED
      BY <2>1, <2>3, <3>1 DEF Locks, CacheIsLocked, ParsedIsLocked, FinishedIsLocked, OldLocksAreOver, Live, Over
  <2>4. CASE pc'[p] # "pop"
    BY <2>1, <2>2, <2>4, LocksStay DEF Active, HeadIsDone, Saving
  <2> QED
    BY <2>3, <2>4
<1>24. CASE Pause(p)
  BY <1>24, LocksStay DEF Pause, Goto, GotoAfter, TypeOK, Control, Active, HeadIsDone, Saving
<1>25. CASE TickWarped(p)
  BY <1>25, LocksStay DEF TickWarped, Goto, GotoAfter, TypeOK, Control, Active, HeadIsDone, Saving
<1>26. CASE Reset(p)
  BY <1>26, LocksStay DEF Reset, Goto, GotoAfter, TypeOK, Control, Active, HeadIsDone, Saving
<1>27. CASE Clear(p)
  BY <1>27, LocksStay DEF Clear, Goto, GotoAfter, TypeOK, Control, Active, HeadIsDone, Saving
<1>28. CASE UnlockAll(p)
  <2> DEFINE us == {urls[p][i] : i \in DOMAIN urls[p]}
  <2>1. /\ pc[p] = "unlockAll" /\ urls'[p] = <<>> /\ Unlock(us, cacheLockTime[p])
        /\ owner' = owner /\ intruded \subseteq intruded' /\ finished'[p] = finished[p]
    BY <1>28 DEF TypeOK, UnlockAll, Goto, GotoAfter, Intrude
  <2>2. pc'[p] \in {"fetch", "tick", "exited"}
    BY <1>28 DEF TypeOK, Control, UnlockAll, Goto, GotoAfter
  <2>3. ASSUME NEW i \in DOMAIN finished[p] PROVE Live(p, finished[p][i].url, finished[p][i].time)'
    <3>1. CASE finished[p][i].url \in us
      BY <2>1, <3>1 DEF Locks, OldLocksAreOver, Kept, HeadIsDone, Saving, Live, Over
    <3>2. CASE finished[p][i].url \notin us
      BY <2>1, <3>2, FinishedFacts DEF Locks, FinishedIsLocked, Live, Unlock
    <3> QED
      BY <3>1, <3>2
  <2>4. FinishedIsLocked(p)'
    BY <2>1, <2>3 DEF FinishedIsLocked, Live
  <2> QED
    BY <2>1, <2>2, <2>4 DEF Locks, CacheIsLocked, ParsedIsLocked, OldLocksAreOver, Kept, Over
<1>29. CASE Stop(p)
  <2>1. /\ lock' = lock /\ owner' = owner /\ intruded' = intruded /\ pc' = pc /\ after' = after
        /\ urls' = urls /\ locked' = locked /\ newTime' = newTime /\ finished' = finished
        /\ cacheLockTime' = cacheLockTime /\ lockTime' = lockTime /\ running[p]
    BY <1>29 DEF Stop
  <2> QED
    BY <2>1 DEF Active, HeadIsDone, Saving, Locks, CacheIsLocked, ParsedIsLocked, FinishedIsLocked, OldLocksAreOver, Kept, Live, Over
<1>30. CASE NewThread(p)
  <2>1. pc'[p] = "loop" /\ urls'[p] = <<>> /\ finished'[p] = <<>>
    BY <1>30 DEF NewThread, Begin
  <2> QED
    BY <2>1 DEF Locks, CacheIsLocked, ParsedIsLocked, FinishedIsLocked, OldLocksAreOver, Kept
<1>31. ASSUME NEW id \in 0 .. instance.listed, Warp(p, id) PROVE Locks(p)'
  BY <1>31, LocksStay DEF Warp, Goto, TypeOK, Control, Active, HeadIsDone, Saving
<1> QED
  BY <1>1, <1>2, <1>3, <1>4, <1>5, <1>6, <1>7, <1>8, <1>9, <1>10, <1>11, <1>12, <1>13, <1>14, <1>15, <1>16, <1>17, <1>18, <1>19, <1>20, <1>21, <1>22, <1>23, <1>24, <1>25, <1>26, <1>27, <1>28, <1>29, <1>30, <1>31
  DEF ParserStep, Main, Tick, Fetch, Check, Parse, SaveResults

-----------------------------------------------------------------------------
(* One parser at a time.                                                    *)

LEMMA LockInvStep ==
  ASSUME TypeInv, TypeInv', OrderInv, LockInv, [Next]_vars
  PROVE  LockInv'
<1> TypeOK /\ TypeOK'
  BY DEF TypeInv
<1> SUFFICES ASSUME ~instance'.dbFails, NEW q \in Parsers PROVE Locks(q)'
  BY DEF LockInv
<1>1. CASE \E p \in instance.parsers : ParserStep(p)
  <2>1. PICK p \in Parsers : ParserStep(p)
    BY <1>1, InstanceFacts
  <2>2. ~instance.dbFails /\ now' = now
    BY <2>1, InstanceKept
  <2>3. CASE q = p
    BY <2>1, <2>2, <2>3, OwnLocksStep DEF LockInv, OrderInv, Order
  <2>4. CASE q # p
    <3>1. Same(q)
      BY <2>1, <2>4, OthersStay
    <3>2. TakesOwn(p)
      BY <2>1, <2>2, TakesOwnStep DEF LockInv
    <3>3. Locks(q) /\ Control(q)
      BY <2>2 DEF LockInv, TypeInv
    <3> QED
      BY <2>2, <2>4, <3>1, <3>2, <3>3, OthersLocks
  <2> QED
    BY <2>3, <2>4
<1>2. CASE Crash
  <2>1. pc'[q] = "loop" /\ urls'[q] = <<>> /\ finished'[q] = <<>>
    BY <1>2 DEF Crash, Begin
  <2> QED
    BY <2>1 DEF Locks, CacheIsLocked, ParsedIsLocked, FinishedIsLocked, OldLocksAreOver, Kept
<1>3. CASE Time
  <2>1. /\ now' = now + 1 /\ now \in Nat /\ Times \subseteq Nat
        /\ newTime[q] \in Nat /\ cacheLockTime[q] \in Nat /\ lockTime[q] \in Nat
        /\ \A i \in DOMAIN finished[q] : finished[q][i].time \in Nat
    BY <1>3, TimeFacts, FinishedFacts DEF Time, TypeOK
  <2>2. \A t \in Nat : t <= now => t <= now'
    BY <2>1
  <2>3. Locks(q) /\ UNCHANGED <<table, cache, memory, pc, after, running>>
    BY <1>3 DEF Time, LockInv
  <2> QED
    BY <2>1, <2>2, <2>3 DEF table, cache, memory, Locks, CacheIsLocked, ParsedIsLocked,
       FinishedIsLocked, OldLocksAreOver, Kept, HeadIsDone, Saving, Active, Live, Over
<1>4. CASE UNCHANGED vars
  BY <1>4 DEF vars, world, table, cache, memory, LockInv, Locks, CacheIsLocked, ParsedIsLocked,
     FinishedIsLocked, OldLocksAreOver, Kept, HeadIsDone, Saving, Active, Live, Over
<1> QED
  BY <1>1, <1>2, <1>3, <1>4 DEF Next

\* Every claim of a parser that no statement has failed is covered by a lock of
\* its own until its time has come.
THEOREM LocksAreLive == Spec => [](TypeInv /\ LockInv)
<1>1. Init => ResultsInv /\ OrderInv /\ LockInv
  <2>1. Init => ResultsInv /\ OrderInv
    BY DEF Init, ResultsInv, FinishedHasResults, QueuedHasResults, OrderInv, Order, Sorted,
       Ahead, Pausing, Saving
  <2>2. ASSUME Init PROVE LockInv
    <3>1. ASSUME NEW p \in Parsers PROVE Locks(p)
      <4>1. pc[p] = "loop" /\ urls[p] = <<>> /\ finished[p] = <<>>
        BY <2>2 DEF Init
      <4> QED
        BY <4>1 DEF Locks, CacheIsLocked, ParsedIsLocked, FinishedIsLocked, OldLocksAreOver, Kept
    <3> QED
      BY <3>1 DEF LockInv
  <2> QED
    BY <2>1, <2>2
<1> QED
  BY <1>1, TypeCorrect, ResultsStep, OrderInvStep, LockInvStep, PTL DEF Spec

\* While a parser believes that its URL is locked, the parsing table says so,
\* for at least as long, if no statement fails and the intrusions that the code
\* admits are left aside: every other statement on the table takes away or
\* renews only locks that are over or belong to the parser that runs it.
THEOREM CountedLocksStayLive == Spec => []CountedLocksAreLive
<1>1. TypeInv /\ LockInv => CountedLocksAreLive
  <2> SUFFICES ASSUME TypeInv, LockInv, ~instance.dbFails, NEW p \in Parsers, NEW u \in Urls,
                      Holds(p, u), u \notin intruded
               PROVE  lock[u] >= lockTime[p]
    BY DEF CountedLocksAreLive
  <2>1. now \in Nat /\ lockTime[p] \in Nat
    BY TimeFacts DEF TypeInv, TypeOK
  <2> QED
    BY <2>1 DEF LockInv, Locks, ParsedIsLocked, Live, Holds, Parses
<1> QED
  BY <1>1, LocksAreLive, PTL

\* With the same reservations no URL is parsed by two parsers at a time: the
\* owner of its lock is only one of them.
THEOREM UrlsHaveOneParser == Spec => []UrlsAreParsedOnce
<1>1. TypeInv /\ LockInv => UrlsAreParsedOnce
  <2> SUFFICES ASSUME TypeInv, LockInv, ~instance.dbFails, NEW p \in Parsers, NEW q \in Parsers,
                      NEW u \in Urls, Holds(p, u), Holds(q, u), u \notin intruded
               PROVE  p = q
    BY DEF UrlsAreParsedOnce
  <2>1. now \in Nat /\ lockTime[p] \in Nat /\ lockTime[q] \in Nat
    BY TimeFacts DEF TypeInv, TypeOK
  <2>2. owner[u] = p
    BY <2>1 DEF LockInv, Locks, ParsedIsLocked, Live, Holds, Parses
  <2>3. owner[u] = q
    BY <2>1 DEF LockInv, Locks, ParsedIsLocked, Live, Holds, Parses
  <2> QED
    BY <2>2, <2>3
<1> QED
  BY <1>1, LocksAreLive, PTL

=============================================================================
