-------------------------- MODULE ExtractorProofs --------------------------
(***************************************************************************)
(* Theorems about Extractor, for every length of the list, size of the     *)
(* cache, and set of configurations.  The inductive invariant says what    *)
(* the caches hold at each control state, who has called                   *)
(* extractingSaveResults(), that what an attempt has seen is in its        *)
(* results until it is in the table (Complete), and that the cache is      *)
(* ascending and ahead of both the last ID and the last URL (Ordered).     *)
(***************************************************************************)
EXTENDS Extractor, FiniteSetTheorems, SequenceTheorems, TLAPS

-----------------------------------------------------------------------------
(* The inductive invariant.                                                 *)

AttemptStates ==
  {"content", "tokens", "pages", "pageTokens", "request", "page", "first", "extract",
   "linked", "next", "compare", "done"}
SaveStates == {"saveLinked", "save", "setLast", "finishing", "unlockAll"}
LoopStates == {"loop", "tick", "exited"}

Attempting == pc \in AttemptStates
IsSaving == pc \in SaveStates
\* Between two URLs: not in the middle of a tick.
Settled == pc \in LoopStates \cup {"ticked"} \/ (IsSaving /\ after # "ticked")

\* What the caches hold at the control states.
CachesFit ==
  /\ pc \in SaveStates \ {"saveLinked"} => linked = {}
  /\ pc \in {"setLast", "finishing", "unlockAll"} => results = {}
  /\ urls = <<>> \/ (pc = "pop" /\ Len(urls) = 1) => results = {}
  /\ Attempting \/ pc \in {"check", "pop"} => urls # <<>>
  /\ pc = "fetch" => urls = <<>>
  /\ IsSaving /\ after = "ticked" => Len(urls) = 1

\* Who has called extractingSaveResults(), and when a thread may be about to warp.
CallersFit ==
  /\ pc \notin SaveStates \cup LoopStates => after = "ticked" /\ ~warped
  /\ after = "warp" => IsSaving /\ ~warped
  /\ pc = "unlockAll" => after \in {"warp", "reset", "clear"}
  /\ warped /\ IsSaving => after # "ticked"

\* A first field stays the first one.
FirstFieldStays == cfg.linkedField = 0 => linkedIndex = 0

InTable(x) == \E r \in target : r.url = x.url /\ r.id = x.id
Kept(x) == x \in results \/ x \in lost \/ InTable(x)
IsLinked(x) ==
  \/ x \in lost
  \/ x \in results /\ x.id \in linked \cup linkedTarget
  \/ x \notin results /\ \A r \in target : r.url = x.url /\ r.id = x.id => r.link

\* The current attempt, if it began properly, has all it has seen in memory.
AttemptIsKept ==
  Attempting /\ Url \notin partial =>
    /\ Url \notin success
    /\ \A d \in ids : [url |-> Url, id |-> d] \in results
    /\ \A x \in seen : x.url = Url => x \in results
    /\ \A x \in links : x.url = Url => x \in results /\ x.id \in linked \cup linkedTarget

\* The last attempt of a URL that is, or will be marked as, finished is in memory or saved.
Done == (finished \cup success) \ partial
DoneIsKept ==
  /\ \A x \in seen : x.url \in Done => Kept(x)
  /\ cfg.linkedField = 0 => \A x \in links : x.url \in Done => IsLinked(x)
  /\ \A x \in results : x.url \notin success \ partial

Complete == AttemptIsKept /\ DoneIsKept

\* The cache is ascending and ahead of the last ID and the last URL.
Exempt == cfg.dbFails \/ linkedIndex = NumFields \/ warped \/ after = "warp"
Ascending == \A j, k \in DOMAIN urls : j < k => urls[j] < urls[k]
CacheIsAhead ==
  ~Exempt =>
    \A k \in DOMAIN urls :
      urls[k] \in left \/ last < urls[k] \/ (pc \in {"finishing", "pop"} /\ after = "ticked" /\ k = 1)
CacheIsNew ==
  ~Exempt /\ Settled => \A k \in DOMAIN urls : urls[k] \in left \/ lastUrl < urls[k]
ResultsAreAhead == ~Exempt => \A d \in results : last < d.url \/ d.url \in left

Ordered == Ascending /\ CacheIsAhead /\ CacheIsNew /\ ResultsAreAhead

\* The pages of a URL that are left to be looked at.
PagesLeft == pc \in {"pageTokens", "request", "page"} => local.pages > 0 /\ local.visited < MaxPages

ExtractorInv ==
  /\ TypeOK /\ PagesLeft /\ CachesFit /\ CallersFit /\ FirstFieldStays /\ Complete /\ Ordered

-----------------------------------------------------------------------------
\* What is left of a cache when its first URL has been removed.
LEMMA TailFacts ==
  ASSUME NEW s \in Seq(Urls), s # <<>>
  PROVE  /\ Tail(s) \in Seq(Urls) /\ Head(s) \in Urls /\ Head(s) = s[1] /\ 1 \in DOMAIN s
         /\ Tail(s) = <<>> <=> Len(s) = 1
         /\ \A k \in DOMAIN Tail(s) : k + 1 \in DOMAIN s /\ Tail(s)[k] = s[k + 1]
<1>1. Len(s) \in Nat \ {0}  BY EmptySeq
<1>2. Len(Tail(s)) = Len(s) - 1 /\ Tail(s) \in Seq(Urls)  BY <1>1
<1>3. Tail(s) = <<>> <=> Len(Tail(s)) = 0  BY <1>2, EmptySeq
<1>4. QED  BY <1>1, <1>2, <1>3

\* A cache with one URL is not empty.
LEMMA OneUrl ==
  ASSUME NEW s \in Seq(Urls), Len(s) = 1
  PROVE  s # <<>>
  BY EmptySeq

\* Where extractingSaveResults() returns to.
LEMMA SaveReturnsTo ==
  ASSUME after \in Returns, NEW from, SaveReturns(from)
  PROVE  /\ pc = from
         /\ \/ after = "pause" /\ pc' = "loop"
            \/ after = "ticked" /\ pc' = "pop"
            \/ after \in {"warp", "reset", "clear"} /\ pc' = "unlockAll"
  BY DEF SaveReturns, Goto, Returns

\* Where an exception during extractingSaveResults() ends.
LEMMA ThrownTo ==
  ASSUME after \in Returns, NEW from, Thrown(from)
  PROVE  /\ pc = from /\ after' = "ticked"
         /\ \/ after \in {"ticked", "warp"} /\ pc' = "ticked"
            \/ after \in {"pause", "reset", "clear"} /\ pc' \in {"loop", "exited"}
  BY DEF Thrown, AfterThrow, Returns

\* Where unLockUrlsIfOk() is followed by, and what a reset does to the index.
LEMMA UnlockAllTo ==
  ASSUME UnlockAll, after \in {"warp", "reset", "clear"}
  PROVE  /\ pc = "unlockAll"
         /\ pc' = IF after = "warp" THEN "fetch" ELSE IF after = "reset" THEN "tick" ELSE "exited"
         /\ linkedIndex' = IF after = "reset" THEN NextLinkedIndex ELSE linkedIndex
  BY DEF UnlockAll, Goto

\* Actions of extractingNext() that only look at pages, and all other steps.
LookingActions ==
  \/ SkipUrl \/ Variables \/ GlobalToken \/ RetryGlobalToken \/ FirstPage \/ NextPage \/ PageToken
      \/ RetryPageToken \/ Request \/ RetryPage \/ NoPage \/ HasPage \/ PageIsSkip \/ PageIsRetry \/
      AcceptPage \/ PageNumbers \/ NoPages \/ LastPage \/ AddPages \/ PagesEnd \/ Compare

\* They belong to an attempt and change nothing but its local variables.
LEMMA LookingMoves ==
  ASSUME LookingActions
  PROVE  Attempting /\ pc' \in AttemptStates /\ UNCHANGED <<Thread, memory, history>>
<1> USE DEF Goto, Attempting, AttemptStates
<1>1. CASE SkipUrl
  BY <1>1 DEF SkipUrl, Return, Continue
<1>2. CASE Variables
  BY <1>2 DEF Variables, GlobalTokens, Continue
<1>3. CASE GlobalToken
  BY <1>3 DEF GlobalToken, HaveToken, Continue
<1>4. CASE RetryGlobalToken
  BY <1>4 DEF RetryGlobalToken, TryAgain, TriesLeft, Continue
<1>5. CASE FirstPage
  BY <1>5 DEF FirstPage, Continue
<1>6. CASE NextPage
  BY <1>6 DEF NextPage, PageTokens, Continue
<1>7. CASE PageToken
  BY <1>7 DEF PageToken, HaveToken, Continue
<1>8. CASE RetryPageToken
  BY <1>8 DEF RetryPageToken, TryAgain, TriesLeft, Continue
<1>9. CASE Request
  BY <1>9 DEF Request, Continue
<1>10. CASE RetryPage
  BY <1>10 DEF RetryPage, TryAgain, TriesLeft, Continue
<1>11. CASE NoPage
  BY <1>11 DEF NoPage, PageTokens, Continue
<1>12. CASE HasPage
  BY <1>12 DEF HasPage, Continue
<1>13. CASE PageIsSkip
  BY <1>13 DEF PageIsSkip, Continue
<1>14. CASE PageIsRetry
  BY <1>14 DEF PageIsRetry, PageTokens, Continue
<1>15. CASE AcceptPage
  BY <1>15 DEF AcceptPage, Continue
<1>16. CASE PageNumbers
  BY <1>16 DEF PageNumbers, Continue
<1>17. CASE NoPages
  BY <1>17 DEF NoPages, Return, Continue
<1>18. CASE LastPage
  BY <1>18 DEF LastPage, Continue
<1>19. CASE AddPages
  BY <1>19 DEF AddPages, PageTokens, More, Continue
<1>20. CASE PagesEnd
  BY <1>20 DEF PagesEnd, Continue
<1>21. CASE Compare
  BY <1>21 DEF Compare, Return, Continue
<1>22. QED  BY <1>1, <1>2, <1>3, <1>4, <1>5, <1>6, <1>7, <1>8, <1>9, <1>10, <1>11, <1>12, <1>13,
      <1>14, <1>15, <1>16, <1>17, <1>18, <1>19, <1>20, <1>21 DEF LookingActions

OtherSteps ==
  \/ Loop \/ Pause \/ Reset \/ Clear \/ TickWarped \/ Tick \/ FetchUrls \/ TickEnd \/ Locked \/
      Renew \/ PageFails \/ CompareFails \/ UrlDone \/ Pop \/ SaveLinked \/ SaveNothing \/ Save \/
      NoField \/ SaveLinkedFails \/ SaveFails \/ SetLast \/ FinishEnd \/ UnlockAll \/ Stop \/
      NewThread \/ Crash
  \/ \E found \in SUBSET DataIds : ExtractPage(found) \/ ExtractLinked(found)
  \/ \E u \in Urls : FinishUrl(u)
  \/ \E id \in 1 .. cfg.listed : Warp(id)
  \/ UNCHANGED vars

\* The caches fit the control state after every other step.
LEMMA ControlStep ==
  ASSUME TypeOK, CachesFit, CallersFit, FirstFieldStays, OtherSteps
  PROVE  CachesFit' /\ CallersFit' /\ FirstFieldStays'
<1> USE BoundsAssumption, ConfigurationsAssumption DEF Goto, Thread, database, memory, history,
      TypeOK, CachesFit, CallersFit, FirstFieldStays, Attempting, AttemptStates, IsSaving,
      SaveStates, LoopStates, ControlStates, Returns
<1>1. CASE Loop
  BY <1>1 DEF Loop, Begin
<1>2. CASE Pause
  BY <1>2 DEF Pause, Begin
<1>3. CASE Reset
  BY <1>3 DEF Reset, Begin
<1>4. CASE Clear
  BY <1>4 DEF Clear, Begin
<1>5. CASE TickWarped
  BY <1>5 DEF TickWarped, Begin
<1>6. CASE Tick
  BY <1>6 DEF Tick, Begin
<1>7. CASE FetchUrls
  BY <1>7 DEF FetchUrls, AreNext, Fetchable
<1>8. CASE TickEnd
  BY <1>8 DEF TickEnd, Begin
<1>9. CASE Locked
  BY <1>9 DEF Locked, UrlFinished
<1>10. CASE Renew
  BY <1>10 DEF Renew
<1>11. CASE PageFails
  BY <1>11 DEF PageFails, Throw, Range
<1>12. CASE CompareFails
  BY <1>12 DEF CompareFails, Throw, Unexpected, Range
<1>13. CASE UrlDone
  BY <1>13 DEF UrlDone, UrlFinished
<1>14. CASE Pop
  <2>1. urls # <<>> /\ urls \in Seq(Urls)  BY <1>14 DEF Pop, Goto, CachesFit, TypeOK
  <2>2. Tail(urls) = <<>> <=> Len(urls) = 1  BY <2>1, TailFacts
  <2>. QED  BY <1>14, <2>2 DEF Pop
<1>15. CASE SaveLinked
  BY <1>15 DEF SaveLinked
<1>16. CASE SaveNothing
  <2>1. SaveReturns("save")  BY <1>16 DEF SaveNothing
  <2>2. /\ pc = "save"
        /\ \/ after = "pause" /\ pc' = "loop"
           \/ after = "ticked" /\ pc' = "pop"
           \/ after \in {"warp", "reset", "clear"} /\ pc' = "unlockAll"
    BY <2>1, SaveReturnsTo DEF TypeOK
  <2>3. after = "ticked" => urls # <<>>
    BY <2>2, OneUrl DEF CachesFit, IsSaving, SaveStates, TypeOK
  <2>. QED  BY <1>16, <2>2, <2>3 DEF SaveNothing
<1>17. CASE Save
  BY <1>17 DEF Save, Link
<1>18. CASE NoField
  <2>1. Thrown("save")  BY <1>18 DEF NoField
  <2>2. /\ pc = "save" /\ after' = "ticked"
        /\ \/ after \in {"ticked", "warp"} /\ pc' = "ticked"
           \/ after \in {"pause", "reset", "clear"} /\ pc' \in {"loop", "exited"}
    BY <2>1, ThrownTo DEF TypeOK
  <2>. QED  BY <1>18, <2>2 DEF NoField
<1>19. CASE SaveLinkedFails
  <2>1. Thrown("saveLinked")  BY <1>19 DEF SaveLinkedFails
  <2>2. /\ pc = "saveLinked" /\ after' = "ticked"
        /\ \/ after \in {"ticked", "warp"} /\ pc' = "ticked"
           \/ after \in {"pause", "reset", "clear"} /\ pc' \in {"loop", "exited"}
    BY <2>1, ThrownTo DEF TypeOK
  <2>. QED  BY <1>19, <2>2 DEF SaveLinkedFails
<1>20. CASE SaveFails
  <2>1. Thrown("save")  BY <1>20 DEF SaveFails
  <2>2. /\ pc = "save" /\ after' = "ticked"
        /\ \/ after \in {"ticked", "warp"} /\ pc' = "ticked"
           \/ after \in {"pause", "reset", "clear"} /\ pc' \in {"loop", "exited"}
    BY <2>1, ThrownTo DEF TypeOK
  <2>. QED  BY <1>20, <2>2 DEF SaveFails
<1>21. CASE SetLast
  BY <1>21 DEF SetLast
<1>22. CASE FinishEnd
  <2>1. SaveReturns("finishing")  BY <1>22 DEF FinishEnd
  <2>2. /\ pc = "finishing"
        /\ \/ after = "pause" /\ pc' = "loop"
           \/ after = "ticked" /\ pc' = "pop"
           \/ after \in {"warp", "reset", "clear"} /\ pc' = "unlockAll"
    BY <2>1, SaveReturnsTo DEF TypeOK
  <2>3. after = "ticked" => urls # <<>>
    BY <2>2, OneUrl DEF CachesFit, IsSaving, SaveStates, TypeOK
  <2>. QED  BY <1>22, <2>2, <2>3 DEF FinishEnd
<1>23. CASE UnlockAll
  <2>1. after \in {"warp", "reset", "clear"}  BY <1>23 DEF UnlockAll, Goto, CallersFit
  <2>2. /\ pc = "unlockAll"
        /\ pc' = IF after = "warp" THEN "fetch" ELSE IF after = "reset" THEN "tick" ELSE "exited"
    BY <1>23, <2>1, UnlockAllTo
  <2>. QED  BY <1>23, <2>1, <2>2 DEF UnlockAll, NextLinkedIndex
<1>24. CASE Stop
  BY <1>24 DEF Stop
<1>25. CASE NewThread
  BY <1>25 DEF NewThread, Initialized
<1>26. CASE Crash
  BY <1>26 DEF Crash, Initialized
<1>27. ASSUME NEW found \in SUBSET DataIds, ExtractPage(found)
       PROVE CachesFit' /\ CallersFit' /\ FirstFieldStays'
  BY <1>27 DEF ExtractPage, NewIds
<1>28. ASSUME NEW found \in SUBSET DataIds, ExtractLinked(found)
       PROVE CachesFit' /\ CallersFit' /\ FirstFieldStays'
  BY <1>28 DEF ExtractLinked
<1>29. ASSUME NEW u \in Urls, FinishUrl(u) PROVE CachesFit' /\ CallersFit' /\ FirstFieldStays'
  BY <1>29 DEF FinishUrl
<1>30. ASSUME NEW id \in 1 .. cfg.listed, Warp(id)
       PROVE CachesFit' /\ CallersFit' /\ FirstFieldStays'
  BY <1>30 DEF Warp
<1>31. CASE UNCHANGED vars
  BY <1>31 DEF vars
<1>32. QED  BY <1>1, <1>2, <1>3, <1>4, <1>5, <1>6, <1>7, <1>8, <1>9, <1>10, <1>11, <1>12, <1>13,
      <1>14, <1>15, <1>16, <1>17, <1>18, <1>19, <1>20, <1>21, <1>22, <1>23, <1>24, <1>25, <1>26,
      <1>27, <1>28, <1>29, <1>30, <1>31 DEF OtherSteps

-----------------------------------------------------------------------------
(* The local variables of extractingNext().                                 *)

LocalsIn(N, V, T) ==
  [pages : N, visited : V, first : BOOLEAN, total : N, counter : N, expecting : BOOLEAN,
   expected : N, extracted : N, tries : V, tokens : T, values : T]

\* Local variables as records over sets of numbers, tries and tokens.
LEMMA LocalsAre == Locals = LocalsIn(Nat, 0 .. MaxPages, SUBSET Tokens)
  BY DEF Locals, LocalsIn

\* Updating them keeps their type, whatever these sets are.
LEMMA LocalsUpdated ==
  ASSUME NEW N, NEW V, NEW T, NEW l \in LocalsIn(N, V, T), NEW n \in N, NEW m \in N,
         NEW v \in V, NEW w \in V, NEW t \in T, NEW s \in T, NEW b \in BOOLEAN, NEW c \in BOOLEAN
  PROVE  /\ [l EXCEPT !.tries = v] \in LocalsIn(N, V, T)
         /\ [l EXCEPT !.extracted = n] \in LocalsIn(N, V, T)
         /\ [l EXCEPT !.tokens = t, !.values = s, !.tries = v] \in LocalsIn(N, V, T)
         /\ [l EXCEPT !.pages = n, !.visited = v] \in LocalsIn(N, V, T)
         /\ [l EXCEPT !.pages = n, !.visited = v, !.tries = w, !.values = s] \in LocalsIn(N, V, T)
         /\ [l EXCEPT !.first = b, !.total = n, !.expecting = c, !.expected = m] \in LocalsIn(N, V, T)
         /\ [l EXCEPT !.counter = n, !.pages = m, !.values = s] \in LocalsIn(N, V, T)
  BY DEF LocalsIn

\* The types of their fields.
LEMMA LocalsFields ==
  ASSUME NEW l \in Locals
  PROVE  /\ l.pages \in Nat /\ l.visited \in 0 .. MaxPages /\ l.counter \in Nat /\ l.extracted \in Nat
         /\ l.tries \in 0 .. MaxPages /\ l.tokens \in SUBSET Tokens /\ l.values \in SUBSET Tokens
  BY DEF Locals

\* Those an attempt begins with.
LEMMA NoLocalsFit == NoLocals \in Locals
  BY BoundsAssumption DEF NoLocals, Locals

\* What extractingNext() returns.
LEMMA ReturnLocals ==
  ASSUME NEW from, NEW n \in Nat, Return(from, n)
  PROVE  local' \in Locals /\ pc' = "done"
<1>1. local' = [NoLocals EXCEPT !.extracted = n] /\ pc' = "done"  BY DEF Return, Continue, Goto
<1>2. 0 \in 0 .. MaxPages  BY BoundsAssumption
<1>3. QED  BY <1>1, <1>2, NoLocalsFit, LocalsUpdated, LocalsAre

\* A token that has been requested.
LEMMA HaveTokenLocals ==
  ASSUME local \in Locals, NEW from, HaveToken(from)
  PROVE  local' \in Locals /\ local'.pages = local.pages /\ local'.visited = local.visited
         /\ pc = from /\ pc' = from
<1>1. PICK t \in local.tokens :
        local' = [local EXCEPT !.tokens = local.tokens \ {t}, !.values = local.values \cup {t}, !.tries = 0]
  BY DEF HaveToken
<1>2. local.tokens \ {t} \in SUBSET Tokens /\ local.values \cup {t} \in SUBSET Tokens
      /\ 0 \in 0 .. MaxPages
  BY LocalsFields, BoundsAssumption
<1>3. local' \in Locals  BY <1>1, <1>2, LocalsUpdated, LocalsAre
<1>4. local'.pages = local.pages /\ local'.visited = local.visited  BY <1>1 DEF Locals
<1>5. QED  BY <1>3, <1>4 DEF HaveToken, Continue, Goto

\* A request that is made again.
LEMMA TryAgainLocals ==
  ASSUME local \in Locals, cfg \in Configuration, NEW from, TryAgain(from)
  PROVE  local' \in Locals /\ local'.pages = local.pages /\ local'.visited = local.visited
         /\ pc = from /\ pc' = from
<1>1. PICK n : /\ n = IF cfg.retries = Unlimited THEN (local.tries + 1) % 2 ELSE local.tries + 1
               /\ local' = [local EXCEPT !.tries = n]
  BY DEF TryAgain
<1>2. n \in 0 .. MaxPages
  <2>1. local.tries \in 0 .. MaxPages /\ cfg.retries \in 0 .. Unlimited
    BY LocalsFields DEF Configuration
  <2>2. cfg.retries # Unlimited => local.tries < cfg.retries  BY DEF TryAgain, TriesLeft
  <2>. QED  BY <1>1, <2>1, <2>2, BoundsAssumption DEF Unlimited
<1>3. local' \in Locals  BY <1>1, <1>2, LocalsUpdated, LocalsAre
<1>4. local'.pages = local.pages /\ local'.visited = local.visited  BY <1>1 DEF Locals
<1>5. QED  BY <1>3, <1>4 DEF TryAgain, Continue, Goto

\* The numbers of the first page.
LEMMA PageNumbersLocals ==
  ASSUME local \in Locals
  PROVE  \A n, m \in Nat : \A b, c \in BOOLEAN :
           [local EXCEPT !.first = b, !.total = n, !.expecting = c, !.expected = m] \in Locals
  BY DEF Locals

\* Looking at a page keeps the types, and no page is taken from an empty queue.
LEMMA LookingLocals ==
  ASSUME local \in Locals, PagesLeft, cfg \in Configuration, LookingActions
  PROVE  local' \in Locals /\ PagesLeft'
<1>1. local.pages \in Nat /\ local.visited \in 0 .. MaxPages /\ local.counter \in Nat
      /\ local.extracted \in Nat /\ local.values \ PageTokens \in SUBSET Tokens
  BY LocalsFields
<1>2. 0 \in Nat /\ 0 \in 0 .. MaxPages  BY BoundsAssumption
<1>3. CASE SkipUrl \/ NoPages \/ Compare
  BY <1>1, <1>2, <1>3, ReturnLocals DEF SkipUrl, NoPages, Compare, PagesLeft
<1>4. CASE GlobalToken \/ PageToken
  BY <1>4, HaveTokenLocals DEF GlobalToken, PageToken, PagesLeft
<1>5. CASE RetryGlobalToken \/ RetryPageToken \/ RetryPage
  BY <1>5, TryAgainLocals DEF RetryGlobalToken, RetryPageToken, RetryPage, PagesLeft
<1>6. CASE Variables \/ NextPage
  <2>1. GlobalTokens \in SUBSET Tokens /\ PageTokens \in SUBSET Tokens
    BY DEF GlobalTokens, PageTokens, Configuration
  <2>2. CASE Variables  BY <2>1, <2>2 DEF Variables, Continue, Goto, Locals, PagesLeft
  <2>3. CASE NextPage
    BY <2>1, <2>3, BoundsAssumption DEF NextPage, Continue, Goto, Locals, PagesLeft
  <2>. QED  BY <1>6, <2>2, <2>3
<1>7. CASE FirstPage  BY <1>7 DEF FirstPage, Continue, Goto, Locals, PagesLeft
<1>8. CASE Request \/ PageIsSkip \/ PagesEnd
  BY <1>8 DEF Request, PageIsSkip, PagesEnd, Continue, Goto, PagesLeft
<1>9. CASE NoPage \/ AcceptPage
  <2>1. local.pages - 1 \in Nat /\ local.visited + 1 \in 0 .. MaxPages
    BY <1>1, <1>9, BoundsAssumption DEF NoPage, AcceptPage, Continue, Goto, PagesLeft
  <2>2. CASE NoPage
    <3>1. local' = [local EXCEPT !.pages = local.pages - 1, !.visited = local.visited + 1, !.tries = 0,
                                 !.values = local.values \ PageTokens]
      BY <2>2 DEF NoPage
    <3>2. local' \in Locals  BY <1>1, <1>2, <2>1, <3>1, LocalsUpdated, LocalsAre
    <3>. QED  BY <2>2, <3>2 DEF NoPage, Continue, Goto, PagesLeft
  <2>3. CASE AcceptPage
    <3>1. local' = [local EXCEPT !.pages = local.pages - 1, !.visited = local.visited + 1]
      BY <2>3 DEF AcceptPage
    <3>2. local' \in Locals  BY <2>1, <3>1, LocalsUpdated, LocalsAre
    <3>. QED  BY <2>3, <3>2 DEF AcceptPage, Continue, Goto, PagesLeft
  <2>. QED  BY <1>9, <2>2, <2>3
<1>10. CASE HasPage
  <2>1. local' = [local EXCEPT !.tries = 0] /\ pc = "request"  BY <1>10 DEF HasPage, Continue, Goto
  <2>2. local' \in Locals  BY <1>2, <2>1, LocalsUpdated, LocalsAre
  <2>. QED  BY <2>1, <2>2 DEF Locals, PagesLeft
<1>11. CASE PageIsRetry  BY <1>11 DEF PageIsRetry, Continue, Goto, Locals, PagesLeft
<1>12. CASE PageNumbers
  <2>1. PICK total \in IF cfg.numberFrom THEN 1 .. MaxPages ELSE {0},
             expecting \in IF cfg.expectedFrom THEN BOOLEAN ELSE {FALSE} :
          \E expected \in IF expecting THEN 0 .. Cardinality(DataIds) ELSE {0} :
            local' = [local EXCEPT !.first = FALSE, !.total = total,
                                   !.expecting = expecting, !.expected = expected]
    BY <1>12 DEF PageNumbers
  <2>2. PICK expected \in IF expecting THEN 0 .. Cardinality(DataIds) ELSE {0} :
          local' = [local EXCEPT !.first = FALSE, !.total = total,
                                 !.expecting = expecting, !.expected = expected]
    BY <2>1
  <2>3. total \in Nat /\ expected \in Nat
    BY BoundsAssumption
  <2>4. expecting \in BOOLEAN  OBVIOUS
  <2>5. PICK no \in BOOLEAN : no = FALSE  OBVIOUS
  <2>6. local' = [local EXCEPT !.first = no, !.total = total, !.expecting = expecting,
                               !.expected = expected]
    BY <2>2, <2>5
  <2>7. local' \in Locals  BY <2>3, <2>4, <2>6, PageNumbersLocals, Zenon
  <2>. QED  BY <1>12, <2>7 DEF PageNumbers, Continue, Goto, PagesLeft
<1>13. CASE LastPage \/ AddPages
  <2>1. PICK n : n = IF local.total > 0 THEN local.counter + 1 ELSE local.counter  OBVIOUS
  <2>2. n \in Nat  BY <1>1, <2>1
  <2>3. CASE LastPage
    <3>1. local' = [local EXCEPT !.counter = n]  BY <2>1, <2>3 DEF LastPage
    <3>2. local' \in Locals  BY <2>2, <3>1 DEF Locals
    <3>. QED  BY <2>3, <3>2 DEF LastPage, Continue, Goto, PagesLeft
  <2>4. CASE AddPages
    <3>1. PICK k \in More :
            local' = [local EXCEPT !.counter = n, !.pages = local.pages + k,
                                   !.values = local.values \ PageTokens]
      BY <2>1, <2>4 DEF AddPages
    <3>2. k \in Nat
      <4>1. cfg.nextFrom \in {"none", "single", "multi"}  BY DEF Configuration
      <4>. QED  BY <3>1, <4>1 DEF More
    <3>3. local.pages + k \in Nat  BY <1>1, <3>2
    <3>4. local' \in Locals  BY <1>1, <2>2, <3>1, <3>3, LocalsUpdated, LocalsAre
    <3>. QED  BY <2>4, <3>4 DEF AddPages, Continue, Goto, PagesLeft
  <2>. QED  BY <1>13, <2>3, <2>4
<1>14. QED
  BY <1>3, <1>4, <1>5, <1>6, <1>7, <1>8, <1>9, <1>10, <1>11, <1>12, <1>13 DEF LookingActions

\* Every other step keeps the types.
LEMMA TypeStep ==
  ASSUME TypeOK, PagesLeft, CachesFit, CallersFit, OtherSteps
  PROVE  TypeOK' /\ PagesLeft'
<1>1. CASE Loop
  BY <1>1, NoLocalsFit DEF Loop, Begin, Goto, Thread, database, memory, history, TypeOK, PagesLeft,
      ControlStates, Returns, Datasets, Urls, CachesFit, Attempting, AttemptStates
<1>2. CASE Pause
  BY <1>2, NoLocalsFit DEF Pause, Begin, Goto, Thread, database, memory, history, TypeOK, PagesLeft,
      ControlStates, Returns, Datasets, Urls, CachesFit, Attempting, AttemptStates
<1>3. CASE Reset
  BY <1>3, NoLocalsFit DEF Reset, Begin, Goto, Thread, database, memory, history, TypeOK, PagesLeft,
      ControlStates, Returns, Datasets, Urls, CachesFit, Attempting, AttemptStates
<1>4. CASE Clear
  BY <1>4, NoLocalsFit DEF Clear, Begin, Goto, Thread, database, memory, history, TypeOK, PagesLeft,
      ControlStates, Returns, Datasets, Urls, CachesFit, Attempting, AttemptStates
<1>5. CASE TickWarped
  BY <1>5, NoLocalsFit DEF TickWarped, Begin, Goto, Thread, database, memory, history, TypeOK,
      PagesLeft, ControlStates, Returns, Datasets, Urls, CachesFit, Attempting, AttemptStates
<1>6. CASE Tick
  BY <1>6, NoLocalsFit DEF Tick, Begin, Goto, Thread, database, memory, history, TypeOK, PagesLeft,
      ControlStates, Returns, Datasets, Urls, CachesFit, Attempting, AttemptStates
<1>7. CASE FetchUrls
  <2>1. PICK n \in 0 .. CacheSize : urls' \in [1 .. n -> Fetchable]  BY <1>7 DEF FetchUrls
  <2>2. Fetchable \subseteq Urls
    <3>1. cfg.listed \in Urls  BY ConfigurationsAssumption DEF TypeOK, Configuration
    <3>. QED  BY <3>1, BoundsAssumption DEF Fetchable, Urls
  <2>3. urls' \in Seq(Urls)
    <3>1. urls' \in [1 .. n -> Urls]  BY <2>1, <2>2
    <3>2. n \in Nat  BY BoundsAssumption
    <3>. QED  BY <3>1, <3>2, SeqDef
  <2>4. pc' \in ControlStates /\ pc' \notin {"pageTokens", "request", "page"}
    BY <1>7 DEF FetchUrls, Goto, ControlStates
  <2>5. UNCHANGED <<cfg, database, last, running, after, memory, local, seen, links, partial, lost>>
        /\ left' = {}
    BY <1>7 DEF FetchUrls
  <2>. QED  BY <2>3, <2>4, <2>5 DEF TypeOK, PagesLeft, database, memory
<1>8. CASE TickEnd
  BY <1>8, NoLocalsFit DEF TickEnd, Begin, Goto, Thread, database, memory, history, TypeOK,
      PagesLeft, ControlStates, Returns, Datasets, Urls, CachesFit, Attempting, AttemptStates
<1>9. CASE Locked
  BY <1>9, NoLocalsFit DEF Locked, UrlFinished, Goto, Thread, database, memory, history, TypeOK,
      PagesLeft, ControlStates, Returns, Datasets, Urls, CachesFit, Attempting, AttemptStates
<1>10. CASE Renew
  <2>1. local' = NoLocals  BY <1>10 DEF Renew, Goto, Thread, database, memory, history
  <2>2. local' \in Locals /\ PagesLeft'
    <3>1. pc' \notin {"pageTokens", "request", "page"}
      BY <1>10 DEF Renew, Goto, Thread, database, memory, history
    <3>. QED  BY <2>1, <3>1, NoLocalsFit DEF PagesLeft
  <2>3. pc' \in ControlStates /\ after' \in Returns
    BY <1>10 DEF Renew, ControlStates, Returns, Goto, Thread, database, memory, history, TypeOK
  <2>4. urls' \in Seq(Urls) /\ last' \in 0 .. MaxUrl /\ lastUrl' \in 0 .. MaxUrl
    BY <1>10 DEF Renew, Goto, Thread, database, memory, history, TypeOK
  <2>5. (results \cup seen \cup links \cup lost)' \subseteq Datasets
    BY <1>10 DEF Renew, Goto, Thread, database, memory, history, TypeOK
  <2>6. (finished \cup partial \cup left)' \subseteq Urls
    BY <1>10 DEF Renew, Goto, Thread, database, memory, history, TypeOK, Url, Range, CachesFit,
        Attempting, AttemptStates
  <2>7. linkedIndex' \in 0 .. NumFields
    BY <1>10 DEF Renew, Goto, Thread, database, memory, history, TypeOK
  <2>. QED  BY <1>10, <2>2, <2>3, <2>4, <2>5, <2>6, <2>7 DEF Renew, Goto, Thread, database, memory,
      history, TypeOK
<1>11. CASE PageFails
  <2>1. local' = NoLocals  BY <1>11 DEF PageFails, Goto, Thread, database, memory, history, Throw
  <2>2. local' \in Locals /\ PagesLeft'
    <3>1. pc' \notin {"pageTokens", "request", "page"}
      BY <1>11 DEF PageFails, Goto, Thread, database, memory, history, Throw
    <3>. QED  BY <2>1, <3>1, NoLocalsFit DEF PagesLeft
  <2>3. pc' \in ControlStates /\ after' \in Returns
    BY <1>11 DEF PageFails, ControlStates, Returns, Goto, Thread, database, memory, history, Throw,
        TypeOK
  <2>4. urls' \in Seq(Urls) /\ last' \in 0 .. MaxUrl /\ lastUrl' \in 0 .. MaxUrl
    BY <1>11 DEF PageFails, Goto, Thread, database, memory, history, Throw, TypeOK
  <2>5. (results \cup seen \cup links \cup lost)' \subseteq Datasets
    BY <1>11 DEF PageFails, Goto, Thread, database, memory, history, Throw, TypeOK
  <2>6. (finished \cup partial \cup left)' \subseteq Urls
    BY <1>11 DEF PageFails, Goto, Thread, database, memory, history, Throw, TypeOK, Url, Range,
        CachesFit, Attempting, AttemptStates
  <2>7. linkedIndex' \in 0 .. NumFields
    BY <1>11 DEF PageFails, Goto, Thread, database, memory, history, Throw, TypeOK
  <2>. QED  BY <1>11, <2>2, <2>3, <2>4, <2>5, <2>6, <2>7 DEF PageFails, Goto, Thread, database,
      memory, history, Throw, TypeOK
<1>12. CASE CompareFails
  <2>1. local' = NoLocals  BY <1>12 DEF CompareFails, Goto, Thread, database, memory, history, Throw
  <2>2. local' \in Locals /\ PagesLeft'
    <3>1. pc' \notin {"pageTokens", "request", "page"}
      BY <1>12 DEF CompareFails, Goto, Thread, database, memory, history, Throw
    <3>. QED  BY <2>1, <3>1, NoLocalsFit DEF PagesLeft
  <2>3. pc' \in ControlStates /\ after' \in Returns
    BY <1>12 DEF CompareFails, ControlStates, Returns, Goto, Thread, database, memory, history,
        Throw, TypeOK
  <2>4. urls' \in Seq(Urls) /\ last' \in 0 .. MaxUrl /\ lastUrl' \in 0 .. MaxUrl
    BY <1>12 DEF CompareFails, Goto, Thread, database, memory, history, Throw, TypeOK
  <2>5. (results \cup seen \cup links \cup lost)' \subseteq Datasets
    BY <1>12 DEF CompareFails, Goto, Thread, database, memory, history, Throw, TypeOK
  <2>6. (finished \cup partial \cup left)' \subseteq Urls
    BY <1>12 DEF CompareFails, Goto, Thread, database, memory, history, Throw, TypeOK, Url, Range,
        CachesFit, Attempting, AttemptStates
  <2>7. linkedIndex' \in 0 .. NumFields
    BY <1>12 DEF CompareFails, Goto, Thread, database, memory, history, Throw, TypeOK
  <2>. QED  BY <1>12, <2>2, <2>3, <2>4, <2>5, <2>6, <2>7 DEF CompareFails, Goto, Thread, database,
      memory, history, Throw, TypeOK
<1>13. CASE UrlDone
  <2>1. local' = NoLocals
    BY <1>13 DEF UrlDone, Goto, Thread, database, memory, history, UrlFinished
  <2>2. local' \in Locals /\ PagesLeft'
    <3>1. pc' \notin {"pageTokens", "request", "page"}
      BY <1>13 DEF UrlDone, Goto, Thread, database, memory, history, UrlFinished
    <3>. QED  BY <2>1, <3>1, NoLocalsFit DEF PagesLeft
  <2>3. pc' \in ControlStates /\ after' \in Returns
    BY <1>13 DEF UrlDone, ControlStates, Returns, Goto, Thread, database, memory, history,
        UrlFinished, TypeOK
  <2>4. urls' \in Seq(Urls) /\ last' \in 0 .. MaxUrl /\ lastUrl' \in 0 .. MaxUrl
    BY <1>13 DEF UrlDone, Goto, Thread, database, memory, history, UrlFinished, TypeOK
  <2>5. (results \cup seen \cup links \cup lost)' \subseteq Datasets
    BY <1>13 DEF UrlDone, Goto, Thread, database, memory, history, UrlFinished, TypeOK
  <2>6. (finished \cup partial \cup left)' \subseteq Urls
    BY <1>13 DEF UrlDone, Goto, Thread, database, memory, history, UrlFinished, TypeOK, Url, Range,
        CachesFit, Attempting, AttemptStates
  <2>7. linkedIndex' \in 0 .. NumFields
    BY <1>13 DEF UrlDone, Goto, Thread, database, memory, history, UrlFinished, TypeOK
  <2>. QED  BY <1>13, <2>2, <2>3, <2>4, <2>5, <2>6, <2>7 DEF UrlDone, Goto, Thread, database,
      memory, history, UrlFinished, TypeOK
<1>14. CASE Pop
  <2>1. urls # <<>> /\ urls \in Seq(Urls)  BY <1>14 DEF Pop, Goto, CachesFit, TypeOK
  <2>2. Tail(urls) \in Seq(Urls) /\ Head(urls) \in 0 .. MaxUrl
    BY <2>1, TailFacts, BoundsAssumption DEF Urls
  <2>3. pc' = "ticked" /\ lastUrl' = Head(urls) /\ urls' = Tail(urls)  BY <1>14 DEF Pop, Goto, Url
  <2>. QED  BY <1>14, <2>2, <2>3 DEF Pop, TypeOK, PagesLeft, ControlStates, database, history
<1>15. CASE SaveLinked
  BY <1>15, NoLocalsFit DEF SaveLinked, Goto, Thread, database, memory, history, TypeOK, PagesLeft,
      ControlStates, Returns, Datasets, Urls, CachesFit, Attempting, AttemptStates
<1>16. CASE SaveNothing
  <2>1. SaveReturns("save")  BY <1>16 DEF SaveNothing
  <2>2. /\ pc = "save"
        /\ \/ after = "pause" /\ pc' = "loop"
           \/ after = "ticked" /\ pc' = "pop"
           \/ after \in {"warp", "reset", "clear"} /\ pc' = "unlockAll"
    BY <2>1, SaveReturnsTo DEF TypeOK
  <2>. QED  BY <1>16, <2>2, NoLocalsFit DEF SaveNothing, Goto, Thread, database, memory, history,
      TypeOK, PagesLeft, ControlStates, Returns, Datasets, Urls, CachesFit, Attempting,
      AttemptStates
<1>17. CASE Save
  BY <1>17, NoLocalsFit DEF Save, Link, Goto, Thread, database, memory, history, TypeOK, PagesLeft,
      ControlStates, Returns, Datasets, Urls, CachesFit, Attempting, AttemptStates
<1>18. CASE NoField
  <2>1. Thrown("save")  BY <1>18 DEF NoField
  <2>2. /\ pc = "save" /\ after' = "ticked"
        /\ \/ after \in {"ticked", "warp"} /\ pc' = "ticked"
           \/ after \in {"pause", "reset", "clear"} /\ pc' \in {"loop", "exited"}
    BY <2>1, ThrownTo DEF TypeOK
  <2>. QED  BY <1>18, <2>2, NoLocalsFit DEF NoField, Goto, Thread, database, memory, history,
      TypeOK, PagesLeft, ControlStates, Returns, Datasets, Urls, CachesFit, Attempting,
      AttemptStates
<1>19. CASE SaveLinkedFails
  <2>1. Thrown("saveLinked")  BY <1>19 DEF SaveLinkedFails
  <2>2. /\ pc = "saveLinked" /\ after' = "ticked"
        /\ \/ after \in {"ticked", "warp"} /\ pc' = "ticked"
           \/ after \in {"pause", "reset", "clear"} /\ pc' \in {"loop", "exited"}
    BY <2>1, ThrownTo DEF TypeOK
  <2>. QED  BY <1>19, <2>2, NoLocalsFit DEF SaveLinkedFails, Goto, Thread, database, memory,
      history, TypeOK, PagesLeft, ControlStates, Returns, Datasets, Urls, CachesFit, Attempting,
      AttemptStates
<1>20. CASE SaveFails
  <2>1. Thrown("save")  BY <1>20 DEF SaveFails
  <2>2. /\ pc = "save" /\ after' = "ticked"
        /\ \/ after \in {"ticked", "warp"} /\ pc' = "ticked"
           \/ after \in {"pause", "reset", "clear"} /\ pc' \in {"loop", "exited"}
    BY <2>1, ThrownTo DEF TypeOK
  <2>. QED  BY <1>20, <2>2, NoLocalsFit DEF SaveFails, Goto, Thread, database, memory, history,
      TypeOK, PagesLeft, ControlStates, Returns, Datasets, Urls, CachesFit, Attempting,
      AttemptStates
<1>21. CASE SetLast
  BY <1>21, NoLocalsFit DEF SetLast, Goto, Thread, database, memory, history, TypeOK, PagesLeft,
      ControlStates, Returns, Datasets, Urls, CachesFit, Attempting, AttemptStates
<1>22. CASE FinishEnd
  <2>1. SaveReturns("finishing")  BY <1>22 DEF FinishEnd
  <2>2. /\ pc = "finishing"
        /\ \/ after = "pause" /\ pc' = "loop"
           \/ after = "ticked" /\ pc' = "pop"
           \/ after \in {"warp", "reset", "clear"} /\ pc' = "unlockAll"
    BY <2>1, SaveReturnsTo DEF TypeOK
  <2>. QED  BY <1>22, <2>2, NoLocalsFit DEF FinishEnd, Goto, Thread, database, memory, history,
      TypeOK, PagesLeft, ControlStates, Returns, Datasets, Urls, CachesFit, Attempting,
      AttemptStates
<1>23. CASE UnlockAll
  <2>1. after \in {"warp", "reset", "clear"}  BY <1>23 DEF UnlockAll, Goto, CallersFit
  <2>2. /\ pc' \in {"fetch", "tick", "exited"}
        /\ linkedIndex' = IF after = "reset" THEN NextLinkedIndex ELSE linkedIndex
    BY <1>23, <2>1, UnlockAllTo
  <2>3. linkedIndex' \in 0 .. NumFields
    <3>1. cfg.linkedField \in 0 .. NumFields - 1
      BY ConfigurationsAssumption DEF TypeOK, Configuration
    <3>2. linkedIndex \in 0 .. NumFields  BY DEF TypeOK
    <3>. QED  BY <2>2, <3>1, <3>2, BoundsAssumption DEF NextLinkedIndex
  <2>. QED  BY <1>23, <2>2, <2>3 DEF UnlockAll, TypeOK, PagesLeft, ControlStates, Returns, database,
      history
<1>24. CASE Stop
  BY <1>24, NoLocalsFit DEF Stop, Goto, Thread, database, memory, history, TypeOK, PagesLeft,
      ControlStates, Returns, Datasets, Urls, CachesFit, Attempting, AttemptStates
<1>25. CASE NewThread
  <2>1. local' = NoLocals
    BY <1>25 DEF NewThread, Goto, Thread, database, memory, history, Initialized
  <2>2. local' \in Locals /\ PagesLeft'
    <3>1. pc' \notin {"pageTokens", "request", "page"}
      BY <1>25 DEF NewThread, Goto, Thread, database, memory, history, Initialized
    <3>. QED  BY <2>1, <3>1, NoLocalsFit DEF PagesLeft
  <2>3. pc' \in ControlStates /\ after' \in Returns
    BY <1>25 DEF NewThread, ControlStates, Returns, Goto, Thread, database, memory, history,
        Initialized, TypeOK
  <2>4. urls' \in Seq(Urls) /\ last' \in 0 .. MaxUrl /\ lastUrl' \in 0 .. MaxUrl
    BY <1>25, BoundsAssumption DEF NewThread, Goto, Thread, database, memory, history, Initialized,
        TypeOK
  <2>5. (results \cup seen \cup links \cup lost)' \subseteq Datasets
    BY <1>25 DEF NewThread, Goto, Thread, database, memory, history, Initialized, TypeOK
  <2>6. (finished \cup partial \cup left)' \subseteq Urls
    BY <1>25 DEF NewThread, Goto, Thread, database, memory, history, Initialized, TypeOK, Url,
        Range, CachesFit, Attempting, AttemptStates
  <2>7. linkedIndex' \in 0 .. NumFields
    <3>1. cfg.linkedField \in 0 .. NumFields - 1
      BY ConfigurationsAssumption DEF TypeOK, Configuration
    <3>. QED  BY <1>25, <3>1, BoundsAssumption DEF NewThread, Goto, Thread, database, memory,
        history, Initialized
  <2>. QED  BY <1>25, <2>2, <2>3, <2>4, <2>5, <2>6, <2>7 DEF NewThread, Goto, Thread, database,
      memory, history, Initialized, TypeOK
<1>26. CASE Crash
  <2>1. local' = NoLocals  BY <1>26 DEF Crash, Goto, Thread, database, memory, history, Initialized
  <2>2. local' \in Locals /\ PagesLeft'
    <3>1. pc' \notin {"pageTokens", "request", "page"}
      BY <1>26 DEF Crash, Goto, Thread, database, memory, history, Initialized
    <3>. QED  BY <2>1, <3>1, NoLocalsFit DEF PagesLeft
  <2>3. pc' \in ControlStates /\ after' \in Returns
    BY <1>26 DEF Crash, ControlStates, Returns, Goto, Thread, database, memory, history,
        Initialized, TypeOK
  <2>4. urls' \in Seq(Urls) /\ last' \in 0 .. MaxUrl /\ lastUrl' \in 0 .. MaxUrl
    BY <1>26, BoundsAssumption DEF Crash, Goto, Thread, database, memory, history, Initialized,
        TypeOK
  <2>5. (results \cup seen \cup links \cup lost)' \subseteq Datasets
    BY <1>26 DEF Crash, Goto, Thread, database, memory, history, Initialized, TypeOK
  <2>6. (finished \cup partial \cup left)' \subseteq Urls
    BY <1>26 DEF Crash, Goto, Thread, database, memory, history, Initialized, TypeOK, Url, Range,
        CachesFit, Attempting, AttemptStates
  <2>7. linkedIndex' \in 0 .. NumFields
    <3>1. cfg.linkedField \in 0 .. NumFields - 1
      BY ConfigurationsAssumption DEF TypeOK, Configuration
    <3>. QED  BY <1>26, <3>1, BoundsAssumption DEF Crash, Goto, Thread, database, memory, history,
        Initialized
  <2>. QED  BY <1>26, <2>2, <2>3, <2>4, <2>5, <2>6, <2>7 DEF Crash, Goto, Thread, database, memory,
      history, Initialized, TypeOK
<1>27. ASSUME NEW found \in SUBSET DataIds, ExtractPage(found) PROVE TypeOK' /\ PagesLeft'
  <2>1. Url \in Urls
    BY <1>27, TailFacts DEF ExtractPage, Goto, CachesFit, Attempting, AttemptStates, Url, TypeOK
  <2>2. NewIds(found) \subseteq DataIds /\ Cardinality(NewIds(found)) \in Nat
    <3>1. NewIds(found) \subseteq DataIds  BY DEF NewIds
    <3>2. IsFiniteSet(NewIds(found))  BY <3>1, BoundsAssumption, FS_Subset
    <3>. QED  BY <3>1, <3>2, FS_CardinalityType
  <2>3. PICK n : n = local.extracted + Cardinality(NewIds(found))  OBVIOUS
  <2>4. local' \in Locals
    <3>1. n \in Nat  BY <2>2, <2>3, LocalsFields DEF TypeOK
    <3>2. local' = [local EXCEPT !.extracted = n]  BY <1>27, <2>3 DEF ExtractPage
    <3>. QED  BY <3>1, <3>2 DEF TypeOK, Locals
  <2>5. (results \cup seen \cup links \cup lost)' \subseteq Datasets
    BY <1>27, <2>1, <2>2 DEF ExtractPage, TypeOK, Datasets
  <2>6. (linkedTarget \cup linked \cup ids)' \subseteq DataIds
    BY <1>27 DEF ExtractPage, TypeOK, Thread, database
  <2>7. pc' = "linked"  BY <1>27 DEF ExtractPage, Goto
  <2>. QED  BY <1>27, <2>4, <2>5, <2>6, <2>7 DEF ExtractPage, TypeOK, PagesLeft, ControlStates,
      Thread, database
<1>28. ASSUME NEW found \in SUBSET DataIds, ExtractLinked(found) PROVE TypeOK' /\ PagesLeft'
  BY <1>28, NoLocalsFit DEF ExtractLinked, Goto, Thread, database, memory, history, TypeOK,
      PagesLeft, ControlStates, Returns, Datasets, Urls, CachesFit, Attempting, AttemptStates
<1>29. ASSUME NEW u \in Urls, FinishUrl(u) PROVE TypeOK' /\ PagesLeft'
  BY <1>29, NoLocalsFit DEF FinishUrl, Goto, Thread, database, memory, history, TypeOK, PagesLeft,
      ControlStates, Returns, Datasets, Urls, CachesFit, Attempting, AttemptStates
<1>30. ASSUME NEW id \in 1 .. cfg.listed, Warp(id) PROVE TypeOK' /\ PagesLeft'
  <2>1. id \in 0 .. MaxUrl
    <3>1. cfg.listed \in Urls  BY ConfigurationsAssumption DEF TypeOK, Configuration
    <3>. QED  BY <3>1, BoundsAssumption DEF Urls
  <2>2. pc' = "loop" /\ last' = id /\ warped' \in BOOLEAN  BY <1>30 DEF Warp, Goto
  <2>. QED  BY <1>30, <2>1, <2>2 DEF Warp, TypeOK, PagesLeft, ControlStates, database, history
<1>31. CASE UNCHANGED vars
  BY <1>31, NoLocalsFit DEF vars, Goto, Thread, database, memory, history, TypeOK, PagesLeft,
      ControlStates, Returns, Datasets, Urls, CachesFit, Attempting, AttemptStates
<1>32. QED  BY <1>1, <1>2, <1>3, <1>4, <1>5, <1>6, <1>7, <1>8, <1>9, <1>10, <1>11, <1>12, <1>13,
      <1>14, <1>15, <1>16, <1>17, <1>18, <1>19, <1>20, <1>21, <1>22, <1>23, <1>24, <1>25, <1>26,
      <1>27, <1>28, <1>29, <1>30, <1>31 DEF OtherSteps

\* Every other step keeps what has been seen: a dataset moves from the results to the
\* table, or is lost, and its link is set if its linked data has been saved.
LEMMA CompleteStep ==
  ASSUME TypeOK, CachesFit, CallersFit, FirstFieldStays, Complete, OtherSteps
  PROVE  Complete'
<1> USE DEF Goto, Thread, database, memory, history, Complete, AttemptIsKept, DoneIsKept, Done,
      Kept, IsLinked, InTable, Attempting, AttemptStates, Url, CachesFit, TypeOK, Datasets
<1>1. CASE Loop
  BY <1>1 DEF Loop, Begin
<1>2. CASE Pause
  BY <1>2 DEF Pause, Begin
<1>3. CASE Reset
  BY <1>3 DEF Reset, Begin
<1>4. CASE Clear
  BY <1>4 DEF Clear, Begin
<1>5. CASE TickWarped
  BY <1>5 DEF TickWarped, Begin
<1>6. CASE Tick
  BY <1>6 DEF Tick, Begin
<1>7. CASE FetchUrls
  BY <1>7 DEF FetchUrls, AreNext, Fetchable
<1>8. CASE TickEnd
  BY <1>8 DEF TickEnd, Begin
<1>9. CASE Locked
  BY <1>9 DEF Locked, UrlFinished
<1>10. CASE Renew
  BY <1>10 DEF Renew
<1>11. CASE PageFails
  BY <1>11 DEF PageFails, Throw, Range
<1>12. CASE CompareFails
  BY <1>12 DEF CompareFails, Throw, Unexpected, Range
<1>13. CASE UrlDone
  BY <1>13 DEF UrlDone, UrlFinished
<1>14. CASE Pop
  BY <1>14 DEF Pop
<1>15. CASE SaveLinked
  BY <1>15 DEF SaveLinked
<1>16. CASE SaveNothing
  <2>1. SaveReturns("save")  BY <1>16 DEF SaveNothing
  <2>2. /\ pc = "save"
        /\ \/ after = "pause" /\ pc' = "loop"
           \/ after = "ticked" /\ pc' = "pop"
           \/ after \in {"warp", "reset", "clear"} /\ pc' = "unlockAll"
    BY <2>1, SaveReturnsTo DEF TypeOK
  <2>. QED  BY <1>16, <2>2 DEF SaveNothing
<1>17. CASE Save
  <2>1. /\ linked = {} /\ results' = {} /\ pc' = "setLast" /\ ~Attempting'
        /\ UNCHANGED <<success, finished, partial, seen, links, lost, linked, linkedTarget, cfg>>
    BY <1>17 DEF Save, Goto, CachesFit, SaveStates, Attempting, AttemptStates, history
  <2>2. target' = {r \in target : [url |-> r.url, id |-> r.id] \notin results}
                  \cup {[url |-> d.url, id |-> d.id, link |-> Link(d)] : d \in results}
    BY <1>17 DEF Save
  <2>3. ASSUME NEW x \in Datasets PROVE x = [url |-> x.url, id |-> x.id]
    BY <2>3 DEF Datasets
  <2>4. ASSUME NEW x \in Datasets, Kept(x) PROVE Kept(x)'
    <3>1. CASE x \in lost  BY <2>1, <3>1 DEF Kept
    <3>2. CASE x \in results
      <4>1. [url |-> x.url, id |-> x.id, link |-> Link(x)] \in target'  BY <2>2, <3>2
      <4>. QED  BY <4>1 DEF Kept, InTable
    <3>3. CASE x \notin results /\ InTable(x)
      <4>1. PICK r \in target : r.url = x.url /\ r.id = x.id  BY <3>3 DEF InTable
      <4>2. r \in target'  BY <2>2, <2>3, <3>3, <4>1
      <4>. QED  BY <4>1, <4>2 DEF Kept, InTable
    <3>. QED  BY <2>4, <3>1, <3>2, <3>3 DEF Kept
  <2>5. ASSUME NEW x \in Datasets, IsLinked(x), cfg.linkedField = 0 PROVE IsLinked(x)'
    <3>1. CASE x \in lost  BY <2>1, <3>1 DEF IsLinked
    <3>2. CASE x \notin lost
      <4>1. ASSUME NEW r \in target', r.url = x.url, r.id = x.id PROVE r.link
        <5>1. CASE x \in results
          <6>1. [url |-> r.url, id |-> r.id] \in results  BY <2>3, <4>1, <5>1
          <6>2. PICK d \in results : r = [url |-> d.url, id |-> d.id, link |-> Link(d)]
            BY <2>2, <4>1, <6>1
          <6>3. d.id \in linkedTarget  BY <2>1, <2>5, <3>2, <4>1, <5>1, <6>2 DEF IsLinked
          <6>4. Link(d)  BY <2>5, <6>3 DEF Link, FirstFieldStays
          <6>. QED  BY <6>2, <6>4
        <5>2. CASE x \notin results
          <6>1. ~\E d \in results : r = [url |-> d.url, id |-> d.id, link |-> Link(d)]
            <7>. SUFFICES ASSUME NEW d \in results, r = [url |-> d.url, id |-> d.id, link |-> Link(d)]
                         PROVE FALSE
              OBVIOUS
            <7>1. r.url = d.url /\ r.id = d.id  OBVIOUS
            <7>2. d \in Datasets  BY DEF TypeOK
            <7>3. d = x  BY <2>3, <4>1, <7>1, <7>2
            <7>. QED  BY <5>2, <7>3
          <6>2. r \in target  BY <2>2, <6>1
          <6>. QED  BY <2>5, <3>2, <4>1, <5>2, <6>2 DEF IsLinked
        <5>. QED  BY <5>1, <5>2
      <4>. QED  BY <2>1, <4>1 DEF IsLinked
    <3>. QED  BY <3>1, <3>2
  <2>6. seen \subseteq Datasets /\ links \subseteq Datasets  BY DEF TypeOK
  <2>7. Done' = Done  BY <2>1 DEF Done
  <2>8. \A x \in seen' : x.url \in Done' => Kept(x)'
    BY <2>1, <2>4, <2>6, <2>7 DEF Complete, DoneIsKept
  <2>9. cfg'.linkedField = 0 => \A x \in links' : x.url \in Done' => IsLinked(x)'
    BY <2>1, <2>5, <2>6, <2>7 DEF Complete, DoneIsKept
  <2>. QED  BY <2>1, <2>8, <2>9 DEF Complete, DoneIsKept, AttemptIsKept
<1>18. CASE NoField
  <2>1. Thrown("save")  BY <1>18 DEF NoField
  <2>2. /\ pc = "save" /\ after' = "ticked"
        /\ \/ after \in {"ticked", "warp"} /\ pc' = "ticked"
           \/ after \in {"pause", "reset", "clear"} /\ pc' \in {"loop", "exited"}
    BY <2>1, ThrownTo DEF TypeOK
  <2>. QED  BY <1>18, <2>2 DEF NoField
<1>19. CASE SaveLinkedFails
  <2>1. Thrown("saveLinked")  BY <1>19 DEF SaveLinkedFails
  <2>2. /\ pc = "saveLinked" /\ after' = "ticked"
        /\ \/ after \in {"ticked", "warp"} /\ pc' = "ticked"
           \/ after \in {"pause", "reset", "clear"} /\ pc' \in {"loop", "exited"}
    BY <2>1, ThrownTo DEF TypeOK
  <2>. QED  BY <1>19, <2>2 DEF SaveLinkedFails
<1>20. CASE SaveFails
  <2>1. Thrown("save")  BY <1>20 DEF SaveFails
  <2>2. /\ pc = "save" /\ after' = "ticked"
        /\ \/ after \in {"ticked", "warp"} /\ pc' = "ticked"
           \/ after \in {"pause", "reset", "clear"} /\ pc' \in {"loop", "exited"}
    BY <2>1, ThrownTo DEF TypeOK
  <2>. QED  BY <1>20, <2>2 DEF SaveFails
<1>21. CASE SetLast
  BY <1>21 DEF SetLast
<1>22. CASE FinishEnd
  <2>1. SaveReturns("finishing")  BY <1>22 DEF FinishEnd
  <2>2. /\ pc = "finishing"
        /\ \/ after = "pause" /\ pc' = "loop"
           \/ after = "ticked" /\ pc' = "pop"
           \/ after \in {"warp", "reset", "clear"} /\ pc' = "unlockAll"
    BY <2>1, SaveReturnsTo DEF TypeOK
  <2>. QED  BY <1>22, <2>2 DEF FinishEnd
<1>23. CASE UnlockAll
  <2>1. after \in {"warp", "reset", "clear"}  BY <1>23 DEF UnlockAll, Goto, CallersFit
  <2>2. /\ pc = "unlockAll"
        /\ pc' = IF after = "warp" THEN "fetch" ELSE IF after = "reset" THEN "tick" ELSE "exited"
    BY <1>23, <2>1, UnlockAllTo
  <2>. QED  BY <1>23, <2>1, <2>2 DEF UnlockAll, NextLinkedIndex
<1>24. CASE Stop
  BY <1>24 DEF Stop
<1>25. CASE NewThread
  BY <1>25 DEF NewThread, Initialized
<1>26. CASE Crash
  BY <1>26 DEF Crash, Initialized
<1>27. ASSUME NEW found \in SUBSET DataIds, ExtractPage(found) PROVE Complete'
  BY <1>27 DEF ExtractPage, NewIds
<1>28. ASSUME NEW found \in SUBSET DataIds, ExtractLinked(found) PROVE Complete'
  BY <1>28 DEF ExtractLinked
<1>29. ASSUME NEW u \in Urls, FinishUrl(u) PROVE Complete'
  BY <1>29 DEF FinishUrl
<1>30. ASSUME NEW id \in 1 .. cfg.listed, Warp(id) PROVE Complete'
  BY <1>30 DEF Warp
<1>31. CASE UNCHANGED vars
  BY <1>31 DEF vars
<1>32. QED  BY <1>1, <1>2, <1>3, <1>4, <1>5, <1>6, <1>7, <1>8, <1>9, <1>10, <1>11, <1>12, <1>13,
      <1>14, <1>15, <1>16, <1>17, <1>18, <1>19, <1>20, <1>21, <1>22, <1>23, <1>24, <1>25, <1>26,
      <1>27, <1>28, <1>29, <1>30, <1>31 DEF OtherSteps

\* Every other step keeps the cache, and unsaved results, ahead of the last ID.
LEMMA OrderStep ==
  ASSUME TypeOK, CachesFit, CallersFit, Ordered, OtherSteps
  PROVE  Ordered'
<1> USE BoundsAssumption DEF Goto, Thread, database, memory, history, Ordered, Ascending,
      CacheIsAhead, CacheIsNew, ResultsAreAhead, Exempt, Settled, IsSaving, SaveStates, LoopStates,
      CachesFit, CallersFit, Attempting, AttemptStates, Url, TypeOK
<1>1. CASE Loop
  BY <1>1 DEF Loop, Begin
<1>2. CASE Pause
  BY <1>2 DEF Pause, Begin
<1>3. CASE Reset
  BY <1>3 DEF Reset, Begin
<1>4. CASE Clear
  BY <1>4 DEF Clear, Begin
<1>5. CASE TickWarped
  BY <1>5 DEF TickWarped, Begin
<1>6. CASE Tick
  BY <1>6 DEF Tick, Begin
<1>7. CASE FetchUrls
  BY <1>7 DEF FetchUrls, AreNext, Fetchable
<1>8. CASE TickEnd
  BY <1>8 DEF TickEnd, Begin
<1>9. CASE Locked
  BY <1>9 DEF Locked, UrlFinished
<1>10. CASE Renew
  BY <1>10 DEF Renew
<1>11. CASE PageFails
  BY <1>11 DEF PageFails, Throw, Range
<1>12. CASE CompareFails
  BY <1>12 DEF CompareFails, Throw, Unexpected, Range
<1>13. CASE UrlDone
  BY <1>13 DEF UrlDone, UrlFinished
<1>14. CASE Pop
  BY <1>14 DEF Pop
<1>15. CASE SaveLinked
  BY <1>15 DEF SaveLinked
<1>16. CASE SaveNothing
  <2>1. SaveReturns("save")  BY <1>16 DEF SaveNothing
  <2>2. /\ pc = "save"
        /\ \/ after = "pause" /\ pc' = "loop"
           \/ after = "ticked" /\ pc' = "pop"
           \/ after \in {"warp", "reset", "clear"} /\ pc' = "unlockAll"
    BY <2>1, SaveReturnsTo DEF TypeOK
  <2>. QED  BY <1>16, <2>2 DEF SaveNothing
<1>17. CASE Save
  BY <1>17 DEF Save, Link
<1>18. CASE NoField
  <2>1. Thrown("save")  BY <1>18 DEF NoField
  <2>2. /\ pc = "save" /\ after' = "ticked"
        /\ \/ after \in {"ticked", "warp"} /\ pc' = "ticked"
           \/ after \in {"pause", "reset", "clear"} /\ pc' \in {"loop", "exited"}
    BY <2>1, ThrownTo DEF TypeOK
  <2>. QED  BY <1>18, <2>2 DEF NoField
<1>19. CASE SaveLinkedFails
  <2>1. Thrown("saveLinked")  BY <1>19 DEF SaveLinkedFails
  <2>2. /\ pc = "saveLinked" /\ after' = "ticked"
        /\ \/ after \in {"ticked", "warp"} /\ pc' = "ticked"
           \/ after \in {"pause", "reset", "clear"} /\ pc' \in {"loop", "exited"}
    BY <2>1, ThrownTo DEF TypeOK
  <2>. QED  BY <1>19, <2>2 DEF SaveLinkedFails
<1>20. CASE SaveFails
  <2>1. Thrown("save")  BY <1>20 DEF SaveFails
  <2>2. /\ pc = "save" /\ after' = "ticked"
        /\ \/ after \in {"ticked", "warp"} /\ pc' = "ticked"
           \/ after \in {"pause", "reset", "clear"} /\ pc' \in {"loop", "exited"}
    BY <2>1, ThrownTo DEF TypeOK
  <2>. QED  BY <1>20, <2>2 DEF SaveFails
<1>21. CASE SetLast
  BY <1>21 DEF SetLast
<1>22. CASE FinishEnd
  <2>1. SaveReturns("finishing")  BY <1>22 DEF FinishEnd
  <2>2. /\ pc = "finishing"
        /\ \/ after = "pause" /\ pc' = "loop"
           \/ after = "ticked" /\ pc' = "pop"
           \/ after \in {"warp", "reset", "clear"} /\ pc' = "unlockAll"
    BY <2>1, SaveReturnsTo DEF TypeOK
  <2>. QED  BY <1>22, <2>2 DEF FinishEnd
<1>23. CASE UnlockAll
  <2>1. after \in {"warp", "reset", "clear"}  BY <1>23 DEF UnlockAll, Goto, CallersFit
  <2>2. /\ pc = "unlockAll"
        /\ pc' = IF after = "warp" THEN "fetch" ELSE IF after = "reset" THEN "tick" ELSE "exited"
    BY <1>23, <2>1, UnlockAllTo
  <2>. QED  BY <1>23, <2>1, <2>2 DEF UnlockAll, NextLinkedIndex
<1>24. CASE Stop
  BY <1>24 DEF Stop
<1>25. CASE NewThread
  BY <1>25 DEF NewThread, Initialized
<1>26. CASE Crash
  BY <1>26 DEF Crash, Initialized
<1>27. ASSUME NEW found \in SUBSET DataIds, ExtractPage(found) PROVE Ordered'
  BY <1>27 DEF ExtractPage, NewIds
<1>28. ASSUME NEW found \in SUBSET DataIds, ExtractLinked(found) PROVE Ordered'
  BY <1>28 DEF ExtractLinked
<1>29. ASSUME NEW u \in Urls, FinishUrl(u) PROVE Ordered'
  BY <1>29 DEF FinishUrl
<1>30. ASSUME NEW id \in 1 .. cfg.listed, Warp(id) PROVE Ordered'
  BY <1>30 DEF Warp
<1>31. CASE UNCHANGED vars
  BY <1>31 DEF vars
<1>32. QED  BY <1>1, <1>2, <1>3, <1>4, <1>5, <1>6, <1>7, <1>8, <1>9, <1>10, <1>11, <1>12, <1>13,
      <1>14, <1>15, <1>16, <1>17, <1>18, <1>19, <1>20, <1>21, <1>22, <1>23, <1>24, <1>25, <1>26,
      <1>27, <1>28, <1>29, <1>30, <1>31 DEF OtherSteps

\* What the current attempt looks at changes neither the caches nor the database.
LEMMA LookingStep ==
  ASSUME ExtractorInv, LookingActions
  PROVE  ExtractorInv'
<1>1. Attempting /\ pc' \in AttemptStates /\ UNCHANGED <<Thread, memory, history>>  BY LookingMoves
<1>2. local' \in Locals /\ PagesLeft'
  BY ConfigurationsAssumption, LookingLocals DEF ExtractorInv, TypeOK
<1>3. TypeOK'
  BY <1>1, <1>2 DEF ExtractorInv, TypeOK, AttemptStates, ControlStates, Thread, database, memory,
      history
<1>4. CachesFit' /\ CallersFit' /\ FirstFieldStays'
  BY <1>1 DEF ExtractorInv, CachesFit, CallersFit, FirstFieldStays, Attempting, AttemptStates,
      IsSaving,
              SaveStates, LoopStates, Thread, memory
<1>5. Complete'
  BY <1>1 DEF ExtractorInv, Complete, AttemptIsKept, DoneIsKept, Done, Kept, IsLinked, InTable,
              Attempting, Url, Thread, database, memory, history
<1>6. Ordered'
  BY <1>1 DEF ExtractorInv, Ordered, Ascending, CacheIsAhead, CacheIsNew, ResultsAreAhead, Exempt,
              Settled, Attempting, AttemptStates, IsSaving, SaveStates, LoopStates,
              Thread, database, memory, history
<1>7. QED  BY <1>2, <1>3, <1>4, <1>5, <1>6 DEF ExtractorInv

\* The initial state.
LEMMA ExtractorInit == Init => ExtractorInv
<1> SUFFICES ASSUME Init PROVE ExtractorInv
  OBVIOUS
<1>1. cfg.linkedField \in 0 .. NumFields - 1
  BY ConfigurationsAssumption DEF Init, Configuration
<1>2. TypeOK
  <2>1. linkedIndex \in 0 .. NumFields  BY <1>1, BoundsAssumption DEF Init
  <2>2. 0 \in 0 .. MaxUrl /\ <<>> \in Seq(Urls)  BY BoundsAssumption
  <2>3. local \in Locals  BY NoLocalsFit DEF Init
  <2>. QED  BY <2>1, <2>2, <2>3 DEF Init, TypeOK, ControlStates, Returns
<1>3. PagesLeft /\ CachesFit /\ CallersFit /\ FirstFieldStays
  BY DEF Init, PagesLeft, CachesFit, CallersFit, FirstFieldStays, Attempting, AttemptStates,
      IsSaving,
         SaveStates, LoopStates
<1>4. Complete /\ Ordered
  BY DEF Init, Complete, AttemptIsKept, DoneIsKept, Attempting, AttemptStates, Ordered, Ascending,
         CacheIsAhead, CacheIsNew, ResultsAreAhead
<1>5. QED  BY <1>2, <1>3, <1>4 DEF ExtractorInv

\* Every step.
LEMMA ExtractorStep == ExtractorInv /\ [Next]_vars => ExtractorInv'
<1> SUFFICES ASSUME ExtractorInv, [Next]_vars PROVE ExtractorInv'
  OBVIOUS
<1>1. LookingActions \/ OtherSteps
  BY DEF Next, Main, Extracting, Saving, LookingActions, OtherSteps
<1>2. CASE LookingActions  BY <1>2, LookingStep
<1>3. CASE OtherSteps
  <2>1. TypeOK' /\ PagesLeft'  BY <1>3, TypeStep DEF ExtractorInv
  <2>2. CachesFit' /\ CallersFit' /\ FirstFieldStays'  BY <1>3, ControlStep DEF ExtractorInv
  <2>3. Complete'  BY <1>3, CompleteStep DEF ExtractorInv
  <2>4. Ordered'  BY <1>3, OrderStep DEF ExtractorInv
  <2>. QED  BY <2>1, <2>2, <2>3, <2>4 DEF ExtractorInv
<1>4. QED  BY <1>1, <1>2, <1>3

-----------------------------------------------------------------------------
(* The theorems.                                                            *)

\* Whatever the source answers, the invariant holds (Extractor/Thread.cpp).
THEOREM Invariance == Spec => []ExtractorInv
  BY ExtractorInit, ExtractorStep, PTL DEF Spec

\* Caches, tables and local variables have their types, and no page is taken from an
\* empty queue, for every length of the lists and every set of configurations.
THEOREM TypeCorrect == Spec => []TypeOK
<1>1. ExtractorInv => TypeOK  BY DEF ExtractorInv
<1>2. QED  BY <1>1, Invariance, PTL

\* A finished URL has no results in memory, so what is kept of it is in the tables.
LEMMA InvImpliesComplete == ExtractorInv => ResultsAreComplete
<1> SUFFICES ASSUME ExtractorInv PROVE FinishedIsComplete /\ LinksAreSet
  BY DEF ResultsAreComplete
<1>1. ASSUME NEW x \in seen, x.url \in success \ partial, x \notin lost PROVE InTable(x)
  <2>1. x.url \in Done /\ x \notin results  BY <1>1 DEF ExtractorInv, Complete, DoneIsKept, Done
  <2>2. Kept(x)  BY <1>1, <2>1 DEF ExtractorInv, Complete, DoneIsKept
  <2>. QED  BY <1>1, <2>1, <2>2 DEF Kept
<1>2. FinishedIsComplete  BY <1>1 DEF FinishedIsComplete, InTable
<1>3. ASSUME NEW r \in target, NEW x \in links, r.url = x.url, r.id = x.id,
             x.url \in success \ partial, x \notin lost, cfg.linkedField = 0
      PROVE  r.link
  <2>1. x.url \in Done /\ x \notin results  BY <1>3 DEF ExtractorInv, Complete, DoneIsKept, Done
  <2>2. IsLinked(x)  BY <1>3, <2>1 DEF ExtractorInv, Complete, DoneIsKept
  <2>. QED  BY <1>3, <2>1, <2>2 DEF IsLinked
<1>4. LinksAreSet  BY <1>3 DEF LinksAreSet
<1>5. QED  BY <1>2, <1>4

\* A URL that is marked as finished has in the target table what has been seen on the
\* pages of its last attempt, linked to its linked data, apart from what an exception or
\* a failed statement has left (extractingNext(), extractingSaveResults()).
THEOREM FinishedUrlsAreComplete == Spec => []ResultsAreComplete
  BY Invariance, InvImpliesComplete, PTL

\* The order of IDs says that unsaved results are ahead.
LEMMA InvImpliesAhead == ExtractorInv => UnsavedResultsAreAhead
  BY DEF ExtractorInv, Ordered, ResultsAreAhead, Exempt, UnsavedResultsAreAhead

\* The last ID in the row of the thread never passes a URL with datasets that are in
\* memory only: after a crash, the URL will be extracted again (setLast() follows the
\* saving in extractingSaveResults()).
THEOREM LastIdStaysBehind == Spec => []UnsavedResultsAreAhead
  BY Invariance, InvImpliesAhead, PTL
=============================================================================
