----------------------------- MODULE NamedLock ------------------------------
(***************************************************************************)
(* The named locks of the main database class (Main/Database.cpp), which   *)
(* the module threads take through two guard classes, DatabaseLock and     *)
(* DatabaseTryLock (Wrapper/).  A lock is a name in the static vector      *)
(* Main::Database::locks; the vector does not know who has added it.       *)
(*                                                                         *)
(* A name is used in one of four ways:                                     *)
(*   "scoped"     a DatabaseLock lives as long as the section: the URL     *)
(*                list a crawler initializes;                              *)
(*   "try"        a DatabaseTryLock: the URL list a crawler checks;        *)
(*   "temporary"  the DatabaseLock is an unnamed temporary, which is       *)
(*                destroyed before the section begins: the parsing and     *)
(*                extracting tables, the corpora;                          *)
(*   "insistent"  the same with a callback that is always true: the target *)
(*                tables of parsers and extractors.                        *)
(***************************************************************************)
CONSTANTS
  Threads,  \* module threads
  Names,    \* names of locks
  Use       \* how each name is used

Uses == {"scoped", "try", "temporary", "insistent"}

ASSUME UseAssumption == Use \in [Names -> Uses]
ASSUME NamesAssumption == Names # {}

VARIABLES
  locks,    \* the names in the vector
  running,  \* running[t]: what the callback isRunning() of the thread returns
  pc,       \* pc[t]: control state of the thread
  at,       \* at[t]: the name the thread uses, or has used last
  gaveUp    \* history, gaveUp[n]: a thread was constructed a guard without the lock

vars == <<locks, running, pc, at, gaveUp>>

ControlStates ==
  {"idle", "asking", "trying", "constructed", "checking", "inside", "returning"}

HeldInSection(n) == Use[n] \in {"scoped", "try"}
Heeds(t) == Use[at[t]] # "insistent"
Goto(t, to) == pc' = [pc EXCEPT ![t] = to]

Init ==
  /\ locks = {}
  /\ running = [t \in Threads |-> TRUE]
  /\ pc = [t \in Threads |-> "idle"]
  /\ at = [t \in Threads |-> CHOOSE n \in Names : TRUE]
  /\ gaveUp = [n \in Names |-> FALSE]

-----------------------------------------------------------------------------
(* Adding a lock.                                                           *)

\* A section begins: the thread constructs a DatabaseLock.
Request(t, n) ==
  /\ pc[t] = "idle" /\ running[t] /\ Use[n] # "try"
  /\ Goto(t, "asking") /\ at' = [at EXCEPT ![t] = n]
  /\ UNCHANGED <<locks, running, gaveUp>>

\* Mutant: addDatabaseLock() never asks the callback.
AskNobody(t) ==
  /\ pc[t] = "asking" /\ Goto(t, "trying")
  /\ UNCHANGED <<locks, running, at, gaveUp>>

\* addDatabaseLock(): while(isRunningCallback()).  A thread that does not run
\* any more returns without the lock; the constructor cannot tell.
Ask(t) ==
  /\ pc[t] = "asking"
  /\ IF running[t] \/ ~Heeds(t)
     THEN Goto(t, "trying") /\ gaveUp' = gaveUp
     ELSE Goto(t, "constructed") /\ gaveUp' = [gaveUp EXCEPT ![at[t]] = TRUE]
  /\ UNCHANGED <<locks, running, at>>

\* Mutant: the name is added without looking for it.
AddBlindly(t) ==
  /\ pc[t] = "trying"
  /\ locks' = locks \cup {at[t]} /\ Goto(t, "constructed")
  /\ UNCHANGED <<running, at, gaveUp>>

\* The name is looked for and added under lockAccess; else the thread sleeps.
Add(t) ==
  /\ pc[t] = "trying"
  /\ IF at[t] \in locks
     THEN Goto(t, "asking") /\ locks' = locks
     ELSE Goto(t, "constructed") /\ locks' = locks \cup {at[t]}
  /\ UNCHANGED <<running, at, gaveUp>>

\* Mutant: tryDatabaseLock() always succeeds.
TryBlindly(t, n) ==
  /\ pc[t] = "idle" /\ running[t] /\ Use[n] = "try"
  /\ locks' = locks \cup {n} /\ at' = [at EXCEPT ![t] = n]
  /\ Goto(t, "constructed")
  /\ UNCHANGED <<running, gaveUp>>

\* tryDatabaseLock(); when the name is taken the thread skips the section.
Try(t, n) ==
  /\ pc[t] = "idle" /\ running[t] /\ Use[n] = "try"
  /\ n \notin locks
  /\ locks' = locks \cup {n} /\ at' = [at EXCEPT ![t] = n]
  /\ Goto(t, "constructed")
  /\ UNCHANGED <<running, gaveUp>>

-----------------------------------------------------------------------------
(* The section and the end of the guard.                                    *)

\* The temporary guard dies at the end of its statement.
DropTemporary(t) ==
  /\ pc[t] = "constructed" /\ ~HeldInSection(at[t])
  /\ locks' = locks \ {at[t]} /\ Goto(t, "checking")
  /\ UNCHANGED <<running, at, gaveUp>>

\* if(!isRunning()) return;
Check(t) ==
  /\ \/ pc[t] = "checking"
     \/ pc[t] = "constructed" /\ HeldInSection(at[t])
  /\ Goto(t, IF running[t] \/ ~Heeds(t) THEN "inside" ELSE "returning")
  /\ UNCHANGED <<locks, running, at, gaveUp>>

\* The end of the section, by return or exception: the destructor of a guard
\* that lives until here removes the name, whoever has added it.
Leave(t) ==
  /\ pc[t] \in {"inside", "returning"} /\ Goto(t, "idle")
  /\ locks' = IF HeldInSection(at[t]) THEN locks \ {at[t]} ELSE locks
  /\ UNCHANGED <<running, at, gaveUp>>

-----------------------------------------------------------------------------
(* The server stops a thread at any time, and starts another in its place.  *)

Stop(t) ==
  /\ running[t] /\ running' = [running EXCEPT ![t] = FALSE]
  /\ UNCHANGED <<locks, pc, at, gaveUp>>

NewThread(t) ==
  /\ pc[t] = "idle" /\ ~running[t]
  /\ running' = [running EXCEPT ![t] = TRUE]
  /\ UNCHANGED <<locks, pc, at, gaveUp>>

Step(t) == Ask(t) \/ Add(t) \/ DropTemporary(t) \/ Check(t) \/ Leave(t)

Next ==
  \E t \in Threads :
    \/ Step(t) \/ Stop(t) \/ NewThread(t)
    \/ \E n \in Names : Request(t, n) \/ Try(t, n)

\* A thread in a section, or waiting for one, is run by the operating system.
Fairness == \A t \in Threads : WF_vars(Step(t))

Spec == Init /\ [][Next]_vars
FairSpec == Spec /\ Fairness

-----------------------------------------------------------------------------

\* The threads that have a guard object for n, and those in the section of n.
Guards(n) ==
  {t \in Threads : /\ at[t] = n
                   /\ \/ pc[t] = "constructed"
                      \/ pc[t] \in {"inside", "returning"} /\ HeldInSection(n)}
Inside(n) == {t \in Threads : at[t] = n /\ pc[t] = "inside"}

\* Types, and a DatabaseTryLock never waits.
TypeOK ==
  /\ locks \subseteq Names
  /\ running \in [Threads -> BOOLEAN]
  /\ pc \in [Threads -> ControlStates]
  /\ at \in [Threads -> Names]
  /\ gaveUp \in [Names -> BOOLEAN]
  /\ \A t \in Threads : pc[t] \in {"asking", "trying"} => Use[at[t]] # "try"

\* While a guard lives as long as its section, sections with the same name
\* exclude each other, until a thread has given up waiting for that name
\* (Database.cpp 10399-10488, DatabaseLock.hpp 89-111).
ExclusiveUntilGivingUp ==
  \A n \in Names : HeldInSection(n) /\ ~gaveUp[n] =>
    \A s, t \in Inside(n) : s = t

\* A name stays in the vector only as long as some guard object will remove it:
\* stopped, skipped and failed sections leave no lock behind.
NoLockIsLeaked == \A n \in locks : Guards(n) # {}

\* A lock that has been added is removed again.
LocksAreReleased == \A n \in Names : (n \in locks) ~> (n \notin locks)

\* A thread that has been stopped gets out of the section, and out of waiting
\* for it, however long the lock is held by others; only those that save their
\* results insist.
StoppedThreadLeaves ==
  \A t \in Threads : ~running[t] /\ Heeds(t) ~> pc[t] = "idle"

TryNames == {n \in Names : Use[n] = "try"}
Mutex == INSTANCE NamedMutex
           WITH Names <- TryNames, inside <- [n \in TryNames |-> Guards(n)]

\* The names used with DatabaseTryLock only are mutexes without reservation.
TryLocksAreMutexes == Mutex!Spec

=============================================================================
