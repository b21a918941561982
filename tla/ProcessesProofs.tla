-------------------------- MODULE ProcessesProofs --------------------------
(***************************************************************************)
(* Theorems about the two parts of Processes, for every set of threads and *)
(* names, every way the names are used, and any number of workers.         *)
(***************************************************************************)
EXTENDS Processes, SequenceTheorems, TLAPS

-----------------------------------------------------------------------------
(* Named locks.  The inductive invariant LockInv relates the vector of names *)
(* to the guard objects: a name in the vector has a guard; and as long as    *)
(* nobody has given up waiting for a name that is held during its section, a *)
(* guard of that name is the only one and its name is in the vector.         *)

Owned(n) ==
  /\ \A t \in Guards(n) : n \in locks
  /\ \A s, t \in Guards(n) : s = t

GuardsOwnTheirLocks == \A n \in Names : HeldInSection(n) /\ ~gaveUp[n] => Owned(n)
NobodyGivesUpTrying == \A n \in TryNames : ~gaveUp[n]
CheckedAfterwards == \A t \in Threads : pc[t] = "checking" => ~HeldInSection(at[t])

LockTable ==
  /\ NoLockIsLeaked
  /\ GuardsOwnTheirLocks
  /\ NobodyGivesUpTrying
  /\ CheckedAfterwards

LockInv == TypeOK /\ LockTable

\* The initial state: no guards, no names.
LEMMA LockInit == Init => LockInv
<1> SUFFICES ASSUME Init PROVE LockInv
  OBVIOUS
<1>1. (CHOOSE n \in Names : TRUE) \in Names
  BY NamesAssumption
<1>2. TypeOK
  BY <1>1 DEF Init, TypeOK, ControlStates
<1>3. LockTable
  BY DEF Init, LockTable, NoLockIsLeaked, GuardsOwnTheirLocks,
         NobodyGivesUpTrying, CheckedAfterwards, Owned, Guards, TryNames
<1> QED
  BY <1>2, <1>3 DEF LockInv

\* Every step keeps the types.
LEMMA TypeStep == TypeOK /\ [Next]_vars => TypeOK'
<1> SUFFICES ASSUME TypeOK, [Next]_vars PROVE TypeOK'
  OBVIOUS
<1> USE UseAssumption DEF TypeOK, ControlStates, Goto, Heeds, Uses
<1>1. ASSUME NEW t \in Threads, NEW n \in Names, Request(t, n) PROVE TypeOK'
  BY <1>1 DEF Request
<1>2. ASSUME NEW t \in Threads, Ask(t) PROVE TypeOK'
  BY <1>2 DEF Ask
<1>3. ASSUME NEW t \in Threads, Add(t) PROVE TypeOK'
  BY <1>3 DEF Add
<1>4. ASSUME NEW t \in Threads, NEW n \in Names, Try(t, n) PROVE TypeOK'
  BY <1>4 DEF Try
<1>5. ASSUME NEW t \in Threads, DropTemporary(t) PROVE TypeOK'
  BY <1>5 DEF DropTemporary
<1>6. ASSUME NEW t \in Threads, Check(t) PROVE TypeOK'
  BY <1>6 DEF Check
<1>7. ASSUME NEW t \in Threads, Leave(t) PROVE TypeOK'
  BY <1>7 DEF Leave
<1>8. ASSUME NEW t \in Threads, Stop(t) \/ NewThread(t) PROVE TypeOK'
  BY <1>8 DEF Stop, NewThread
<1>9. CASE UNCHANGED vars
  BY <1>9 DEF vars
<1> QED
  BY <1>1, <1>2, <1>3, <1>4, <1>5, <1>6, <1>7, <1>8, <1>9 DEF Next, Step

\* Every step keeps the relation between the vector and the guards.
LEMMA LockStep == LockInv /\ [Next]_vars => LockTable'
<1> SUFFICES ASSUME LockInv, [Next]_vars PROVE LockTable'
  OBVIOUS
<1>t. TypeOK /\ TypeOK'
  BY TypeStep DEF LockInv
<1>i. LockTable
  BY DEF LockInv
<1>1. ASSUME NEW t \in Threads, NEW n \in Names, Request(t, n) PROVE LockTable'
  <2> USE UseAssumption, <1>t, <1>i
       DEF TypeOK, LockTable, NoLockIsLeaked, GuardsOwnTheirLocks,
           NobodyGivesUpTrying, CheckedAfterwards, Owned, Guards, TryNames,
           HeldInSection, Goto, Heeds, Uses
  <2>1. NoLockIsLeaked'
    BY <1>1 DEF Request
  <2>2. GuardsOwnTheirLocks'
    BY <1>1 DEF Request
  <2>3. NobodyGivesUpTrying'
    BY <1>1 DEF Request
  <2>4. CheckedAfterwards'
    BY <1>1 DEF Request
  <2> QED
    BY <2>1, <2>2, <2>3, <2>4 DEF LockTable
<1>2. ASSUME NEW t \in Threads, Ask(t) PROVE LockTable'
  <2> USE UseAssumption, <1>t, <1>i
       DEF TypeOK, LockTable, NoLockIsLeaked, GuardsOwnTheirLocks,
           NobodyGivesUpTrying, CheckedAfterwards, Owned, Guards, TryNames,
           HeldInSection, Goto, Heeds, Uses
  <2>1. NoLockIsLeaked'
    BY <1>2 DEF Ask
  <2>2. GuardsOwnTheirLocks'
    BY <1>2 DEF Ask
  <2>3. NobodyGivesUpTrying'
    BY <1>2 DEF Ask
  <2>4. CheckedAfterwards'
    BY <1>2 DEF Ask
  <2> QED
    BY <2>1, <2>2, <2>3, <2>4 DEF LockTable
<1>3. ASSUME NEW t \in Threads, Add(t) PROVE LockTable'
  <2> USE UseAssumption, <1>t, <1>i
       DEF TypeOK, LockTable, NoLockIsLeaked, GuardsOwnTheirLocks,
           NobodyGivesUpTrying, CheckedAfterwards, Owned, Guards, TryNames,
           HeldInSection, Goto, Heeds, Uses
  <2>1. NoLockIsLeaked'
    BY <1>3 DEF Add
  <2>2. GuardsOwnTheirLocks'
    BY <1>3 DEF Add
  <2>3. NobodyGivesUpTrying'
    BY <1>3 DEF Add
  <2>4. CheckedAfterwards'
    BY <1>3 DEF Add
  <2> QED
    BY <2>1, <2>2, <2>3, <2>4 DEF LockTable
<1>4. ASSUME NEW t \in Threads, NEW n \in Names, Try(t, n) PROVE LockTable'
  <2> USE UseAssumption, <1>t, <1>i
       DEF TypeOK, LockTable, NoLockIsLeaked, GuardsOwnTheirLocks,
           NobodyGivesUpTrying, CheckedAfterwards, Owned, Guards, TryNames,
           HeldInSection, Goto, Heeds, Uses
  <2>1. NoLockIsLeaked'
    BY <1>4 DEF Try
  <2>2. GuardsOwnTheirLocks'
    BY <1>4 DEF Try
  <2>3. NobodyGivesUpTrying'
    BY <1>4 DEF Try
  <2>4. CheckedAfterwards'
    BY <1>4 DEF Try
  <2> QED
    BY <2>1, <2>2, <2>3, <2>4 DEF LockTable
<1>5. ASSUME NEW t \in Threads, DropTemporary(t) PROVE LockTable'
  <2> USE UseAssumption, <1>t, <1>i
       DEF TypeOK, LockTable, NoLockIsLeaked, GuardsOwnTheirLocks,
           NobodyGivesUpTrying, CheckedAfterwards, Owned, Guards, TryNames,
           HeldInSection, Goto, Heeds, Uses
  <2>1. NoLockIsLeaked'
    BY <1>5 DEF DropTemporary
  <2>2. GuardsOwnTheirLocks'
    <3> SUFFICES ASSUME NEW m \in Names, HeldInSection(m), ~gaveUp[m]
                 PROVE  Owned(m)'
      BY <1>5 DEF DropTemporary
    <3>1. Guards(m)' = Guards(m)
      BY <1>5 DEF DropTemporary
    <3>2. m \in locks' <=> m \in locks
      BY <1>5 DEF DropTemporary
    <3> QED
      BY <3>1, <3>2
  <2>3. NobodyGivesUpTrying'
    BY <1>5 DEF DropTemporary
  <2>4. CheckedAfterwards'
    BY <1>5 DEF DropTemporary
  <2> QED
    BY <2>1, <2>2, <2>3, <2>4 DEF LockTable
<1>6. ASSUME NEW t \in Threads, Check(t) PROVE LockTable'
  <2> USE UseAssumption, <1>t, <1>i
       DEF TypeOK, LockTable, NoLockIsLeaked, GuardsOwnTheirLocks,
           NobodyGivesUpTrying, CheckedAfterwards, Owned, Guards, TryNames,
           HeldInSection, Goto, Heeds, Uses
  <2>1. NoLockIsLeaked'
    BY <1>6 DEF Check
  <2>2. GuardsOwnTheirLocks'
    <3> SUFFICES ASSUME NEW m \in Names, HeldInSection(m), ~gaveUp[m]
                 PROVE  Owned(m)'
      BY <1>6 DEF Check
    <3>1. Guards(m)' = Guards(m)
      BY <1>6 DEF Check
    <3>2. m \in locks' <=> m \in locks
      BY <1>6 DEF Check
    <3> QED
      BY <3>1, <3>2
  <2>3. NobodyGivesUpTrying'
    BY <1>6 DEF Check
  <2>4. CheckedAfterwards'
    BY <1>6 DEF Check
  <2> QED
    BY <2>1, <2>2, <2>3, <2>4 DEF LockTable
<1>7. ASSUME NEW t \in Threads, Leave(t) PROVE LockTable'
  <2> USE UseAssumption, <1>t, <1>i
       DEF TypeOK, LockTable, NoLockIsLeaked, GuardsOwnTheirLocks,
           NobodyGivesUpTrying, CheckedAfterwards, Owned, Guards, TryNames,
           HeldInSection, Goto, Heeds, Uses
  <2>1. NoLockIsLeaked'
    BY <1>7 DEF Leave
  <2>2. GuardsOwnTheirLocks'
    BY <1>7 DEF Leave
  <2>3. NobodyGivesUpTrying'
    BY <1>7 DEF Leave
  <2>4. CheckedAfterwards'
    BY <1>7 DEF Leave
  <2> QED
    BY <2>1, <2>2, <2>3, <2>4 DEF LockTable
<1>8. ASSUME NEW t \in Threads, Stop(t) \/ NewThread(t) PROVE LockTable'
  <2>1. locks' = locks /\ pc' = pc /\ at' = at /\ gaveUp' = gaveUp
    BY <1>8 DEF Stop, NewThread
  <2> QED
    BY <1>i, <2>1 DEF LockTable, NoLockIsLeaked, GuardsOwnTheirLocks,
      NobodyGivesUpTrying, CheckedAfterwards, Owned, Guards, TryNames, HeldInSection
<1>9. CASE UNCHANGED vars
  BY <1>i, <1>9 DEF vars, LockTable, NoLockIsLeaked, GuardsOwnTheirLocks,
    NobodyGivesUpTrying, CheckedAfterwards, Owned, Guards, TryNames, HeldInSection
<1> QED
  BY <1>1, <1>2, <1>3, <1>4, <1>5, <1>6, <1>7, <1>8, <1>9 DEF Next, Step

\* The inductive invariant.
LEMMA LockInvariance == Spec => []LockInv
<1>1. LockInv /\ [Next]_vars => LockInv'
  BY TypeStep, LockStep DEF LockInv
<1> QED
  BY LockInit, <1>1, PTL DEF Spec

\* Every variable keeps its type, and a DatabaseTryLock never waits.
THEOREM LocksAreTyped == Spec => []TypeOK
<1>1. LockInv => TypeOK
  BY DEF LockInv
<1> QED
  BY LockInvariance, <1>1, PTL

\* Database::locks holds no name without a guard object that will remove it.
THEOREM LocksHaveGuards == Spec => []NoLockIsLeaked
<1>1. LockInv => NoLockIsLeaked
  BY DEF LockInv, LockTable
<1> QED
  BY LockInvariance, <1>1, PTL

\* Sections of the same name exclude each other until a waiter has given up.
THEOREM SectionsExclude == Spec => []ExclusiveUntilGivingUp
<1>1. LockInv => ExclusiveUntilGivingUp
  <2> SUFFICES ASSUME LockInv, NEW n \in Names, HeldInSection(n), ~gaveUp[n],
                      NEW s \in Inside(n), NEW t \in Inside(n)
               PROVE  s = t
    BY DEF ExclusiveUntilGivingUp
  <2>1. s \in Guards(n) /\ t \in Guards(n)
    BY DEF Inside, Guards
  <2> QED
    BY <2>1 DEF LockInv, LockTable, GuardsOwnTheirLocks, Owned
<1> QED
  BY LockInvariance, <1>1, PTL

\* A step of the lock table is a step of the mutexes it implements, or none:
\* only tryDatabaseLock() enters and only the end of the section exits.
LEMMA MutexStep ==
  LockInv /\ [Next]_vars => [Mutex!Next]_([n \in TryNames |-> Guards(n)])
<1> DEFINE held == [n \in TryNames |-> Guards(n)]
<1> SUFFICES ASSUME LockInv, [Next]_vars
             PROVE  Mutex!Next \/ held' = held
  OBVIOUS
<1>t. TypeOK /\ TypeOK' /\ LockTable
  BY TypeStep DEF LockInv
<1>1. ASSUME \A n \in TryNames : Guards(n)' = Guards(n) PROVE held' = held
  BY <1>1 DEF TryNames
<1>2. ASSUME NEW t \in Threads, NEW m \in Names, Request(t, m) PROVE held' = held
  BY <1>1, <1>2, <1>t DEF Request, TypeOK, Guards, TryNames, HeldInSection, Goto
<1>3. ASSUME NEW t \in Threads, Ask(t) PROVE held' = held
  BY <1>1, <1>3, <1>t DEF Ask, TypeOK, Guards, TryNames, HeldInSection, Goto
<1>4. ASSUME NEW t \in Threads, Add(t) PROVE held' = held
  BY <1>1, <1>4, <1>t DEF Add, TypeOK, Guards, TryNames, HeldInSection, Goto
<1>5. ASSUME NEW t \in Threads, DropTemporary(t) PROVE held' = held
  BY <1>1, <1>5, <1>t DEF DropTemporary, TypeOK, Guards, TryNames, HeldInSection, Goto
<1>6. ASSUME NEW t \in Threads, Check(t) PROVE held' = held
  BY <1>1, <1>6, <1>t DEF Check, TypeOK, Guards, TryNames, HeldInSection, Goto,
                          LockTable, CheckedAfterwards
<1>7. ASSUME NEW t \in Threads, Stop(t) \/ NewThread(t) PROVE held' = held
  BY <1>1, <1>7 DEF Stop, NewThread, Guards
<1>8. ASSUME NEW t \in Threads, NEW m \in Names, Try(t, m) PROVE Mutex!Enter(t, m)
  <2>1. m \in TryNames
    BY <1>8 DEF Try, TryNames
  <2>2. Guards(m) = {}
    BY <1>8, <1>t, <2>1 DEF Try, LockTable, GuardsOwnTheirLocks, Owned,
      NobodyGivesUpTrying, TryNames, HeldInSection
  <2>3. Guards(m)' = {t}
    BY <1>8, <1>t, <2>2 DEF Try, TypeOK, Guards, Goto
  <2>4. \A n \in TryNames \ {m} : Guards(n)' = Guards(n)
    BY <1>8, <1>t DEF Try, TypeOK, Guards, HeldInSection, TryNames, Goto
  <2> QED
    BY <2>1, <2>2, <2>3, <2>4 DEF Mutex!Enter, TryNames
<1>9. ASSUME NEW t \in Threads, Leave(t), NEW m \in TryNames, at[t] = m
      PROVE  Mutex!Exit(t, m)
  <2>1. t \in Guards(m)
    BY <1>9 DEF Leave, Guards, TryNames, HeldInSection
  <2>2. Guards(m)' = Guards(m) \ {t}
    BY <1>9, <1>t DEF Leave, TypeOK, Guards, HeldInSection, Goto
  <2>3. \A n \in TryNames \ {m} : Guards(n)' = Guards(n)
    BY <1>9, <1>t DEF Leave, TypeOK, Guards, HeldInSection, TryNames, Goto
  <2> QED
    BY <2>1, <2>2, <2>3 DEF Mutex!Exit, TryNames
<1>10. ASSUME NEW t \in Threads, Leave(t), at[t] \notin TryNames PROVE held' = held
  BY <1>1, <1>10, <1>t DEF Leave, TypeOK, Guards, TryNames, HeldInSection, Goto
<1>11. CASE UNCHANGED vars
  BY <1>1, <1>11 DEF vars, Guards
<1>12. ASSUME NEW t \in Threads, NEW m \in Names, Try(t, m) PROVE Mutex!Next
  BY <1>8, <1>12 DEF Mutex!Next, Try, TryNames
<1>13. ASSUME NEW t \in Threads, Leave(t), at[t] \in TryNames PROVE Mutex!Next
  BY <1>9, <1>13 DEF Mutex!Next
<1> QED
  BY <1>2, <1>3, <1>4, <1>5, <1>6, <1>7, <1>10, <1>11, <1>12, <1>13 DEF Next, Step

\* The names used with DatabaseTryLock only are mutexes, whatever the threads
\* that use other names do and whenever a thread is stopped.
THEOREM TryLocksImplementMutexes == Spec => TryLocksAreMutexes
<1>1. Init => Mutex!Init
  BY DEF Init, Mutex!Init, Guards
<1>2. LockInv /\ [Next]_vars => [Mutex!Next]_([n \in TryNames |-> Guards(n)])
  BY MutexStep
<1> QED
  BY LockInvariance, <1>1, <1>2, PTL DEF Spec, TryLocksAreMutexes, Mutex!Spec

-----------------------------------------------------------------------------
(* Workers.  What is inductive is the relation between the position a worker *)
(* was told and the one it has: erasing moves workers down, never up, so the *)
(* flag a worker clears belongs to itself or to a younger one (Known,        *)
(* Reported).                                                                *)

Up == srv \notin {"down", "terminated"}

\* Workers are numbered in the order in which they start.
Numbered == \A w \in Workers : state[w] = "none" <=> w > started

\* The vectors are parallel, in the order of the starts, and not too long.
Vectors ==
  srv # "down" =>
    /\ Len(workers) = Len(workersRunning) /\ Len(workers) <= started
    /\ \A k \in DOMAIN workers : workers[k] <= started
    /\ \A j, k \in DOMAIN workers : j < k => workers[j] < workers[k]

\* A worker that runs is in the vector, not above the position it was told.
Known ==
  Up => \A w \in Active : \E p \in DOMAIN workers : workers[p] = w /\ p <= index[w]

\* Where the main thread is in its loops.
Looping ==
  /\ locked <=> srv \in {"loop", "join"}
  /\ srv = "loop" => i <= Len(workers) + IF erased THEN 2 ELSE 1
  /\ srv = "loop" /\ erased => i >= 2
  /\ srv = "join" => i \in DOMAIN workers
  /\ srv = "clear" =>
       /\ i <= Len(workers) + 1
       /\ \A j \in DOMAIN workers : j < i => state[workers[j]] = "exited"

IInv ==
  RegistryTypeOK /\ Numbered /\ Vectors /\ Known /\ FlagsAreClearedFromAbove /\ Looping /\ NoneSurvives

-----------------------------------------------------------------------------

\* A vector from which one position has been erased.
LEMMA WithoutIsVector ==
  ASSUME NEW S, NEW s \in Seq(S), NEW k \in DOMAIN s
  PROVE  /\ Without(s, k) \in Seq(S)
         /\ Len(Without(s, k)) = Len(s) - 1
         /\ DOMAIN Without(s, k) = 1 .. Len(s) - 1
         /\ \A j \in 1 .. Len(s) - 1 : Without(s, k)[j] = s[IF j < k THEN j ELSE j + 1]
<1>1. Len(s) \in Nat /\ DOMAIN s = 1 .. Len(s) /\ Len(s) - 1 \in Nat
  OBVIOUS
<1>2. \A j \in 1 .. Len(s) - 1 : s[j] \in S /\ s[j + 1] \in S
  BY <1>1
<1> QED
  BY <1>1, <1>2 DEF Without

LEMMA InvInit == ASSUME MaxWorkers \in Nat PROVE RegistryInit => IInv
<1> SUFFICES ASSUME MaxWorkers \in Nat, RegistryInit PROVE IInv
  OBVIOUS
<1> USE DEF RegistryInit
<1>1. workers \in Seq(Workers) /\ workersRunning \in Seq(BOOLEAN) /\ Len(workers) = 0
      /\ Len(workersRunning) = 0 /\ DOMAIN workers = {}
  OBVIOUS
<1>2. RegistryTypeOK
  <2>1. started \in 0 .. MaxWorkers /\ i \in 1 .. MaxWorkers + 1
    OBVIOUS
  <2>2. state \in [Workers -> {"none", "working", "exited"}] /\ index \in [Workers -> 0 .. MaxWorkers]
    OBVIOUS
  <2> QED
    BY <1>1, <2>1, <2>2 DEF RegistryTypeOK
<1>3. Numbered /\ Known /\ NoneSurvives
  BY DEF Numbered, Known, NoneSurvives, Active, Workers
<1>4. Vectors /\ FlagsAreClearedFromAbove /\ Looping
  BY <1>1 DEF Vectors, FlagsAreClearedFromAbove, Looping
<1> QED
  BY <1>2, <1>3, <1>4 DEF IInv


-----------------------------------------------------------------------------
(* One lemma for each step that changes the vectors or a worker's state.    *)

LEMMA WorkerEndKeeps ==
  ASSUME MaxWorkers \in Nat, IInv, NEW w \in Workers, WorkerEnd(w)
  PROVE  IInv'
<1> USE DEF IInv, WorkerEnd
<1>1. w \in Active /\ srv # "down" /\ DOMAIN workers = 1 .. Len(workers)
      /\ DOMAIN workersRunning = 1 .. Len(workersRunning) /\ Len(workers) = Len(workersRunning)
      /\ Len(workers) \in Nat
  BY DEF Active, NoneSurvives, RegistryTypeOK, Vectors
<1>2. workersRunning' \in Seq(BOOLEAN) /\ Len(workersRunning') = Len(workersRunning)
      /\ DOMAIN workersRunning' = DOMAIN workersRunning
      /\ \A k \in DOMAIN workersRunning :
           workersRunning'[k] = IF k = index[w] THEN FALSE ELSE workersRunning[k]
  <2>1. CASE index[w] \in DOMAIN workersRunning
    <3>1. workersRunning' = [workersRunning EXCEPT ![index[w]] = FALSE]
      BY <2>1
    <3>2. workersRunning \in Seq(BOOLEAN) /\ index[w] \in 1 .. Len(workersRunning)
      BY <2>1, <1>1 DEF RegistryTypeOK
    <3> QED
      BY <3>1, <3>2, <1>1, ExceptSeq
  <2>2. CASE index[w] \notin DOMAIN workersRunning
    BY <2>2 DEF RegistryTypeOK
  <2> QED
    BY <2>1, <2>2
<1>3. RegistryTypeOK'
  BY <1>2 DEF RegistryTypeOK
<1>4. Numbered'
  BY DEF Numbered, RegistryTypeOK, Workers
<1>5. Vectors'
  BY <1>1, <1>2 DEF Vectors
<1>6. Known'
  BY DEF Known, Up, Active, RegistryTypeOK
<1>7. FlagsAreClearedFromAbove'
  <2> SUFFICES ASSUME Up', NEW k \in DOMAIN workers, ~workersRunning'[k]
               PROVE  \E v \in 1 .. workers[k] : state'[v] = "exited" /\ index[v] >= k
    BY DEF FlagsAreClearedFromAbove, Up
  <2>1. /\ Up /\ index[w] \in DOMAIN workersRunning /\ index[w] \in Nat
        /\ k \in Nat /\ workers[k] \in Workers /\ workers[k] \in Nat /\ w \in Nat
    <3>1. Up /\ index[w] \in DOMAIN workersRunning
      BY DEF Up
    <3>2. k \in Nat /\ workers[k] \in Workers
      BY <1>1 DEF RegistryTypeOK
    <3> QED
      BY <3>1, <3>2, <1>1 DEF RegistryTypeOK, Workers
  <2>2. CASE k = index[w]
    <3>1. PICK p \in DOMAIN workers : workers[p] = w /\ p <= index[w]
      BY <2>1, <1>1 DEF Known
    <3>2. w <= workers[k]
      <4>1. p \in Nat /\ (p < k => workers[p] < workers[k])
        BY <1>1 DEF Vectors
      <4> QED
        BY <4>1, <3>1, <2>1, <2>2
    <3>3. state'[w] = "exited" /\ w \in 1 .. workers[k]
      BY <3>2, <2>1 DEF RegistryTypeOK, Workers
    <3> QED
      BY <3>3, <2>2, <2>1
  <2>3. CASE k # index[w]
    <3>1. ~workersRunning[k]
      BY <2>3, <1>1, <1>2
    <3>2. PICK v \in 1 .. workers[k] : state[v] = "exited" /\ index[v] >= k
      BY <3>1, <2>1 DEF FlagsAreClearedFromAbove, Up
    <3>3. v \in Workers /\ state'[v] = "exited"
      BY <3>2, <2>1 DEF RegistryTypeOK, Workers
    <3> QED
      BY <3>2, <3>3
  <2> QED
    BY <2>2, <2>3
<1>8. Looping'
  BY <1>1 DEF Looping, RegistryTypeOK
<1>9. NoneSurvives'
  BY <1>1 DEF NoneSurvives
<1> QED
  BY <1>3, <1>4, <1>5, <1>6, <1>7, <1>8, <1>9

LEMMA StartKeeps ==
  ASSUME MaxWorkers \in Nat, IInv, StartWorker
  PROVE  IInv'
<1> DEFINE new == started + 1
<1> USE DEF IInv, StartWorker
<1>1. new \in Workers /\ state[new] = "none" /\ started \in Nat
  BY DEF RegistryTypeOK, Workers, Numbered
<1>2. workers \in Seq(Workers) /\ workersRunning \in Seq(BOOLEAN)
      /\ Len(workers) = Len(workersRunning) /\ Len(workers) \in Nat /\ Len(workers) <= started
  BY DEF RegistryTypeOK, Vectors
<1>3. /\ workers' \in Seq(Workers) /\ workersRunning' \in Seq(BOOLEAN)
      /\ Len(workers') = Len(workers) + 1 /\ Len(workersRunning') = Len(workers) + 1
      /\ DOMAIN workers = 1 .. Len(workers) /\ DOMAIN workers' = 1 .. Len(workers) + 1
      /\ \A k \in DOMAIN workers :
           workers'[k] = workers[k] /\ workersRunning'[k] = workersRunning[k]
      /\ workers'[Len(workers) + 1] = new /\ workersRunning'[Len(workers) + 1] = TRUE
  <2>1. workers' = Append(workers, new) /\ workersRunning' = Append(workersRunning, TRUE)
    OBVIOUS
  <2> HIDE DEF new, StartWorker
  <2>2. DOMAIN workers = 1 .. Len(workers) /\ DOMAIN workersRunning = 1 .. Len(workers)
    BY <1>2
  <2>3. /\ workers' \in Seq(Workers) /\ Len(workers') = Len(workers) + 1
        /\ \A k \in 1 .. Len(workers) : workers'[k] = workers[k]
        /\ workers'[Len(workers) + 1] = new
    BY <2>1, <1>1, <1>2, AppendProperties
  <2>4. /\ workersRunning' \in Seq(BOOLEAN) /\ Len(workersRunning') = Len(workers) + 1
        /\ \A k \in 1 .. Len(workers) : workersRunning'[k] = workersRunning[k]
        /\ workersRunning'[Len(workers) + 1] = TRUE
    BY <2>1, <1>2, AppendProperties
  <2> QED
    BY <2>2, <2>3, <2>4
<1>4. RegistryTypeOK'
  BY <1>1, <1>2, <1>3 DEF RegistryTypeOK, Workers
<1>5. Numbered'
  BY <1>1 DEF Numbered, RegistryTypeOK, Workers
<1>6. Vectors'
  <2>1. started' = new /\ \A k \in DOMAIN workers : workers[k] \in Nat /\ workers[k] <= started
    BY <1>2 DEF Vectors, Workers
  <2>2. \A j, k \in DOMAIN workers : j < k => workers[j] < workers[k]
    BY DEF Vectors
  <2> QED
    BY <2>1, <2>2, <1>1, <1>2, <1>3 DEF Vectors
<1>7. Known'
  <2> SUFFICES ASSUME NEW v \in Active'
               PROVE  \E p \in DOMAIN workers' : workers'[p] = v /\ p <= index'[v]
    BY DEF Known
  <2>1. CASE v = new
    BY <2>1, <1>1, <1>2, <1>3 DEF RegistryTypeOK
  <2>2. CASE v # new
    <3>1. v \in Active /\ index'[v] = index[v]
      BY <2>2 DEF Active, RegistryTypeOK
    <3>2. PICK p \in DOMAIN workers : workers[p] = v /\ p <= index[v]
      BY <3>1 DEF Known, Up
    <3> QED
      BY <3>1, <3>2, <1>2, <1>3
  <2> QED
    BY <2>1, <2>2
<1>8. FlagsAreClearedFromAbove'
  <2> SUFFICES ASSUME NEW k \in DOMAIN workers', ~workersRunning'[k]
               PROVE  \E v \in 1 .. workers'[k] : state'[v] = "exited" /\ index'[v] >= k
    BY DEF FlagsAreClearedFromAbove
  <2>1. k \in DOMAIN workers /\ ~workersRunning[k]
    BY <1>2, <1>3
  <2>4. workers[k] \in Nat /\ workers[k] <= started
    BY <2>1, <1>2 DEF Vectors, Workers
  <2>2. PICK v \in 1 .. workers[k] : state[v] = "exited" /\ index[v] >= k
    BY <2>1 DEF FlagsAreClearedFromAbove
  <2>3. v \in Workers /\ v # new
    BY <2>4, <2>2, <1>1 DEF Workers
  <2> QED
    BY <2>1, <2>2, <2>3, <1>3 DEF RegistryTypeOK
<1>9. Looping' /\ NoneSurvives'
  BY DEF Looping, NoneSurvives
<1> QED
  BY <1>4, <1>5, <1>6, <1>7, <1>8, <1>9
-----------------------------------------------------------------------------

LEMMA TickJoinKeeps ==
  ASSUME MaxWorkers \in Nat, IInv, TickJoin
  PROVE  IInv'
<1> USE DEF IInv, TickJoin
<1>1. /\ workers \in Seq(Workers) /\ workersRunning \in Seq(BOOLEAN)
      /\ Len(workers) = Len(workersRunning) /\ Len(workers) \in Nat /\ Len(workers) <= started
      /\ DOMAIN workers = 1 .. Len(workers) /\ DOMAIN workersRunning = 1 .. Len(workers)
      /\ i \in 1 .. Len(workers) /\ started \in Nat
  BY DEF RegistryTypeOK, Vectors, Looping
<1> DEFINE n == Len(workers) - 1
           from(j) == IF j < i THEN j ELSE j + 1
<1>2. /\ workers' \in Seq(Workers) /\ Len(workers') = n /\ DOMAIN workers' = 1 .. n
      /\ \A j \in 1 .. n : workers'[j] = workers[from(j)]
  BY <1>1, WithoutIsVector
<1>3. /\ workersRunning' \in Seq(BOOLEAN) /\ Len(workersRunning') = n
      /\ DOMAIN workersRunning' = 1 .. n
      /\ \A j \in 1 .. n : workersRunning'[j] = workersRunning[from(j)]
  <2>1. workersRunning' = Without(workersRunning, i) /\ i \in DOMAIN workersRunning
    BY <1>1
  <2>2. n = Len(workersRunning) - 1
    BY <1>1
  <2> HIDE DEF n, TickJoin, IInv
  <2> QED
    BY <1>1, <2>1, <2>2, WithoutIsVector
<1>4. n \in Nat /\ \A j \in 1 .. n : j <= from(j) /\ from(j) \in DOMAIN workers /\ from(j) # i
  BY <1>1
<1>5. UNCHANGED <<started, state, index, locked>> /\ srv = "join" /\ srv' = "loop"
      /\ i' = i + 1 /\ erased' = TRUE /\ state[workers[i]] = "exited"
  OBVIOUS
<1>6. RegistryTypeOK'
  BY <1>1, <1>2, <1>3, <1>5 DEF RegistryTypeOK
<1>7. Numbered'
  BY <1>5 DEF Numbered
<1>8. Vectors'
  <2>1. \A j \in 1 .. n : workers'[j] <= started
    BY <1>1, <1>2, <1>4, <1>5 DEF Vectors
  <2>2. \A j, k \in 1 .. n : j < k => from(j) < from(k)
    BY <1>1
  <2>3. \A j, k \in 1 .. n : j < k => workers'[j] < workers'[k]
    BY <2>2, <1>2, <1>4, <1>5 DEF Vectors
  <2>4. n <= started /\ srv' # "down" /\ started' = started
    BY <1>1, <1>5
  <2> HIDE DEF n, from, TickJoin, IInv
  <2> QED
    BY <2>1, <2>3, <2>4, <1>2, <1>3 DEF Vectors
<1>9. Known'
  <2> SUFFICES ASSUME NEW v \in Active
               PROVE  \E p \in 1 .. n : workers'[p] = v /\ p <= index[v]
    BY <1>2, <1>5 DEF Known, Active
  <2>1. PICK p \in DOMAIN workers : workers[p] = v /\ p <= index[v]
    BY <1>5 DEF Known, Up
  <2>2. p # i /\ index[v] \in Nat
    BY <2>1, <1>5 DEF Active, RegistryTypeOK, Workers
  <2>3. CASE p < i
    BY <2>1, <2>3, <1>1, <1>2
  <2>4. CASE p > i
    <3>1. p - 1 \in 1 .. n /\ from(p - 1) = p /\ p - 1 <= index[v]
      BY <2>1, <2>2, <2>4, <1>1
    <3> QED
      BY <3>1, <2>1, <1>2
  <2> QED
    BY <2>2, <2>3, <2>4, <1>1
<1>10. FlagsAreClearedFromAbove'
  <2> SUFFICES ASSUME NEW k \in 1 .. n, ~workersRunning'[k]
               PROVE  \E v \in 1 .. workers'[k] : state[v] = "exited" /\ index[v] >= k
    BY <1>2, <1>5 DEF FlagsAreClearedFromAbove
  <2>1. from(k) \in DOMAIN workers /\ ~workersRunning[from(k)] /\ workers'[k] = workers[from(k)]
        /\ k <= from(k) /\ from(k) \in Nat
    BY <1>1, <1>2, <1>3, <1>4
  <2>2. workers[from(k)] \in Nat /\ workers[from(k)] <= MaxWorkers
    BY <2>1, <1>1 DEF Workers
  <2>3. PICK v \in 1 .. workers[from(k)] : state[v] = "exited" /\ index[v] >= from(k)
    BY <2>1, <1>5 DEF FlagsAreClearedFromAbove
  <2>4. index[v] \in Nat
    BY <2>2, <2>3 DEF RegistryTypeOK, Workers
  <2> QED
    BY <2>1, <2>3, <2>4
<1>11. Looping' /\ NoneSurvives'
  BY <1>1, <1>2, <1>5 DEF Looping, NoneSurvives
<1> QED
  BY <1>6, <1>7, <1>8, <1>9, <1>10, <1>11

\* The other steps change neither the vectors nor a worker.
LEMMA ControlKeeps ==
  ASSUME MaxWorkers \in Nat, IInv,
         TickBegin \/ TickLook \/ TickEnd \/ ClearBegin \/ Clear
  PROVE  IInv'
<1> USE DEF IInv
<1>1. Len(workers) \in Nat /\ DOMAIN workers = 1 .. Len(workers)
  BY DEF RegistryTypeOK
<1>2. CASE TickBegin
  <2>1. UNCHANGED <<started, state, index, workers, workersRunning>> /\ locked' = TRUE
        /\ srv' = "loop" /\ i' = 1 /\ erased' = FALSE
    BY <1>2 DEF TickBegin
  <2>3. 1 \in 1 .. MaxWorkers + 1 /\ 1 <= Len(workers') + 1
    BY <1>1, <2>1
  <2>4. RegistryTypeOK'
    BY <2>1, <2>3 DEF RegistryTypeOK
  <2>5. Looping'
    BY <2>1, <2>3 DEF Looping
  <2>2. Numbered' /\ Vectors' /\ Known' /\ FlagsAreClearedFromAbove' /\ NoneSurvives'
    BY <1>2 DEF TickBegin, Numbered, Vectors, Known, FlagsAreClearedFromAbove, NoneSurvives, Up, Active
  <2> QED
    BY <2>2, <2>4, <2>5
<1>3. CASE TickLook
  <2>1. IF erased THEN i - 1 \in DOMAIN workers ELSE i \in DOMAIN workers
    BY <1>1, <1>3 DEF TickLook, Looping, RegistryTypeOK
  <2>2. i' \in 1 .. Len(workers) + 1 /\ (srv' = "join" => i' \in DOMAIN workers)
        /\ srv' \in {"loop", "join"} /\ srv = "loop" /\ erased' = FALSE
    BY <2>1, <1>1, <1>3 DEF TickLook
  <2>3. Len(workers) <= MaxWorkers
    BY <1>1, <2>2 DEF Vectors, RegistryTypeOK
  <2>4. RegistryTypeOK' /\ Looping'
    <3>1. UNCHANGED <<started, state, index, workers, workersRunning, locked>>
      BY <1>3 DEF TickLook
    <3>2. i' \in 1 .. MaxWorkers + 1 /\ Len(workers') = Len(workers)
      BY <1>1, <2>2, <2>3, <3>1
    <3>3. RegistryTypeOK'
      BY <2>2, <3>1, <3>2 DEF RegistryTypeOK
    <3>4. i' <= Len(workers') + 1 /\ locked' = TRUE
      BY <1>1, <2>2, <3>1 DEF Looping
    <3> QED
      BY <2>2, <3>1, <3>3, <3>4 DEF Looping
  <2>5. Numbered' /\ Vectors' /\ Known' /\ FlagsAreClearedFromAbove' /\ NoneSurvives'
    BY <1>3, <2>2 DEF TickLook, Numbered, Vectors, Known, FlagsAreClearedFromAbove, NoneSurvives, Up,
       Active
  <2> QED
    BY <2>4, <2>5
<1>4. CASE TickEnd
  <2>1. RegistryTypeOK' /\ Looping'
    BY <1>4 DEF TickEnd, RegistryTypeOK, Looping
  <2>2. Numbered' /\ Vectors' /\ Known' /\ FlagsAreClearedFromAbove' /\ NoneSurvives'
    BY <1>4 DEF TickEnd, Numbered, Vectors, Known, FlagsAreClearedFromAbove, NoneSurvives, Up, Active
  <2> QED
    BY <2>1, <2>2
<1>5. CASE ClearBegin
  BY <1>1, <1>5 DEF ClearBegin, RegistryTypeOK, Numbered, Vectors, Known, FlagsAreClearedFromAbove, Looping,
     NoneSurvives, Up, Active
<1>6. CASE ClearJoin
  <2>1. i' = i + 1 /\ i' \in 1 .. MaxWorkers + 1 /\ i' <= Len(workers) + 1
        /\ i \in Nat
    BY <1>1, <1>6 DEF ClearJoin, Vectors, RegistryTypeOK
  <2>2. RegistryTypeOK' /\ Looping'
    <3>1. state[workers[i]] = "exited" /\ locked' = locked /\ srv = "clear" /\ srv' = srv
      BY <1>6 DEF ClearJoin
    <3>2. \A j \in DOMAIN workers : j < i + 1 => state[workers[j]] = "exited"
      BY <1>1, <2>1, <3>1 DEF Looping
    <3>3. Looping'
      BY <1>6, <2>1, <3>1, <3>2 DEF ClearJoin, Looping
    <3> QED
      BY <1>6, <2>1, <3>3 DEF ClearJoin, RegistryTypeOK
  <2>3. Numbered' /\ Vectors' /\ Known' /\ FlagsAreClearedFromAbove' /\ NoneSurvives'
    BY <1>6 DEF ClearJoin, Numbered, Vectors, Known, FlagsAreClearedFromAbove, NoneSurvives, Up, Active
  <2> QED
    BY <2>2, <2>3
<1>7. CASE ClearEnd
  <2>1. \A j \in DOMAIN workers : state[workers[j]] = "exited"
    BY <1>1, <1>7 DEF ClearEnd, Looping, RegistryTypeOK
  <2>2. Active = {}
    BY <2>1, <1>7 DEF ClearEnd, Known, Up, Active
  <2> QED
    BY <1>7, <2>2 DEF ClearEnd, RegistryTypeOK, Numbered, Vectors, Known, FlagsAreClearedFromAbove, Looping,
       NoneSurvives, Up, Active
<1> QED
  BY <1>2, <1>3, <1>4, <1>5, <1>6, <1>7 DEF Clear

LEMMA InvStep == ASSUME MaxWorkers \in Nat PROVE IInv /\ [RegistryNext]_registryVars => IInv'
<1> SUFFICES ASSUME IInv, [RegistryNext]_registryVars PROVE IInv'
  OBVIOUS
<1>1. CASE UNCHANGED registryVars
  BY <1>1 DEF registryVars, IInv, RegistryTypeOK, Numbered, Vectors, Known, FlagsAreClearedFromAbove, Looping,
     NoneSurvives, Up, Active
<1>2. CASE Stopped
  BY <1>1, <1>2 DEF Stopped
<1> QED
  BY <1>1, <1>2, WorkerEndKeeps, StartKeeps, TickJoinKeeps, ControlKeeps DEF RegistryNext, Tick

-----------------------------------------------------------------------------

LEMMA Invariance == ASSUME MaxWorkers \in Nat PROVE RegistrySpec => []IInv
  BY InvInit, InvStep, PTL DEF RegistrySpec

\* Types, and the positions that the tick uses (Server.cpp 4856-4873).
THEOREM RegistryIsTyped == ASSUME MaxWorkers \in Nat PROVE RegistrySpec => []RegistryTypeOK
<1>1. IInv => RegistryTypeOK
  BY DEF IInv
<1> QED
  BY <1>1, Invariance, PTL

\* No thread object is destroyed while its worker runs.
THEOREM WorkersAreKept == ASSUME MaxWorkers \in Nat PROVE RegistrySpec => []RunningWorkersAreKept
<1>1. IInv => RunningWorkersAreKept
  BY DEF IInv, Known, Up, NoneSurvives, RunningWorkersAreKept
<1> QED
  BY <1>1, Invariance, PTL

\* The vectors stay parallel and in the order of the starts.
THEOREM VectorsStayParallel == ASSUME MaxWorkers \in Nat PROVE RegistrySpec => []VectorsAreParallel
<1>1. IInv => VectorsAreParallel
  BY DEF IInv, Vectors, VectorsAreParallel
<1> QED
  BY <1>1, Invariance, PTL

\* A flag is cleared by its own worker or by an older one.
THEOREM FlagsComeFromAbove == ASSUME MaxWorkers \in Nat PROVE RegistrySpec => []FlagsAreClearedFromAbove
<1>1. IInv => FlagsAreClearedFromAbove
  BY DEF IInv
<1> QED
  BY <1>1, Invariance, PTL

\* The destructor leaves no worker behind.
THEOREM DestructorJoinsAll == ASSUME MaxWorkers \in Nat PROVE RegistrySpec => []NoneSurvives
<1>1. IInv => NoneSurvives
  BY DEF IInv
<1> QED
  BY <1>1, Invariance, PTL

-----------------------------------------------------------------------------
(* The two parts in the specification of the runs.  All theorems above hold   *)
(* for ProcessesSpec as well: a behaviour of it is one of either part.        *)

\* A step of one part leaves the variables of the other as they are.
LEMMA StepOfOnePart ==
  ASSUME [ProcessesNext]_allVars PROVE [Next]_vars /\ [RegistryNext]_registryVars
<1>1. CASE UNCHANGED allVars
  BY <1>1 DEF allVars, vars, registryVars
<1>2. CASE \E t \in Threads : Locking /\ (Step(t) \/ Stop(t) \/ NewThread(t))
  <2>1. Next BY <1>2 DEF Next
  <2>2. UNCHANGED registryVars BY <1>2 DEF Locking
  <2> QED BY <2>1, <2>2
<1>3. CASE \E t \in Threads, n \in Names : Locking /\ (Request(t, n) \/ Try(t, n))
  <2>1. Next BY <1>3 DEF Next
  <2>2. UNCHANGED registryVars BY <1>3 DEF Locking
  <2> QED BY <2>1, <2>2
<1>4. CASE \E w \in Workers : Working /\ WorkerEnd(w)
  <2>1. RegistryNext BY <1>4 DEF RegistryNext
  <2>2. UNCHANGED vars BY <1>4 DEF Working
  <2> QED BY <2>1, <2>2
<1>5. CASE Working /\ (StartWorker \/ Tick)
  <2>1. RegistryNext BY <1>5 DEF RegistryNext
  <2>2. UNCHANGED vars BY <1>5 DEF Working
  <2> QED BY <2>1, <2>2
<1>6. CASE Working /\ (ClearBegin \/ Clear)
  <2>1. RegistryNext BY <1>6 DEF RegistryNext
  <2>2. UNCHANGED vars BY <1>6 DEF Working
  <2> QED BY <2>1, <2>2
<1> QED BY <1>1, <1>2, <1>3, <1>4, <1>5, <1>6 DEF ProcessesNext

\* A behaviour of the specification that is run is one of both parts, with the other one
\* at rest: what the theorems say of a part holds in the run.
THEOREM RunImplementsBothParts == ProcessesSpec => Spec /\ RegistrySpec
<1>1. ProcessesInit => Init /\ RegistryInit
  BY DEF ProcessesInit
<1>2. [ProcessesNext]_allVars => [Next]_vars /\ [RegistryNext]_registryVars
  BY StepOfOnePart
<1> QED
  BY <1>1, <1>2, PTL DEF ProcessesSpec, Spec, RegistrySpec

\* In the behaviours of the run sections with the same name exclude each other as
\* long as nobody has given up waiting, and no name is left in the table.
THEOREM LocksInTheRun == ProcessesSpec => [](ExclusiveUntilGivingUp /\ NoLockIsLeaked)
BY RunImplementsBothParts, SectionsExclude, LocksHaveGuards, PTL

\* What the run checks of the workers: none that still runs is erased from the vectors.
THEOREM WorkersInTheRun ==
  ASSUME MaxWorkers \in Nat PROVE ProcessesSpec => []RunningWorkersAreKept
BY RunImplementsBothParts, WorkersAreKept, PTL
=============================================================================
