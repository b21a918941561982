--------------------------- MODULE WorkerRegistry ---------------------------
(***************************************************************************)
(* The worker threads of the server (crawlserv/src/Main/Server.cpp), which *)
(* execute import, merge, export, deleteurls and testquery.  Main::Server  *)
(* keeps two parallel vectors under workersLock: the thread objects and    *)
(* whether each of them is still running.  A worker is told its position   *)
(* in the vectors when it starts and clears the flag at that position when *)
(* it ends; the tick joins and erases the workers whose flag is cleared,   *)
(* which moves the younger ones down.  Positions are 1-based here.         *)
(***************************************************************************)
EXTENDS Naturals, Sequences

CONSTANT MaxWorkers   \* bound on the workers started, numbered in this order

VARIABLES
  started,         \* number of workers started so far
  state,           \* state[w]: "none", "working", "exited"
  index,           \* index[w]: the position worker w was told
  workers,         \* vector of thread objects, as the numbers of the workers
  workersRunning,  \* vector of flags
  locked,          \* the main thread holds workersLock (a worker's section is one step)
  srv, i, erased   \* main thread: control, loop variables of the tick

registryVars == <<started, state, index, workers, workersRunning, locked, srv, i, erased>>

Workers == 1 .. MaxWorkers
Without(s, k) == [j \in 1 .. Len(s) - 1 |-> IF j < k THEN s[j] ELSE s[j + 1]]

RegistryInit ==
  /\ started = 0
  /\ state = [w \in Workers |-> "none"]
  /\ index = [w \in Workers |-> 0]
  /\ workers = <<>> /\ workersRunning = <<>>
  /\ locked = FALSE
  /\ srv = "poll" /\ i = 1 /\ erased = FALSE

-----------------------------------------------------------------------------
(* Workers.                                                                 *)

\* workerEnd(): the reply is sent, then the flag at the worker's position is
\* cleared; vector::at() throws if there is no such position, and nothing in
\* the worker catches it: the program terminates.
WorkerEnd(w) ==
  /\ state[w] = "working" /\ ~locked /\ srv # "terminated"
  /\ IF index[w] \in DOMAIN workersRunning
     THEN /\ workersRunning' = [workersRunning EXCEPT ![index[w]] = FALSE]
          /\ srv' = srv
     ELSE srv' = "terminated" /\ UNCHANGED workersRunning
  /\ state' = [state EXCEPT ![w] = "exited"]
  /\ UNCHANGED <<started, index, workers, locked, i, erased>>

-----------------------------------------------------------------------------
(* The main thread.                                                         *)

\* cmd(): under workersLock, for each of the five commands.
StartWorker ==
  /\ srv = "poll" /\ started < MaxWorkers
  /\ LET w == started + 1 IN
       /\ started' = w
       /\ index' = [index EXCEPT ![w] = Len(workers) + 1]
       /\ state' = [state EXCEPT ![w] = "working"]
       /\ workers' = Append(workers, w)
       /\ workersRunning' = Append(workersRunning, TRUE)
  /\ UNCHANGED <<locked, srv, i, erased>>

\* tickRemoveFinishedWorkerThreads(): for(i = 0; i < size; ++i) under the lock.
TickBegin ==
  /\ srv = "poll" /\ workers # <<>>
  /\ locked' = TRUE
  /\ srv' = "loop" /\ i' = 1 /\ erased' = FALSE
  /\ UNCHANGED <<started, state, index, workers, workersRunning>>

\* Mutant: a worker that still runs is waited for, under the lock it needs.
TickLookWaits ==
  /\ srv = "loop" /\ i <= Len(workers)
  /\ LET k == IF erased THEN i - 1 ELSE i IN
       IF workersRunning[k]
       THEN srv' = "loop" /\ i' = k
       ELSE srv' = "join" /\ i' = k
  /\ erased' = FALSE
  /\ UNCHANGED <<started, state, index, workers, workersRunning, locked>>

\* After an erasure the same position is looked at again.
TickLook ==
  /\ srv = "loop" /\ i <= Len(workers)
  /\ LET k == IF erased THEN i - 1 ELSE i IN
       IF workersRunning[k]
       THEN srv' = "loop" /\ i' = k + 1
       ELSE srv' = "join" /\ i' = k
  /\ erased' = FALSE
  /\ UNCHANGED <<started, state, index, workers, workersRunning, locked>>

\* Mutant: the worker is erased without being joined.
TickDetach ==
  /\ srv = "join" /\ srv' = "loop"
  /\ workers' = Without(workers, i)
  /\ workersRunning' = Without(workersRunning, i)
  /\ i' = i + 1 /\ erased' = TRUE
  /\ UNCHANGED <<started, state, index, locked>>

\* join(), then both entries are erased.
TickJoin ==
  /\ srv = "join" /\ state[workers[i]] = "exited" /\ srv' = "loop"
  /\ workers' = Without(workers, i)
  /\ workersRunning' = Without(workersRunning, i)
  /\ i' = i + 1 /\ erased' = TRUE
  /\ UNCHANGED <<started, state, index, locked>>

TickEnd ==
  /\ srv = "loop" /\ i > Len(workers)
  /\ locked' = FALSE /\ srv' = "poll"
  /\ UNCHANGED <<started, state, index, workers, workersRunning, i, erased>>

\* The destructor joins one worker after the other, without the lock.
ClearBegin ==
  /\ srv = "poll" /\ srv' = "clear" /\ i' = 1
  /\ UNCHANGED <<started, state, index, workers, workersRunning, locked, erased>>

ClearJoin ==
  /\ srv = "clear" /\ i <= Len(workers) /\ state[workers[i]] = "exited"
  /\ i' = i + 1
  /\ UNCHANGED <<started, state, index, workers, workersRunning, locked, srv, erased>>

ClearEnd ==
  /\ srv = "clear" /\ i > Len(workers)
  /\ srv' = "down" /\ workers' = <<>>
  /\ UNCHANGED <<started, state, index, workersRunning, locked, i, erased>>

Stopped == srv \in {"down", "terminated"} /\ UNCHANGED registryVars

Tick == TickBegin \/ TickLook \/ TickJoin \/ TickEnd
Clear == ClearJoin \/ ClearEnd

RegistryNext ==
  \/ \E w \in Workers : WorkerEnd(w)
  \/ StartWorker \/ Tick \/ ClearBegin \/ Clear \/ Stopped

RegistrySpec == RegistryInit /\ [][RegistryNext]_registryVars

-----------------------------------------------------------------------------

Active == {w \in Workers : state[w] = "working"}

RegistryTypeOK ==
  /\ started \in 0 .. MaxWorkers
  /\ state \in [Workers -> {"none", "working", "exited"}]
  /\ index \in [Workers -> 0 .. MaxWorkers]
  /\ workers \in Seq(Workers) /\ workersRunning \in Seq(BOOLEAN)
  /\ locked \in BOOLEAN /\ erased \in BOOLEAN
  /\ srv \in {"poll", "loop", "join", "clear", "down", "terminated"}
  /\ i \in 1 .. MaxWorkers + 1

\* The two vectors stay parallel, in the order in which the workers started:
\* cmd() and the tick change both of them (Server.cpp 397-411, 4865-4873).
VectorsAreParallel ==
  srv # "down" =>
    /\ Len(workers) = Len(workersRunning)
    /\ \A j, k \in DOMAIN workers : j < k => workers[j] < workers[k]

\* A thread object that is destroyed has been joined: as long as a worker runs,
\* its object is in the vector, else std::thread would end the program.
RunningWorkersAreKept ==
  srv # "terminated" =>
    \A w \in Active : \E k \in DOMAIN workers : workers[k] = w

\* A worker can be below the position it was told, never above it: the flag it
\* clears is its own or that of a younger worker.  The tick therefore waits only
\* for workers that an older one, or the worker itself, has reported.
FlagsAreClearedFromAbove ==
  srv \notin {"down", "terminated"} =>
    \A k \in DOMAIN workers : ~workersRunning[k] =>
      \E w \in 1 .. workers[k] : state[w] = "exited" /\ index[w] >= k

\* The destructor leaves no worker behind.
NoneSurvives == srv = "down" => Active = {}

\* The tick ends, so that the server goes on answering ("to not block the
\* server", Server.cpp 396), as long as no worker is reported by another one.
\* Otherwise it joins under workersLock a worker that needs workersLock to end,
\* and both wait for ever.
Misreported == \E k \in DOMAIN workers : ~workersRunning[k] /\ state[workers[k]] = "working"
TickEnds == ~locked \/ srv = "terminated" \/ Misreported
TickCompletes == locked ~> TickEnds
=============================================================================
