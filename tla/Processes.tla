----------------------------- MODULE Processes ------------------------------
(***************************************************************************)
(* Two parts of the server in which threads wait for each other, each run  *)
(* by itself with the fairness its scheduling justifies: the named locks   *)
(* and the worker threads.  A behaviour is one of the part that is chosen  *)
(* at its beginning; the variables of the other part stay as they begin.   *)
(***************************************************************************)
EXTENDS NamedLock, WorkerRegistry

CONSTANT Parts   \* the parts that are run

VARIABLE part

allVars == <<part, vars, registryVars>>

-----------------------------------------------------------------------------

ProcessesInit == part \in Parts /\ Init /\ RegistryInit

Locking == part = "locks" /\ UNCHANGED <<part, registryVars>>
Working == part = "workers" /\ UNCHANGED <<part, vars>>

ProcessesNext ==
  \/ \E t \in Threads : Locking /\ (Step(t) \/ Stop(t) \/ NewThread(t))
  \/ \E t \in Threads, n \in Names : Locking /\ (Request(t, n) \/ Try(t, n))
  \/ \E w \in Workers : Working /\ WorkerEnd(w)
  \/ Working /\ (StartWorker \/ Tick)
  \/ Working /\ (ClearBegin \/ Clear)

\* Every worker's command ends; the main loop ticks between two commands.
WorkingFairness ==
  /\ \A w \in Workers : SF_allVars(Working /\ WorkerEnd(w))
  /\ WF_allVars(Working /\ (TickLook \/ TickJoin \/ TickEnd))
  /\ SF_allVars(Working /\ TickBegin) /\ WF_allVars(Working /\ Clear)

ProcessesSpec ==
  ProcessesInit /\ [][ProcessesNext]_allVars /\ Fairness /\ WorkingFairness

=============================================================================
