---------------------------- MODULE ModuleThread ----------------------------
(***************************************************************************)
(* One crawler, parser, extractor or analyzer thread, as Module::Thread    *)
(* runs it (crawlserv/src/Module/Thread.cpp), with the two processes that  *)
(* share its flags:                                                        *)
(*                                                                         *)
(*   - the thread itself (control state `th'): main(), init(), tick(),     *)
(*     wait(), clear(), setStatusMessage(), pauseByThread();               *)
(*   - the main thread of the server (control state `srv'): pause(),       *)
(*     unpause(), stop(), reset(), warpTo(), interrupt(), end(), as the    *)
(*     server's commands, its tick and its destructor call them.           *)
(*                                                                         *)
(* Every atomic load, store or compare-exchange the other process can      *)
(* observe is a step of its own.  `row' is the thread's line in the table  *)
(* crawlserv_threads, the only state that survives a restart.              *)
(***************************************************************************)
EXTENDS Naturals

CONSTANTS
  Instances,  \* which threads are started, see Instance
  MaxId,      \* largest ID a thread processes
  DbFails     \* whose database accesses may throw: "server", "thread"

\* What a thread is started with: `pausable', which is FALSE for the analyzers'
\* algorithms, and whether an earlier thread with the same ID is still running.
Instance == [pausable : BOOLEAN, earlier : BOOLEAN]

ASSUME InstancesAssumption == Instances \subseteq Instance /\ Instances # {}
ASSUME MaxIdAssumption == MaxId \in Nat \ {0}
ASSUME DbFailsAssumption == DbFails \subseteq {"server", "thread"}

VARIABLES
  flag,           \* the atomic Boolean members of Module::Thread
  overwriteLast,  \* the ID to warp to, 0 for none
  cond,           \* pauseCondition: its mutex is held by the thread, it was signalled
  th,             \* control state of the thread
  ctx, seen,      \* caller of setStatusMessage(), the pause state it has read
  last,           \* ID last processed by the thread
  srv,            \* control state of the server's main thread
  registered,     \* the thread is in the server's vector
  row,            \* the row with the thread's ID in the database, and whose it is
  earlier,        \* an earlier thread with the same ID is still running
  stopped,        \* history: stop() was called
  orphaned        \* history: the row went because of a deleted configuration

shared == <<flag, overwriteLast, cond>>
local == <<ctx, seen, last>>
outside == <<earlier, stopped, orphaned>>
server == <<srv, registered, outside>>
vars == <<th, shared, local, server, row>>

Ids == 0 .. MaxId

Flags == [pausable : BOOLEAN, running : BOOLEAN, paused : BOOLEAN,
          toReset : BOOLEAN, interrupted : BOOLEAN, terminated : BOOLEAN,
          shutdown : BOOLEAN, finished : BOOLEAN]
CondType == [locked : BOOLEAN, notified : BOOLEAN]
Rows == [of : {"thread", "another", "nobody"}, paused : BOOLEAN, last : Ids]
NoRow == [of |-> "nobody", paused |-> FALSE, last |-> 0]

\* Initial values of `pausable'.
Kinds == {instance.pausable : instance \in Instances}

\* The row is the one of this thread.
Saved == row.of = "thread"

(***************************************************************************)
(* Calls the thread makes into its module (onInit, onReset, ...) and the   *)
(* places where it reports an error.  In each of them it may write its     *)
(* status and it may throw.  Return is where it continues after the status *)
(* has been written, Handlers where an exception ends: the catch clauses   *)
(* of init(), tick(), wait(), clear() and main().                          *)
(***************************************************************************)
Contexts == {"init", "initFailed", "resetting", "pausing", "unpausing",
             "ticking", "error", "clearing", "ending"}

Return ==
  [c \in Contexts |-> CASE c = "initFailed" -> "initAbort"
                        [] c = "error" -> "pauseSelf"
                        [] c = "ending" -> "finishing"
                        [] OTHER -> c]

Handlers ==
  [c \in Contexts |-> CASE c = "init" -> {"initFailed"}
                        [] c = "initFailed" -> {"initAbort"}
                        [] c \in {"resetting", "error"} -> {"terminating"}
                        [] c \in {"pausing", "unpausing"} -> {"loop", "terminating"}
                        [] c = "ticking" -> {"warping", "error"}
                        [] c = "clearing" -> {"ending"}
                        [] c = "ending" -> {"finishing"}]

ThreadStates ==
  Contexts \cup
  {"none", "initAbort", "loop", "loopInterrupted", "resetCheck", "pauseCheck",
   "locking", "checking", "enqueuing", "blocked", "pauseSelf",
   "pauseSelfWrite", "warping", "finishing", "terminating", "exited",
   "msg", "msgPaused", "msgWrite"}

ServerStates ==
  {"idle", "pauseWrite", "unpauseWrite",
   "stopRunning", "stopPaused", "stopNotify", "stopReset",
   "interruptRunning", "interruptPaused", "interruptNotify",
   "join", "joinDelete", "remove", "removeDelete", "leave", "down"}

-----------------------------------------------------------------------------
(* Construction of a thread that is `kind' pausable and starts `asPaused'.  *)

NewFlags(kind, asPaused) ==
  [pausable |-> kind, running |-> TRUE, paused |-> asPaused, toReset |-> FALSE,
   interrupted |-> FALSE, terminated |-> FALSE, shutdown |-> FALSE,
   finished |-> FALSE]

Init ==
  /\ \E instance \in Instances :
       flag = NewFlags(instance.pausable, FALSE) /\ earlier = instance.earlier
  /\ overwriteLast = 0
  /\ cond = [locked |-> FALSE, notified |-> FALSE]
  /\ th = "init" /\ ctx = "init" /\ seen = FALSE
  /\ last = 0
  /\ srv = "idle" /\ registered = TRUE
  /\ row = [of |-> "thread", paused |-> FALSE, last |-> 0]
  /\ stopped = FALSE /\ orphaned = FALSE

-----------------------------------------------------------------------------
(* The thread.                                                              *)

Goto(from, to) == th = from /\ th' = to
Move(from, to) == Goto(from, to) /\ UNCHANGED <<shared, local, server, row>>

\* An UPDATE finds the row by its ID, whose thread it may be; it changes
\* nothing while there is none.
WritePaused(p) ==
  row' = IF row.of = "nobody" THEN row ELSE [row EXCEPT !.paused = p]
WriteLast(l) ==
  row' = IF row.of = "nobody" THEN row ELSE [row EXCEPT !.last = l]

\* Leaving wait(), by return or exception, releases the unique_lock.
Leave(context) ==
  cond' = IF context = "unpausing" THEN [cond EXCEPT !.locked = FALSE] ELSE cond

\* setStatusMessage(): the message is stored under statusLock ...
Message ==
  /\ th \in Contexts
  /\ th = "ending" => flag.interrupted
  /\ th' = "msg" /\ ctx' = th
  /\ UNCHANGED <<shared, seen, last, server, row>>

\* The local variables go when setStatusMessage() is left.
Returned == ctx' = "init" /\ seen' = FALSE

\* ... then, outside the lock, `interrupted' decides which statement runs:
\* that of an interrupted thread leaves the column `paused' alone ...
MessageInterrupted ==
  /\ Goto("msg", IF flag.interrupted THEN Return[ctx] ELSE "msgPaused")
  /\ IF flag.interrupted THEN Returned ELSE UNCHANGED <<ctx, seen>>
  /\ UNCHANGED <<shared, last, server, row>>

\* ... any other thread reads its pause state ...
MessagePaused ==
  /\ Goto("msgPaused", "msgWrite")
  /\ seen' = flag.paused
  /\ UNCHANGED <<shared, ctx, last, server, row>>

\* ... and writes the value it has read.
MessageWrite ==
  /\ Goto("msgWrite", Return[ctx])
  /\ WritePaused(seen)
  /\ Returned
  /\ UNCHANGED <<shared, last, server>>

\* One of the statements of setStatusMessage() throws.
MessageFails ==
  /\ "thread" \in DbFails
  /\ th \in {"msg", "msgWrite"} /\ th' \in Handlers[ctx]
  /\ Leave(ctx) /\ Returned
  /\ UNCHANGED <<flag, overwriteLast, last, server, row>>

\* A callback, or writing the log, throws.
Throw ==
  /\ th \in Contexts /\ th' \in Handlers[th]
  /\ Leave(th)
  /\ UNCHANGED <<flag, overwriteLast, local, server, row>>

\* init(): onInit() has returned.
InitDone == Move("init", "loop")

\* init(): onInit() has thrown, the error has been reported.
InitAbort ==
  /\ Goto("initAbort", "loop")
  /\ flag' = [flag EXCEPT !.interrupted = TRUE]
  /\ UNCHANGED <<overwriteLast, cond, local, server, row>>

\* main(): while(running && !interrupted), one load after the other.
LoopRunning == Move("loop", IF flag.running THEN "loopInterrupted" ELSE "clearing")

LoopInterrupted == Move("loopInterrupted",
          IF flag.interrupted THEN "clearing" ELSE "resetCheck")

\* compare_exchange_weak on toReset: it may fail although toReset is set.
LoopReset ==
  /\ Goto("resetCheck", "resetting") /\ flag.toReset
  /\ flag' = [flag EXCEPT !.toReset = FALSE]
  /\ UNCHANGED <<overwriteLast, cond, local, server, row>>

LoopNoReset == Move("resetCheck", "pauseCheck")

ResetDone == Move("resetting", "pauseCheck")

LoopPaused == Move("pauseCheck", IF flag.paused THEN "pausing" ELSE "ticking")

\* wait(): onPause() has returned; then the lock, the predicate, the wait.
PauseDone == Move("pausing", "locking")

WaitLock ==
  /\ Goto("locking", "checking")
  /\ cond' = [cond EXCEPT !.locked = TRUE]
  /\ UNCHANGED <<flag, overwriteLast, local, server, row>>

WaitCheck == Move("checking", IF flag.paused THEN "enqueuing" ELSE "unpausing")

WaitBlock ==
  /\ Goto("enqueuing", "blocked")
  /\ cond' = [locked |-> FALSE, notified |-> FALSE]
  /\ UNCHANGED <<flag, overwriteLast, local, server, row>>

WaitWake ==
  /\ Goto("blocked", "checking")
  /\ cond.notified
  /\ cond' = [locked |-> TRUE, notified |-> FALSE]
  /\ UNCHANGED <<flag, overwriteLast, local, server, row>>

\* A condition variable may also wake up although nobody has signalled it.
WaitSpurious ==
  /\ Goto("blocked", "checking")
  /\ ~cond.notified
  /\ cond' = [cond EXCEPT !.locked = TRUE]
  /\ UNCHANGED <<flag, overwriteLast, local, server, row>>

\* onUnpause(), called only while running, has returned.
UnpauseDone ==
  /\ Goto("unpausing", "loop")
  /\ Leave("unpausing")
  /\ UNCHANGED <<flag, overwriteLast, local, server, row>>

\* onTick() sets the last ID (setLast, incrementLast).
TickSetLast ==
  /\ th = "ticking" /\ th' = th
  /\ \E l \in Ids \ {last} : last' = l /\ WriteLast(l)
  /\ UNCHANGED <<shared, ctx, seen, server>>

\* The same when the UPDATE throws: the member has been assigned before.
TickSetLastFails ==
  /\ "thread" \in DbFails
  /\ th = "ticking" /\ th' \in Handlers["ticking"]
  /\ \E l \in Ids \ {last} : last' = l
  /\ UNCHANGED <<shared, ctx, seen, server, row>>

TickDone == Move("ticking", "warping")

\* pauseByThread(), called by the catch clauses of tick().
PauseSelf ==
  /\ Goto("pauseSelf", IF flag.paused THEN "warping" ELSE "pauseSelfWrite")
  /\ flag' = [flag EXCEPT !.paused = TRUE]
  /\ UNCHANGED <<overwriteLast, cond, local, server, row>>

PauseSelfWrite ==
  /\ Goto("pauseSelfWrite", "warping")
  /\ WritePaused(TRUE)
  /\ UNCHANGED <<shared, local, server>>

PauseSelfWriteFails ==
  /\ "thread" \in DbFails
  /\ Goto("pauseSelfWrite", "terminating")
  /\ UNCHANGED <<shared, local, server, row>>

\* tick(): "time travel".  setLast() is outside the try block of tick().
Warp ==
  /\ Goto("warping", "loop")
  /\ overwriteLast > 0 /\ overwriteLast' = 0
  /\ last' = overwriteLast
  /\ WriteLast(last')
  /\ UNCHANGED <<flag, cond, ctx, seen, server>>

WarpFails ==
  /\ "thread" \in DbFails
  /\ Goto("warping", "terminating")
  /\ overwriteLast \notin {0, last} /\ overwriteLast' = 0
  /\ last' = overwriteLast
  /\ UNCHANGED <<flag, cond, ctx, seen, server, row>>

\* No target, or compare_exchange_weak has failed: it stays for the next tick.
NoWarp == Move("warping", "loop")

\* clear(): onClear() has returned.
ClearDone == Move("clearing", "ending")

\* onEnd() of a thread that was not interrupted only writes to the log.
EndLog ==
  /\ Goto("ending", "finishing")
  /\ ~flag.interrupted
  /\ UNCHANGED <<shared, local, server, row>>

Finish ==
  /\ Goto("finishing", "exited")
  /\ flag' = [flag EXCEPT !.finished = TRUE]
  /\ UNCHANGED <<overwriteLast, cond, local, server, row>>

\* main(): an exception that nothing else has caught.
Terminate ==
  /\ Goto("terminating", "exited")
  /\ flag' = [flag EXCEPT !.terminated = TRUE]
  /\ UNCHANGED <<overwriteLast, cond, local, server, row>>

CallbackReturns ==
  InitDone \/ ResetDone \/ PauseDone \/ UnpauseDone \/ TickDone \/ ClearDone

\* Where an error is reported there is nothing else to do.
Report == th \in {"initFailed", "error", "ending"} /\ (Message \/ Throw)

Progress ==
  \/ Report
  \/ MessageInterrupted \/ MessagePaused \/ MessageWrite \/ InitAbort
  \/ LoopRunning \/ LoopInterrupted \/ LoopReset \/ LoopNoReset \/ LoopPaused
  \/ WaitLock \/ WaitCheck \/ WaitBlock \/ WaitWake
  \/ PauseSelf \/ PauseSelfWrite \/ Warp \/ NoWarp \/ EndLog \/ Finish
  \/ Terminate

Incident ==
  \/ Message \/ MessageFails \/ Throw \/ WaitSpurious
  \/ TickSetLast \/ TickSetLastFails \/ PauseSelfWriteFails \/ WarpFails

ThreadNext == Progress \/ CallbackReturns \/ Incident

-----------------------------------------------------------------------------
(* The main thread of the server.  It handles one command at a time, so the *)
(* operations below overlap with the thread, never with each other.         *)

thread == <<th, local>>

Command == srv = "idle" /\ registered
SrvGoto(from, to) == srv = from /\ srv' = to
SrvSet(from, to, value) ==
  /\ SrvGoto(from, to) /\ flag' = value
  /\ UNCHANGED <<thread, overwriteLast, cond, registered, outside, row>>

\* Mutant: notify_one() without taking pauseLock.
NotifyUnlocked == cond' = [cond EXCEPT !.notified = (@ \/ th = "blocked")]

\* notify_one() under pauseLock wakes the thread if it is waiting.
Notify ==
  /\ ~cond.locked
  /\ cond' = [cond EXCEPT !.notified = (@ \/ th = "blocked")]

\* pause(): refused when not pausable; the database follows a change only.
Pause ==
  /\ Command /\ flag.pausable
  /\ srv' = IF flag.paused THEN "idle" ELSE "pauseWrite"
  /\ flag' = [flag EXCEPT !.paused = TRUE]
  /\ UNCHANGED <<thread, overwriteLast, cond, registered, outside, row>>

PauseWrite ==
  /\ SrvGoto("pauseWrite", "idle")
  /\ WritePaused(TRUE)
  /\ UNCHANGED <<thread, shared, registered, outside>>

PauseWriteFails ==
  /\ "server" \in DbFails
  /\ SrvGoto("pauseWrite", "idle")
  /\ UNCHANGED <<thread, shared, registered, outside, row>>

Unpause ==
  /\ Command /\ flag.paused
  /\ srv' = "unpauseWrite"
  /\ flag' = [flag EXCEPT !.paused = FALSE]
  /\ UNCHANGED <<thread, overwriteLast, cond, registered, outside, row>>

\* Under pauseLock and statusLock: write the pause state, then notify.
UnpauseWrite ==
  /\ SrvGoto("unpauseWrite", "idle")
  /\ WritePaused(FALSE) /\ Notify
  /\ UNCHANGED <<thread, flag, overwriteLast, registered, outside>>

\* The statement throws: the command fails before notify_one().
UnpauseWriteFails ==
  /\ "server" \in DbFails
  /\ SrvGoto("unpauseWrite", "idle") /\ ~cond.locked
  /\ UNCHANGED <<thread, shared, registered, outside, row>>

\* Mutant: stop() does not mark the thread for shutdown.
StopWithoutShutdown ==
  /\ Command
  /\ srv' = IF flag.running THEN "stopRunning" ELSE "stopReset"
  /\ stopped' = TRUE
  /\ UNCHANGED <<thread, shared, registered, earlier, orphaned, row>>

\* stop()
Stop ==
  /\ Command
  /\ srv' = IF flag.running THEN "stopRunning" ELSE "stopReset"
  /\ flag' = [flag EXCEPT !.shutdown = (@ \/ flag.running)]
  /\ stopped' = TRUE
  /\ UNCHANGED <<thread, overwriteLast, cond, registered, earlier, orphaned, row>>

StopRunning ==
  SrvSet("stopRunning", "stopPaused",
         [flag EXCEPT !.running = FALSE])

\* Mutant: stop() clears `paused' without waking the thread.
StopPausedSilently ==
  SrvSet("stopPaused", "stopReset",
         [flag EXCEPT !.paused = FALSE])

StopPaused ==
  SrvSet("stopPaused", IF flag.paused THEN "stopNotify" ELSE "stopReset",
         [flag EXCEPT !.paused = FALSE])

StopNotify ==
  /\ SrvGoto("stopNotify", "stopReset")
  /\ Notify
  /\ UNCHANGED <<thread, flag, overwriteLast, registered, outside, row>>

\* Mutant: stop() deletes the row itself, before the thread has ended.
StopDeletesRow ==
  /\ SrvGoto("stopReset", "idle")
  /\ flag' = [flag EXCEPT !.interrupted = FALSE]
  /\ row' = NoRow
  /\ UNCHANGED <<thread, overwriteLast, cond, registered, outside>>

StopReset ==
  SrvSet("stopReset", "idle",
         [flag EXCEPT !.interrupted = FALSE])

\* reset()
Reset ==
  /\ Command /\ srv' = srv
  /\ flag' = [flag EXCEPT !.toReset = TRUE]
  /\ UNCHANGED <<thread, overwriteLast, cond, registered, outside, row>>

\* warpTo(): refuses target 0; the ID before the target becomes the last one.
WarpTo(target) ==
  /\ Command /\ srv' = srv
  /\ target > 0
  /\ overwriteLast' = target - 1
  /\ UNCHANGED <<thread, flag, cond, registered, outside, row>>

\* The destructor of the server calls interrupt(): nothing unless running ...
Destroy ==
  /\ srv = "idle"
  /\ srv' = IF ~registered THEN "leave"
            ELSE IF flag.running THEN "interruptRunning" ELSE "join"
  /\ flag' = IF registered /\ flag.running
             THEN [flag EXCEPT !.interrupted = TRUE, !.shutdown = TRUE]
             ELSE flag
  /\ UNCHANGED <<thread, overwriteLast, cond, registered, outside, row>>

InterruptRunning ==
  SrvSet("interruptRunning", "interruptPaused",
         [flag EXCEPT !.running = FALSE])

InterruptPaused ==
  SrvSet("interruptPaused", IF flag.paused THEN "interruptNotify" ELSE "join",
         [flag EXCEPT !.paused = FALSE])

InterruptNotify ==
  /\ SrvGoto("interruptNotify", "join")
  /\ Notify
  /\ UNCHANGED <<thread, flag, overwriteLast, registered, outside, row>>

\* Mutant: the tick leaves out interrupted threads.
RemoveNotInterrupted ==
  /\ Command /\ flag.shutdown /\ flag.finished /\ ~flag.interrupted
  /\ srv' = "remove"
  /\ UNCHANGED <<thread, shared, registered, outside, row>>

\* ... and then end(), as does the tick for a thread shut down and finished.
RemoveFinished ==
  /\ Command /\ flag.shutdown /\ flag.finished
  /\ srv' = "remove"
  /\ UNCHANGED <<thread, shared, registered, outside, row>>

\* Mutant: end() does not wait for the thread.
JoinWithoutWaiting(from, next, delete) ==
  /\ SrvGoto(from, IF flag.interrupted THEN next ELSE delete)
  /\ flag.shutdown \/ flag.finished
  /\ registered' = (registered /\ ~flag.interrupted)
  /\ UNCHANGED <<thread, shared, outside, row>>

\* end(): join; an interrupted thread keeps its row.
Join(from, next, delete) ==
  /\ SrvGoto(from, IF flag.interrupted THEN next ELSE delete)
  /\ flag.shutdown \/ flag.finished
  /\ th = "exited"
  /\ registered' = (registered /\ ~flag.interrupted)
  /\ UNCHANGED <<thread, shared, outside, row>>

\* deleteThread(), by ID, after which the server drops the thread object.
Delete(from, next) ==
  /\ SrvGoto(from, next)
  /\ row' = NoRow
  /\ registered' = FALSE
  /\ UNCHANGED <<thread, shared, outside>>

\* deleteconfig asks for no threads: the foreign key of crawlserv_threads
\* deletes the thread's row with its configuration, and nobody tells the thread.
\* Once the server has no such thread (any more), deletewebsite and
\* deleteurllist delete a row that is left in the same way.
DeleteConfig ==
  /\ srv = "idle" /\ srv' = srv
  /\ Saved
  /\ row' = NoRow
  /\ orphaned' = TRUE
  /\ UNCHANGED <<thread, shared, registered, earlier, stopped>>

\* The ID is free: once the table is empty deleteThread() resets its
\* auto-increment, and addThread() gives the ID to a later thread.
IdGivenAgain ==
  /\ srv = "idle" /\ srv' = srv
  /\ row.of = "nobody"
  /\ row' = [of |-> "another", paused |-> FALSE, last |-> 0]
  /\ UNCHANGED <<thread, shared, registered, outside>>

\* The other side of it: an earlier thread whose configuration was deleted runs on
\* with the ID this thread has got.  Its UPDATEs hit this thread's row ...
EarlierWrites ==
  /\ earlier /\ Saved
  /\ \/ \E p \in BOOLEAN : WritePaused(p)
     \/ \E l \in Ids : WriteLast(l)
  /\ UNCHANGED <<thread, shared, server>>

\* ... and when it has been stopped and has ended, the server deletes the row.
EarlierEnds ==
  /\ earlier /\ earlier' = FALSE
  /\ srv \in {"idle", "leave"}
  /\ row' = IF Saved THEN NoRow ELSE row
  /\ orphaned' = (orphaned \/ Saved)
  /\ UNCHANGED <<thread, shared, srv, registered, stopped>>

ServerStep ==
  \/ PauseWrite \/ UnpauseWrite
  \/ StopRunning \/ StopPaused \/ StopNotify \/ StopReset
  \/ InterruptRunning \/ InterruptPaused \/ InterruptNotify
  \/ Join("join", "leave", "joinDelete") \/ Delete("joinDelete", "leave")
  \/ Join("remove", "idle", "removeDelete") \/ Delete("removeDelete", "idle")

ServerCommand ==
  \/ Pause \/ Unpause \/ Stop \/ Reset \/ Destroy
  \/ \E target \in Ids : WarpTo(target)
  \/ PauseWriteFails \/ UnpauseWriteFails
  \/ DeleteConfig \/ IdGivenAgain \/ EarlierEnds

-----------------------------------------------------------------------------
(* The process ends, orderly or by a crash; only the row remains.           *)

NewMemory(kind, asPaused, lastId) ==
  /\ flag' = NewFlags(kind, asPaused)
  /\ overwriteLast' = 0
  /\ cond' = [locked |-> FALSE, notified |-> FALSE]
  /\ ctx' = "init" /\ seen' = FALSE
  /\ last' = lastId

Down ==
  /\ srv # "down" /\ srv' = "down"
  /\ th' = "none" /\ registered' = FALSE
  /\ NewMemory(flag.pausable, FALSE, 0)
  /\ earlier' = FALSE
  /\ UNCHANGED <<stopped, orphaned, row>>

Exit == srv = "leave" /\ Down
Crash == srv # "leave" /\ Down

\* Mutant: a thread is continued although its row is gone.
RestartAnyway ==
  /\ SrvGoto("down", "idle")
  /\ th' = "init" /\ registered' = TRUE
  /\ \E kind \in Kinds : NewMemory(kind, row.paused, row.last)
  /\ stopped' = FALSE
  /\ UNCHANGED <<earlier, orphaned, row>>

\* initThreads() continues every thread found in the table.
Restart ==
  /\ SrvGoto("down", "idle") /\ Saved
  /\ th' = "init" /\ registered' = TRUE
  /\ \E kind \in Kinds : NewMemory(kind, row.paused, row.last)
  /\ stopped' = FALSE
  /\ UNCHANGED <<earlier, orphaned, row>>

\* Nothing is left of a thread whose row has been deleted; with a row of its
\* ID the next server continues another thread.
Gone == srv = "down" /\ ~Saved /\ UNCHANGED vars

Next ==
  \/ ThreadNext \/ ServerStep \/ ServerCommand \/ RemoveFinished
  \/ EarlierWrites
  \/ Exit \/ Crash \/ Restart \/ Gone

(***************************************************************************)
(* Fairness: the operating system runs both threads; every callback of the *)
(* module returns in the end, however often it writes its status before;   *)
(* the server's main loop comes back to its tick between any two commands. *)
(***************************************************************************)
Fairness ==
  /\ WF_vars(Progress) /\ SF_vars(CallbackReturns)
  /\ WF_vars(ServerStep) /\ SF_vars(RemoveFinished)

Spec == Init /\ [][Next]_vars
FairSpec == Spec /\ Fairness

-----------------------------------------------------------------------------
(* Type.                                                                    *)

TypeOK ==
  /\ flag \in Flags
  /\ overwriteLast \in Ids
  /\ cond \in CondType
  /\ th \in ThreadStates /\ ctx \in Contexts /\ seen \in BOOLEAN
  /\ last \in Ids
  /\ srv \in ServerStates /\ registered \in BOOLEAN
  /\ row \in Rows
  /\ earlier \in BOOLEAN /\ stopped \in BOOLEAN /\ orphaned \in BOOLEAN

-----------------------------------------------------------------------------
(* Safety.                                                                  *)

\* A thread that sleeps in wait() although it is no longer paused has been
\* signalled or is about to be: unpause(), stop() and interrupt() clear the
\* flag before they take pauseLock, so the signal must not come in between
\* the thread's test of the flag and its sleep (Thread.cpp 302-381, 990-1024).
NoLostWakeup ==
  th = "blocked" /\ ~flag.paused =>
    cond.notified \/ srv \in {"unpauseWrite", "stopNotify", "interruptNotify"}

\* The server deletes the row of a thread only when its user has stopped it: one
\* that was interrupted or has failed is continued by the next server.  The
\* exception is deleteconfig: of the configuration the thread runs with, or
\* earlier of that of a thread which runs on with the ID of this one.
OnlyStopDeletes == ~Saved => stopped \/ orphaned

\* The row outlives the thread, with the same exception.
RowOutlivesThread == ~Saved => th \in {"exited", "none"} \/ orphaned

\* Both: what its own end() deletes has ended, and was to end.
RowsAreKept == OnlyStopDeletes /\ RowOutlivesThread

\* A thread that did not lose its row to deleteconfig neither writes to nor deletes
\* the row of a later thread that was given its ID, in whatever order its end, its
\* last UPDATEs and the commands come (deleteThread() resets the auto-increment of
\* an empty table, Database.cpp 1478-1481).  One that did lose it does both.
OthersAreSpared == [][row.of = "another" /\ ~orphaned => UNCHANGED row]_vars

\* When the destructor calls end(), the thread is marked for shutdown, whatever
\* it and earlier commands did; otherwise end() would skip the join, and a
\* std::thread destroyed unjoined ends the program (Thread.cpp 390-402).
DestructorJoins == srv \in {"join", "joinDelete"} => flag.shutdown

\* A thread whose wait() was left by an exception or normally has released
\* pauseLock, else the next unpause() or stop() would block the server.
LockIsScoped ==
  cond.locked <=> \/ th \in {"checking", "enqueuing", "unpausing"}
                  \/ th \in {"msg", "msgPaused", "msgWrite"} /\ ctx = "unpausing"

-----------------------------------------------------------------------------
(* Liveness, under FairSpec.                                                *)

\* A stopped or interrupted thread that is not paused again leaves main(),
\* wherever the request has met it: in a callback, in front of the lock,
\* asleep.
MustExit == ~flag.running /\ ~flag.paused /\ srv # "down"
StoppedThreadExits == <>[]MustExit => <>(th = "exited")

\* A thread that has been shut down and has finished is taken from the server.
Removable == flag.shutdown /\ flag.finished /\ srv # "down"
FinishedThreadIsRemoved == Removable ~> ~registered

-----------------------------------------------------------------------------
(* The detailed thread implements the lifecycle.                            *)

phase ==
  IF srv = "down" THEN "down"
  ELSE IF ~registered THEN "removed"
  ELSE IF th = "exited" THEN "ended"
  ELSE IF flag.running THEN "live" ELSE "ending"

Lifecycle == INSTANCE ThreadLifecycle WITH saved <- Saved

\* Every behaviour of the thread and its server is one of ThreadLifecycle.
ImplementsLifecycle == Lifecycle!Spec
=============================================================================
