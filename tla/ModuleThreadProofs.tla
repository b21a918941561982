------------------------- MODULE ModuleThreadProofs -------------------------
(***************************************************************************)
(* Proofs about ModuleThread, for every set of instances, range of IDs     *)
(* and every choice of failing connections.  The inductive invariant adds  *)
(* to the checked properties why a shutdown was begun (ShutdownHasReason), *)
(* what the server has established when it is about to delete a row or to  *)
(* notify (DeletionIsDue, SleepIsAnnounced), and that a thread which has   *)
(* lost its row is either out of the server's vector or has lost it        *)
(* because of a deleted configuration (RegistrationInv).                   *)
(***************************************************************************)
EXTENDS ModuleThread, TLAPS

Notifying == srv \in {"unpauseWrite", "stopNotify", "interruptNotify"}

ShutdownIsMarked ==
  /\ ~flag.running => flag.shutdown
  /\ srv \in {"stopRunning", "stopPaused", "stopNotify", "interruptRunning",
              "interruptPaused", "interruptNotify", "join", "joinDelete",
              "remove", "removeDelete"} => flag.shutdown

ShutdownHasReason ==
  /\ flag.shutdown => flag.interrupted \/ stopped
  /\ srv \in {"stopRunning", "stopPaused", "stopNotify", "stopReset"} => stopped

DeletionIsDue ==
  srv \in {"joinDelete", "removeDelete"} => th = "exited" /\ stopped

DeletionInv ==
  /\ ShutdownIsMarked
  /\ ShutdownHasReason
  /\ DeletionIsDue
  /\ OnlyStopDeletes
  /\ RowOutlivesThread

SleepIsAnnounced == th = "enqueuing" /\ ~flag.paused => Notifying

WaitInv ==
  /\ LockIsScoped
  /\ "server" \notin DbFails => SleepIsAnnounced /\ NoLostWakeup

-----------------------------------------------------------------------------
(* Type correctness.                                                        *)

\* Where a status message returns to and where an exception leads.
LEMMA ContextType ==
  ASSUME NEW c \in Contexts
  PROVE  /\ c \in ThreadStates
         /\ Return[c] \in ThreadStates
         /\ Handlers[c] \subseteq ThreadStates
BY DEF Contexts, ThreadStates, Return, Handlers

\* No step leaves the types.
LEMMA TypeStep ==
  ASSUME TypeOK, [Next]_vars
  PROVE  TypeOK'
<1> USE DEF shared, local, server, outside, thread, Goto, Move, SrvGoto, SrvSet
<1>1. CASE Report
  <2>1. cond' \in CondType
    BY <1>1 DEF Report, Message, Throw, Leave, TypeOK, CondType, shared
  <2>2. th' \in ThreadStates
    BY <1>1, ContextType DEF Report, Message, Throw, TypeOK, ThreadStates
  <2>3. ctx' \in Contexts
    BY <1>1 DEF Report, Message, Throw, TypeOK, local
  <2> QED
    BY <1>1, <2>1, <2>2, <2>3 DEF Report, TypeOK, Message, Throw
<1>2. CASE MessageInterrupted
  <2>1. th' \in ThreadStates
    BY <1>2, ContextType DEF MessageInterrupted, Move, Goto, TypeOK, ThreadStates
  <2> QED
    BY <1>2, <2>1 DEF MessageInterrupted, Returned, Contexts, TypeOK
<1>3. CASE MessagePaused
  <2>1. seen' \in BOOLEAN
    BY <1>3 DEF MessagePaused, TypeOK, Flags
  <2> QED
    BY <1>3, <2>1 DEF MessagePaused, TypeOK, ThreadStates, Contexts
<1>4. CASE MessageWrite
  <2>1. th' \in ThreadStates
    BY <1>4, ContextType DEF MessageWrite, Goto, TypeOK
  <2>2. row' \in Rows
    BY <1>4 DEF MessageWrite, WritePaused, TypeOK, Rows
  <2> QED
    BY <1>4, <2>1, <2>2 DEF MessageWrite, Returned, Contexts, TypeOK
<1>5. CASE InitAbort
  <2>1. flag' \in Flags
    BY <1>5 DEF InitAbort, TypeOK, Flags
  <2> QED
    BY <1>5, <2>1 DEF InitAbort, TypeOK, ThreadStates, Contexts
<1>6. CASE LoopRunning
  BY <1>6 DEF LoopRunning, TypeOK, ThreadStates, Contexts
<1>7. CASE LoopInterrupted
  BY <1>7 DEF LoopInterrupted, TypeOK, ThreadStates, Contexts
<1>8. CASE LoopReset
  <2>1. flag' \in Flags
    BY <1>8 DEF LoopReset, TypeOK, Flags
  <2> QED
    BY <1>8, <2>1 DEF LoopReset, TypeOK, ThreadStates, Contexts
<1>9. CASE LoopNoReset
  BY <1>9 DEF LoopNoReset, TypeOK, ThreadStates, Contexts
<1>10. CASE LoopPaused
  BY <1>10 DEF LoopPaused, TypeOK, ThreadStates, Contexts
<1>11. CASE WaitLock
  <2>1. cond' \in CondType
    BY <1>11 DEF WaitLock, TypeOK, CondType
  <2> QED
    BY <1>11, <2>1 DEF WaitLock, TypeOK, ThreadStates, Contexts
<1>12. CASE WaitCheck
  BY <1>12 DEF WaitCheck, TypeOK, ThreadStates, Contexts
<1>13. CASE WaitBlock
  <2>1. cond' \in CondType
    BY <1>13 DEF WaitBlock, TypeOK, CondType
  <2> QED
    BY <1>13, <2>1 DEF WaitBlock, TypeOK, ThreadStates, Contexts
<1>14. CASE WaitWake
  <2>1. cond' \in CondType
    BY <1>14 DEF WaitWake, TypeOK, CondType
  <2> QED
    BY <1>14, <2>1 DEF WaitWake, TypeOK, ThreadStates, Contexts
<1>15. CASE PauseSelf
  <2>1. flag' \in Flags
    BY <1>15 DEF PauseSelf, TypeOK, Flags
  <2> QED
    BY <1>15, <2>1 DEF PauseSelf, TypeOK, ThreadStates, Contexts
<1>16. CASE PauseSelfWrite
  <2>1. row' \in Rows
    BY <1>16 DEF PauseSelfWrite, WritePaused, TypeOK, Rows
  <2> QED
    BY <1>16, <2>1 DEF PauseSelfWrite, TypeOK, ThreadStates, Contexts
<1>17. CASE Warp
  <2>1. row' \in Rows /\ last' \in Ids /\ overwriteLast' \in Ids
    BY <1>17, MaxIdAssumption DEF Warp, WriteLast, TypeOK, Rows, Ids
  <2> QED
    BY <1>17, <2>1 DEF Warp, TypeOK, ThreadStates, Contexts
<1>18. CASE NoWarp
  BY <1>18 DEF NoWarp, TypeOK, ThreadStates, Contexts
<1>19. CASE EndLog
  BY <1>19 DEF EndLog, TypeOK, ThreadStates, Contexts
<1>20. CASE Finish
  <2>1. flag' \in Flags
    BY <1>20 DEF Finish, TypeOK, Flags
  <2> QED
    BY <1>20, <2>1 DEF Finish, TypeOK, ThreadStates, Contexts
<1>21. CASE Terminate
  <2>1. flag' \in Flags
    BY <1>21 DEF Terminate, TypeOK, Flags
  <2> QED
    BY <1>21, <2>1 DEF Terminate, TypeOK, ThreadStates, Contexts
<1>22. CASE InitDone
  BY <1>22 DEF InitDone, TypeOK, ThreadStates, Contexts
<1>23. CASE ResetDone
  BY <1>23 DEF ResetDone, TypeOK, ThreadStates, Contexts
<1>24. CASE PauseDone
  BY <1>24 DEF PauseDone, TypeOK, ThreadStates, Contexts
<1>25. CASE UnpauseDone
  <2>1. cond' \in CondType
    BY <1>25 DEF UnpauseDone, Leave, TypeOK, CondType
  <2> QED
    BY <1>25, <2>1 DEF UnpauseDone, TypeOK, ThreadStates, Contexts
<1>26. CASE TickDone
  BY <1>26 DEF TickDone, TypeOK, ThreadStates, Contexts
<1>27. CASE ClearDone
  BY <1>27 DEF ClearDone, TypeOK, ThreadStates, Contexts
<1>28. CASE Message
  <2>1. th' \in ThreadStates
    BY <1>28 DEF Message, ThreadStates
  <2> QED
    BY <1>28, <2>1 DEF Message, TypeOK
<1>29. CASE MessageFails
  <2>1. cond' \in CondType
    BY <1>29 DEF MessageFails, Leave, TypeOK, CondType
  <2>2. th' \in ThreadStates
    BY <1>29, ContextType DEF MessageFails, TypeOK
  <2> QED
    BY <1>29, <2>1, <2>2 DEF MessageFails, Returned, Contexts, TypeOK
<1>30. CASE Throw
  <2>1. cond' \in CondType
    BY <1>30 DEF Throw, Leave, TypeOK, CondType
  <2>2. th' \in ThreadStates
    BY <1>30, ContextType DEF Throw, TypeOK
  <2> QED
    BY <1>30, <2>1, <2>2 DEF Throw, TypeOK
<1>31. CASE WaitSpurious
  <2>1. cond' \in CondType
    BY <1>31 DEF WaitSpurious, TypeOK, CondType
  <2> QED
    BY <1>31, <2>1 DEF WaitSpurious, TypeOK, ThreadStates, Contexts
<1>32. CASE TickSetLast
  <2>1. row' \in Rows /\ last' \in Ids
    BY <1>32 DEF TickSetLast, WriteLast, TypeOK, Rows
  <2> QED
    BY <1>32, <2>1 DEF TickSetLast, TypeOK, ThreadStates, Contexts
<1>33. CASE TickSetLastFails
  <2>1. th' \in ThreadStates
    BY <1>33, ContextType DEF TickSetLastFails, TypeOK, Contexts
  <2> QED
    BY <1>33, <2>1 DEF TickSetLastFails, TypeOK
<1>34. CASE PauseSelfWriteFails
  BY <1>34 DEF PauseSelfWriteFails, TypeOK, ThreadStates, Contexts
<1>35. CASE WarpFails
  <2>1. last' \in Ids /\ overwriteLast' \in Ids
    BY <1>35, MaxIdAssumption DEF WarpFails, TypeOK, Ids
  <2> QED
    BY <1>35, <2>1 DEF WarpFails, TypeOK, ThreadStates, Contexts
<1>36. CASE PauseWrite
  <2>1. row' \in Rows
    BY <1>36 DEF PauseWrite, WritePaused, TypeOK, Rows
  <2> QED
    BY <1>36, <2>1 DEF PauseWrite, TypeOK, ServerStates
<1>37. CASE UnpauseWrite
  <2>1. row' \in Rows
    BY <1>37 DEF UnpauseWrite, WritePaused, TypeOK, Rows
  <2>2. cond' \in CondType
    BY <1>37 DEF UnpauseWrite, Notify, TypeOK, CondType
  <2> QED
    BY <1>37, <2>1, <2>2 DEF UnpauseWrite, TypeOK, ServerStates
<1>38. CASE StopRunning
  <2>1. flag' \in Flags
    BY <1>38 DEF StopRunning, SrvSet, SrvGoto, TypeOK, Flags
  <2> QED
    BY <1>38, <2>1 DEF StopRunning, TypeOK, ServerStates
<1>39. CASE StopPaused
  <2>1. flag' \in Flags
    BY <1>39 DEF StopPaused, SrvSet, SrvGoto, TypeOK, Flags
  <2> QED
    BY <1>39, <2>1 DEF StopPaused, TypeOK, ServerStates
<1>40. CASE StopNotify
  <2>1. cond' \in CondType
    BY <1>40 DEF StopNotify, TypeOK, CondType, Notify
  <2> QED
    BY <1>40, <2>1 DEF StopNotify, TypeOK, ServerStates
<1>41. CASE StopReset
  <2>1. flag' \in Flags
    BY <1>41 DEF StopReset, SrvSet, SrvGoto, TypeOK, Flags
  <2> QED
    BY <1>41, <2>1 DEF StopReset, TypeOK, ServerStates
<1>42. CASE InterruptRunning
  <2>1. flag' \in Flags
    BY <1>42 DEF InterruptRunning, SrvSet, SrvGoto, TypeOK, Flags
  <2> QED
    BY <1>42, <2>1 DEF InterruptRunning, TypeOK, ServerStates
<1>43. CASE InterruptPaused
  <2>1. flag' \in Flags
    BY <1>43 DEF InterruptPaused, SrvSet, SrvGoto, TypeOK, Flags
  <2> QED
    BY <1>43, <2>1 DEF InterruptPaused, TypeOK, ServerStates
<1>44. CASE InterruptNotify
  <2>1. cond' \in CondType
    BY <1>44 DEF InterruptNotify, TypeOK, CondType, Notify
  <2> QED
    BY <1>44, <2>1 DEF InterruptNotify, TypeOK, ServerStates
<1>45. CASE Join("join", "leave", "joinDelete")
  BY <1>45 DEF Join, TypeOK, ServerStates
<1>46. CASE Delete("joinDelete", "leave")
  <2>1. row' \in Rows
    BY <1>46, MaxIdAssumption DEF Delete, NoRow, Rows, Ids
  <2> QED
    BY <1>46, <2>1 DEF Delete, TypeOK, ServerStates
<1>47. CASE Join("remove", "idle", "removeDelete")
  BY <1>47 DEF Join, TypeOK, ServerStates
<1>48. CASE Delete("removeDelete", "idle")
  <2>1. row' \in Rows
    BY <1>48, MaxIdAssumption DEF Delete, NoRow, Rows, Ids
  <2> QED
    BY <1>48, <2>1 DEF Delete, TypeOK, ServerStates
<1>49. CASE Pause
  <2>1. flag' \in Flags
    BY <1>49 DEF Pause, SrvSet, SrvGoto, TypeOK, Flags
  <2> QED
    BY <1>49, <2>1 DEF Pause, TypeOK, ServerStates
<1>50. CASE Unpause
  <2>1. flag' \in Flags
    BY <1>50 DEF Unpause, SrvSet, SrvGoto, TypeOK, Flags
  <2> QED
    BY <1>50, <2>1 DEF Unpause, TypeOK, ServerStates
<1>51. CASE Stop
  <2>1. flag' \in Flags
    BY <1>51 DEF Stop, SrvSet, SrvGoto, TypeOK, Flags
  <2> QED
    BY <1>51, <2>1 DEF Stop, TypeOK, ServerStates
<1>52. CASE Reset
  <2>1. flag' \in Flags
    BY <1>52 DEF Reset, SrvSet, SrvGoto, TypeOK, Flags
  <2> QED
    BY <1>52, <2>1 DEF Reset, TypeOK, ServerStates
<1>53. CASE Destroy
  <2>1. flag' \in Flags
    BY <1>53 DEF Destroy, SrvSet, SrvGoto, TypeOK, Flags
  <2> QED
    BY <1>53, <2>1 DEF Destroy, TypeOK, ServerStates
<1>54. CASE PauseWriteFails
  BY <1>54 DEF PauseWriteFails, TypeOK, ServerStates
<1>55. CASE UnpauseWriteFails
  BY <1>55 DEF UnpauseWriteFails, TypeOK, ServerStates
<1>56. CASE \E target \in Ids : WarpTo(target)
  <2>1. overwriteLast' \in Ids
    BY <1>56, MaxIdAssumption DEF WarpTo, Ids
  <2> QED
    BY <1>56, <2>1 DEF WarpTo, TypeOK, ServerStates
<1>57. CASE RemoveFinished
  BY <1>57 DEF RemoveFinished, TypeOK, ServerStates
<1>58. CASE Exit
  <2>1. flag' \in Flags
    BY <1>58 DEF Exit, Down, NewMemory, NewFlags, TypeOK, Flags
  <2>2. cond' \in CondType
    BY <1>58 DEF Exit, Down, NewMemory, CondType
  <2>3. last' \in Ids /\ overwriteLast' \in Ids
    BY <1>58, MaxIdAssumption DEF Exit, Down, NewMemory, Ids
  <2>4. ctx' \in Contexts /\ th' \in ThreadStates
    BY <1>58 DEF Exit, Down, NewMemory, Contexts, ThreadStates
  <2> QED
    BY <1>58, <2>1, <2>2, <2>3, <2>4 DEF Exit, TypeOK, Down, NewMemory, ServerStates
<1>59. CASE Crash
  <2>1. flag' \in Flags
    BY <1>59 DEF Crash, Down, NewMemory, NewFlags, TypeOK, Flags
  <2>2. cond' \in CondType
    BY <1>59 DEF Crash, Down, NewMemory, CondType
  <2>3. last' \in Ids /\ overwriteLast' \in Ids
    BY <1>59, MaxIdAssumption DEF Crash, Down, NewMemory, Ids
  <2>4. ctx' \in Contexts /\ th' \in ThreadStates
    BY <1>59 DEF Crash, Down, NewMemory, Contexts, ThreadStates
  <2> QED
    BY <1>59, <2>1, <2>2, <2>3, <2>4 DEF Crash, TypeOK, Down, NewMemory, ServerStates
<1>60. CASE Restart
  <2>1. flag' \in Flags
    BY <1>60, InstancesAssumption DEF Instance, Kinds, Restart, NewMemory, NewFlags, TypeOK, Flags, Rows
  <2>2. cond' \in CondType
    BY <1>60 DEF Restart, NewMemory, CondType
  <2>3. last' \in Ids /\ overwriteLast' \in Ids
    BY <1>60, MaxIdAssumption DEF Restart, NewMemory, TypeOK, Rows, Ids
  <2>4. ctx' \in Contexts /\ th' \in ThreadStates
    BY <1>60 DEF Restart, NewMemory, Contexts, ThreadStates
  <2> QED
    BY <1>60, <2>1, <2>2, <2>3, <2>4 DEF Restart, TypeOK, NewMemory, ServerStates
<1>61. CASE UNCHANGED vars
  BY <1>61 DEF vars, TypeOK
<1>62. CASE DeleteConfig
  <2>1. row' \in Rows
    BY <1>62, MaxIdAssumption DEF DeleteConfig, NoRow, Rows, Ids
  <2> QED
    BY <1>62, <2>1 DEF DeleteConfig, TypeOK
<1>63. CASE IdGivenAgain
  <2>1. row' \in Rows
    BY <1>63, MaxIdAssumption DEF IdGivenAgain, Rows, Ids
  <2> QED
    BY <1>63, <2>1 DEF IdGivenAgain, TypeOK
<1>64. CASE EarlierWrites
  <2>1. row' \in Rows
    BY <1>64 DEF EarlierWrites, WritePaused, WriteLast, TypeOK, Rows
  <2> QED
    BY <1>64, <2>1 DEF EarlierWrites, TypeOK
<1>65. CASE EarlierEnds
  <2>1. row' \in Rows
    BY <1>65, MaxIdAssumption DEF EarlierEnds, NoRow, Rows, Ids, TypeOK
  <2> QED
    BY <1>65, <2>1 DEF EarlierEnds, TypeOK
<1> QED
  BY <1>1, <1>2, <1>3, <1>4, <1>5, <1>6, <1>7, <1>8, <1>9, <1>10,
     <1>11, <1>12, <1>13, <1>14, <1>15, <1>16, <1>17, <1>18, <1>19, <1>20,
     <1>21, <1>22, <1>23, <1>24, <1>25, <1>26, <1>27, <1>28, <1>29, <1>30,
     <1>31, <1>32, <1>33, <1>34, <1>35, <1>36, <1>37, <1>38, <1>39, <1>40,
     <1>41, <1>42, <1>43, <1>44, <1>45, <1>46, <1>47, <1>48, <1>49, <1>50,
     <1>51, <1>52, <1>53, <1>54, <1>55, <1>56, <1>57, <1>58, <1>59, <1>60,
     <1>61, <1>62, <1>63, <1>64, <1>65
  DEF Next, ThreadNext, Progress, CallbackReturns, Incident, ServerStep,
      ServerCommand, Gone

\* A thread that has just been started has its types.
LEMMA TypeInit == Init => TypeOK
<1> SUFFICES ASSUME Init PROVE TypeOK
  OBVIOUS
<1>1. flag \in Flags
  BY InstancesAssumption DEF Instance, Init, NewFlags, Flags
<1>2. cond \in CondType
  BY DEF Init, CondType
<1>3. row \in Rows /\ 0 \in Ids
  BY MaxIdAssumption DEF Init, Rows, Ids
<1>4. earlier \in BOOLEAN
  BY InstancesAssumption DEF Instance, Init
<1> QED
  BY <1>1, <1>2, <1>3, <1>4 DEF Init, TypeOK, ThreadStates, ServerStates, Contexts

\* Every state of the thread, the server and the row has its type.
THEOREM TypeCorrect == Spec => []TypeOK
BY TypeInit, TypeStep, PTL DEF Spec

-----------------------------------------------------------------------------
(* Why a row is deleted.                                                    *)

\* What the thread's own steps leave alone: only the server starts a shutdown,
\* a thread never takes back that it was interrupted, no step follows its exit,
\* and none of its UPDATEs creates or deletes a row or makes it another's.
LEMMA ThreadFrame ==
  ASSUME TypeOK, ThreadNext
  PROVE  /\ flag'.running = flag.running /\ flag'.shutdown = flag.shutdown
         /\ flag.interrupted => flag'.interrupted
         /\ UNCHANGED <<srv, registered, earlier, stopped, orphaned>>
         /\ row'.of = row.of
         /\ th \notin {"exited", "none"}
<1> DEFINE Frame == /\ flag'.running = flag.running /\ flag'.shutdown = flag.shutdown
                    /\ flag.interrupted => flag'.interrupted
                    /\ UNCHANGED <<srv, registered, earlier, stopped, orphaned>>
                    /\ row'.of = row.of
                    /\ th \notin {"exited", "none"}
<1> USE DEF shared, local, server, outside, Goto, Move
<1>1. CASE Report
  BY <1>1 DEF Report, Message, Throw, Contexts, TypeOK
<1>2. CASE MessageInterrupted
  BY <1>2 DEF MessageInterrupted, TypeOK
<1>3. CASE MessagePaused
  BY <1>3 DEF MessagePaused, TypeOK
<1>4. CASE MessageWrite
  BY <1>4 DEF MessageWrite, WritePaused, TypeOK, Rows
<1>5. CASE InitAbort
  BY <1>5 DEF InitAbort, TypeOK, Flags
<1>6. CASE LoopRunning
  BY <1>6 DEF LoopRunning, TypeOK
<1>7. CASE LoopInterrupted
  BY <1>7 DEF LoopInterrupted, TypeOK
<1>8. CASE LoopReset
  BY <1>8 DEF LoopReset, TypeOK, Flags
<1>9. CASE LoopNoReset
  BY <1>9 DEF LoopNoReset, TypeOK
<1>10. CASE LoopPaused
  BY <1>10 DEF LoopPaused, TypeOK
<1>11. CASE WaitLock
  BY <1>11 DEF WaitLock, TypeOK
<1>12. CASE WaitCheck
  BY <1>12 DEF WaitCheck, TypeOK
<1>13. CASE WaitBlock
  BY <1>13 DEF WaitBlock, TypeOK
<1>14. CASE WaitWake
  BY <1>14 DEF WaitWake, TypeOK
<1>15. CASE PauseSelf
  BY <1>15 DEF PauseSelf, TypeOK, Flags
<1>16. CASE PauseSelfWrite
  BY <1>16 DEF PauseSelfWrite, WritePaused, TypeOK, Rows
<1>17. CASE Warp
  BY <1>17 DEF Warp, WriteLast, TypeOK, Rows
<1>18. CASE NoWarp
  BY <1>18 DEF NoWarp, TypeOK
<1>19. CASE EndLog
  BY <1>19 DEF EndLog, TypeOK
<1>20. CASE Finish
  BY <1>20 DEF Finish, TypeOK, Flags
<1>21. CASE Terminate
  BY <1>21 DEF Terminate, TypeOK, Flags
<1>22. CASE InitDone
  BY <1>22 DEF InitDone, TypeOK
<1>23. CASE ResetDone
  BY <1>23 DEF ResetDone, TypeOK
<1>24. CASE PauseDone
  BY <1>24 DEF PauseDone, TypeOK
<1>25. CASE UnpauseDone
  BY <1>25 DEF UnpauseDone, TypeOK
<1>26. CASE TickDone
  BY <1>26 DEF TickDone, TypeOK
<1>27. CASE ClearDone
  BY <1>27 DEF ClearDone, TypeOK
<1>28. CASE Message
  BY <1>28 DEF Message, Contexts, TypeOK
<1>29. CASE MessageFails
  BY <1>29 DEF MessageFails, TypeOK
<1>30. CASE Throw
  BY <1>30 DEF Throw, Contexts, TypeOK
<1>31. CASE WaitSpurious
  BY <1>31 DEF WaitSpurious, TypeOK
<1>32. CASE TickSetLast
  BY <1>32 DEF TickSetLast, WriteLast, TypeOK, Rows
<1>33. CASE TickSetLastFails
  BY <1>33 DEF TickSetLastFails, TypeOK
<1>34. CASE PauseSelfWriteFails
  BY <1>34 DEF PauseSelfWriteFails, TypeOK
<1>35. CASE WarpFails
  BY <1>35 DEF WarpFails, TypeOK
<1> QED
  BY <1>1, <1>2, <1>3, <1>4, <1>5, <1>6, <1>7, <1>8, <1>9, <1>10,
     <1>11, <1>12, <1>13, <1>14, <1>15, <1>16, <1>17, <1>18, <1>19, <1>20,
     <1>21, <1>22, <1>23, <1>24, <1>25, <1>26, <1>27, <1>28, <1>29, <1>30,
     <1>31, <1>32, <1>33, <1>34, <1>35
  DEF ThreadNext, Progress, CallbackReturns, Incident

\* end() deletes a row after its thread, for a user; nothing else deletes one
\* but what follows from a deleted configuration.
LEMMA DeletionStep ==
  ASSUME TypeOK, DeletionInv, [Next]_vars
  PROVE  DeletionInv'
<1> USE DEF DeletionInv, ShutdownIsMarked, ShutdownHasReason, DeletionIsDue,
        OnlyStopDeletes, RowOutlivesThread, Saved
<1>1. CASE ThreadNext
  BY <1>1, ThreadFrame
<1> USE DEF thread, shared, local, server, outside, SrvGoto, SrvSet, Command
<1>2. CASE PauseWrite
  BY <1>2 DEF PauseWrite, WritePaused, TypeOK, Flags, Rows
<1>3. CASE UnpauseWrite
  BY <1>3 DEF UnpauseWrite, WritePaused, TypeOK, Flags, Rows
<1>4. CASE StopRunning
  BY <1>4 DEF StopRunning, TypeOK, Flags
<1>5. CASE StopPaused
  BY <1>5 DEF StopPaused, TypeOK, Flags
<1>6. CASE StopNotify
  BY <1>6 DEF StopNotify, TypeOK, Flags
<1>7. CASE StopReset
  BY <1>7 DEF StopReset, TypeOK, Flags
<1>8. CASE InterruptRunning
  BY <1>8 DEF InterruptRunning, TypeOK, Flags
<1>9. CASE InterruptPaused
  BY <1>9 DEF InterruptPaused, TypeOK, Flags
<1>10. CASE InterruptNotify
  BY <1>10 DEF InterruptNotify, TypeOK, Flags
<1>11. CASE Join("join", "leave", "joinDelete")
  BY <1>11 DEF Join, TypeOK, Flags
<1>12. CASE Delete("joinDelete", "leave")
  BY <1>12 DEF Delete, NoRow, TypeOK, Flags
<1>13. CASE Join("remove", "idle", "removeDelete")
  BY <1>13 DEF Join, TypeOK, Flags
<1>14. CASE Delete("removeDelete", "idle")
  BY <1>14 DEF Delete, NoRow, TypeOK, Flags
<1>15. CASE Pause
  BY <1>15 DEF Pause, TypeOK, Flags
<1>16. CASE Unpause
  BY <1>16 DEF Unpause, TypeOK, Flags
<1>17. CASE Stop
  BY <1>17 DEF Stop, TypeOK, Flags
<1>18. CASE Reset
  BY <1>18 DEF Reset, TypeOK, Flags
<1>19. CASE Destroy
  BY <1>19 DEF Destroy, TypeOK, Flags
<1>20. CASE PauseWriteFails
  BY <1>20 DEF PauseWriteFails, TypeOK, Flags
<1>21. CASE UnpauseWriteFails
  BY <1>21 DEF UnpauseWriteFails, TypeOK, Flags
<1>22. CASE \E target \in Ids : WarpTo(target)
  BY <1>22 DEF WarpTo, TypeOK, Flags
<1>23. CASE RemoveFinished
  BY <1>23 DEF RemoveFinished, TypeOK, Flags
<1>24. CASE Exit
  BY <1>24 DEF Exit, Down, NewMemory, NewFlags, TypeOK, Flags
<1>25. CASE Crash
  BY <1>25 DEF Crash, Down, NewMemory, NewFlags, TypeOK, Flags
<1>26. CASE Restart
  BY <1>26 DEF Restart, NewMemory, NewFlags, TypeOK, Flags
<1>27. CASE UNCHANGED vars
  BY <1>27 DEF vars
<1>28. CASE DeleteConfig
  BY <1>28 DEF DeleteConfig, TypeOK, Flags
<1>29. CASE IdGivenAgain
  BY <1>29 DEF IdGivenAgain, TypeOK, Flags
<1>30. CASE EarlierWrites
  BY <1>30 DEF EarlierWrites, WritePaused, WriteLast, Rows, TypeOK, Flags
<1>31. CASE EarlierEnds
  BY <1>31 DEF EarlierEnds, TypeOK, Flags
<1> QED
  BY <1>1, <1>2, <1>3, <1>4, <1>5, <1>6, <1>7, <1>8, <1>9, <1>10,
     <1>11, <1>12, <1>13, <1>14, <1>15, <1>16, <1>17, <1>18, <1>19, <1>20,
     <1>21, <1>22, <1>23, <1>24, <1>25, <1>26, <1>27, <1>28, <1>29, <1>30, <1>31
  DEF Next, ServerStep, ServerCommand, Gone

\* A thread that has just been started has its row, and nobody has stopped it.
LEMMA DeletionInit == Init => DeletionInv
BY DEF Init, NewFlags, DeletionInv, ShutdownIsMarked, ShutdownHasReason,
       DeletionIsDue, OnlyStopDeletes, RowOutlivesThread, Saved

\* The inductive invariant about rows: deleted by end(), after the thread has left
\* main() and for a user, or because of a deleted configuration.
THEOREM DeletionCorrect == Spec => []DeletionInv
BY TypeInit, TypeStep, DeletionInit, DeletionStep, PTL DEF Spec

\* A row disappears only if its user has stopped the thread, or because of
\* deleteconfig (Server.cpp 3008-3035), which asks for no threads.
THEOREM ThreadsAreNotLost == Spec => []OnlyStopDeletes
BY DeletionCorrect, PTL DEF DeletionInv

\* A row that did not go because of deleteconfig outlives its thread.
THEOREM RowsOutliveThreads == Spec => []RowOutlivesThread
BY DeletionCorrect, PTL DEF DeletionInv

\* Both: what its own end() deletes has ended, and was to end.
THEOREM RowsAreSafe == Spec => []RowsAreKept
<1>1. DeletionInv => RowsAreKept
  BY DEF DeletionInv, RowsAreKept
<1> QED
  BY <1>1, DeletionCorrect, PTL

\* The destructor of the server joins every thread it waits for.
THEOREM DestructorIsSafe == Spec => []DestructorJoins
<1>1. DeletionInv => DestructorJoins
  BY DEF DeletionInv, ShutdownIsMarked, DestructorJoins
<1> QED
  BY <1>1, DeletionCorrect, PTL

-----------------------------------------------------------------------------
(* Why a sleeping thread is woken.                                          *)

\* Steps of the thread: it sleeps only after it has seen `paused' under the lock.
LEMMA WaitThreadStep ==
  ASSUME TypeOK, WaitInv, ThreadNext
  PROVE  WaitInv'
<1> USE DEF WaitInv, LockIsScoped, SleepIsAnnounced, NoLostWakeup, Notifying,
        shared, local, server, outside, Goto, Move, Return, Handlers, Contexts
<1>1. CASE Report
  BY <1>1 DEF Report, TypeOK, Leave, Message, Throw, CondType
<1>2. CASE MessageInterrupted
  BY <1>2 DEF MessageInterrupted, TypeOK
<1>3. CASE MessagePaused
  BY <1>3 DEF MessagePaused, TypeOK
<1>4. CASE MessageWrite
  BY <1>4 DEF MessageWrite, TypeOK
<1>5. CASE InitAbort
  BY <1>5 DEF InitAbort, TypeOK, Flags
<1>6. CASE LoopRunning
  BY <1>6 DEF LoopRunning, TypeOK
<1>7. CASE LoopInterrupted
  BY <1>7 DEF LoopInterrupted, TypeOK
<1>8. CASE LoopReset
  BY <1>8 DEF LoopReset, TypeOK, Flags
<1>9. CASE LoopNoReset
  BY <1>9 DEF LoopNoReset, TypeOK
<1>10. CASE LoopPaused
  BY <1>10 DEF LoopPaused, TypeOK
<1>11. CASE WaitLock
  BY <1>11 DEF WaitLock, TypeOK, CondType
<1>12. CASE WaitCheck
  BY <1>12 DEF WaitCheck, TypeOK
<1>13. CASE WaitBlock
  BY <1>13 DEF WaitBlock, TypeOK, CondType
<1>14. CASE WaitWake
  BY <1>14 DEF WaitWake, TypeOK, CondType
<1>15. CASE PauseSelf
  BY <1>15 DEF PauseSelf, TypeOK, Flags
<1>16. CASE PauseSelfWrite
  BY <1>16 DEF PauseSelfWrite, TypeOK
<1>17. CASE Warp
  BY <1>17 DEF Warp, TypeOK
<1>18. CASE NoWarp
  BY <1>18 DEF NoWarp, TypeOK
<1>19. CASE EndLog
  BY <1>19 DEF EndLog, TypeOK
<1>20. CASE Finish
  BY <1>20 DEF Finish, TypeOK, Flags
<1>21. CASE Terminate
  BY <1>21 DEF Terminate, TypeOK, Flags
<1>22. CASE InitDone
  BY <1>22 DEF InitDone, TypeOK
<1>23. CASE ResetDone
  BY <1>23 DEF ResetDone, TypeOK
<1>24. CASE PauseDone
  BY <1>24 DEF PauseDone, TypeOK
<1>25. CASE UnpauseDone
  BY <1>25 DEF UnpauseDone, TypeOK, Leave, CondType
<1>26. CASE TickDone
  BY <1>26 DEF TickDone, TypeOK
<1>27. CASE ClearDone
  BY <1>27 DEF ClearDone, TypeOK
<1>28. CASE Message
  BY <1>28 DEF Message, TypeOK
<1>29. CASE MessageFails
  BY <1>29 DEF MessageFails, TypeOK, Leave, CondType
<1>30. CASE Throw
  BY <1>30 DEF Throw, TypeOK, Leave, CondType
<1>31. CASE WaitSpurious
  BY <1>31 DEF WaitSpurious, TypeOK, CondType
<1>32. CASE TickSetLast
  BY <1>32 DEF TickSetLast, TypeOK
<1>33. CASE TickSetLastFails
  BY <1>33 DEF TickSetLastFails, TypeOK
<1>34. CASE PauseSelfWriteFails
  BY <1>34 DEF PauseSelfWriteFails, TypeOK
<1>35. CASE WarpFails
  BY <1>35 DEF WarpFails, TypeOK
<1> QED
  BY <1>1, <1>2, <1>3, <1>4, <1>5, <1>6, <1>7, <1>8, <1>9, <1>10,
     <1>11, <1>12, <1>13, <1>14, <1>15, <1>16, <1>17, <1>18, <1>19, <1>20,
     <1>21, <1>22, <1>23, <1>24, <1>25, <1>26, <1>27, <1>28, <1>29, <1>30,
     <1>31, <1>32, <1>33, <1>34, <1>35
  DEF ThreadNext, Progress, CallbackReturns, Incident

\* Steps of the server: whoever clears `paused' goes on to notify, and can do so
\* only while the thread does not hold the lock.
LEMMA WaitServerStep ==
  ASSUME TypeOK, WaitInv, [Next]_vars, ~ThreadNext
  PROVE  WaitInv'
<1> USE DEF WaitInv, LockIsScoped, SleepIsAnnounced, NoLostWakeup, Notifying,
        thread, shared, local, server, outside, SrvGoto, SrvSet, Command
<1>1. CASE PauseWrite
  BY <1>1 DEF PauseWrite, TypeOK, Flags
<1>2. CASE UnpauseWrite
  BY <1>2 DEF UnpauseWrite, Notify, CondType, TypeOK, Flags
<1>3. CASE StopRunning
  BY <1>3 DEF StopRunning, TypeOK, Flags
<1>4. CASE StopPaused
  BY <1>4 DEF StopPaused, TypeOK, Flags
<1>5. CASE StopNotify
  BY <1>5 DEF StopNotify, Notify, CondType, TypeOK, Flags
<1>6. CASE StopReset
  BY <1>6 DEF StopReset, TypeOK, Flags
<1>7. CASE InterruptRunning
  BY <1>7 DEF InterruptRunning, TypeOK, Flags
<1>8. CASE InterruptPaused
  BY <1>8 DEF InterruptPaused, TypeOK, Flags
<1>9. CASE InterruptNotify
  BY <1>9 DEF InterruptNotify, Notify, CondType, TypeOK, Flags
<1>10. CASE Join("join", "leave", "joinDelete")
  BY <1>10 DEF Join, TypeOK, Flags
<1>11. CASE Delete("joinDelete", "leave")
  BY <1>11 DEF Delete, TypeOK, Flags
<1>12. CASE Join("remove", "idle", "removeDelete")
  BY <1>12 DEF Join, TypeOK, Flags
<1>13. CASE Delete("removeDelete", "idle")
  BY <1>13 DEF Delete, TypeOK, Flags
<1>14. CASE Pause
  BY <1>14 DEF Pause, TypeOK, Flags
<1>15. CASE Unpause
  BY <1>15 DEF Unpause, TypeOK, Flags
<1>16. CASE Stop
  BY <1>16 DEF Stop, TypeOK, Flags
<1>17. CASE Reset
  BY <1>17 DEF Reset, TypeOK, Flags
<1>18. CASE Destroy
  BY <1>18 DEF Destroy, TypeOK, Flags
<1>19. CASE PauseWriteFails
  BY <1>19 DEF PauseWriteFails, TypeOK, Flags
<1>20. CASE UnpauseWriteFails
  BY <1>20 DEF UnpauseWriteFails, TypeOK, Flags
<1>21. CASE \E target \in Ids : WarpTo(target)
  BY <1>21 DEF WarpTo, TypeOK, Flags
<1>22. CASE RemoveFinished
  BY <1>22 DEF RemoveFinished, TypeOK, Flags
<1>23. CASE Exit
  BY <1>23 DEF Exit, Down, NewMemory, NewFlags, TypeOK, Flags
<1>24. CASE Crash
  BY <1>24 DEF Crash, Down, NewMemory, NewFlags, TypeOK, Flags
<1>25. CASE Restart
  BY <1>25 DEF Restart, NewMemory, NewFlags, TypeOK, Flags
<1>26. CASE UNCHANGED vars
  BY <1>26 DEF vars
<1>27. CASE DeleteConfig
  BY <1>27 DEF DeleteConfig, TypeOK, Flags
<1>28. CASE IdGivenAgain
  BY <1>28 DEF IdGivenAgain, TypeOK, Flags
<1>29. CASE EarlierWrites
  BY <1>29 DEF EarlierWrites, TypeOK, Flags
<1>30. CASE EarlierEnds
  BY <1>30 DEF EarlierEnds, TypeOK, Flags
<1> QED
  BY <1>1, <1>2, <1>3, <1>4, <1>5, <1>6, <1>7, <1>8, <1>9, <1>10,
     <1>11, <1>12, <1>13, <1>14, <1>15, <1>16, <1>17, <1>18, <1>19, <1>20,
     <1>21, <1>22, <1>23, <1>24, <1>25, <1>26, <1>27, <1>28, <1>29, <1>30
  DEF Next, ServerStep, ServerCommand, Gone

\* Initially nobody waits; WaitInv is inductive and always holds.
LEMMA WaitInvariance == Spec => []WaitInv
<1>1. Init => WaitInv
  BY DEF Init, NewFlags, WaitInv, LockIsScoped, SleepIsAnnounced, NoLostWakeup
<1>2. TypeOK /\ WaitInv /\ [Next]_vars => WaitInv'
  BY WaitThreadStep, WaitServerStep
<1> QED
  BY <1>1, <1>2, TypeCorrect, PTL DEF Spec

\* Whichever way a thread leaves wait(), pauseLock is released (Thread.cpp
\* 990-1024): the server's next unpause() or stop() does not block.
THEOREM PauseLockIsScoped == Spec => []LockIsScoped
<1>1. WaitInv => LockIsScoped
  BY DEF WaitInv
<1> QED
  BY <1>1, WaitInvariance, PTL

\* No wakeup is lost as long as the server's own database accesses do not throw
\* between clearing `paused' and notify_one() (Thread.cpp 302-317).
THEOREM WakeupsAreNotLost ==
  ASSUME "server" \notin DbFails
  PROVE  Spec => []NoLostWakeup
<1>1. WaitInv => NoLostWakeup
  BY DEF WaitInv
<1> QED
  BY <1>1, WaitInvariance, PTL

-----------------------------------------------------------------------------
(* The thread implements ThreadLifecycle.                                   *)

\* Only a thread still in the server's vector runs or is operated on.
RegistrationInv ==
  /\ srv \notin {"idle", "leave", "down"} => registered
  /\ ~registered => th \in {"exited", "none"}
  /\ srv = "down" => th = "none" /\ ~registered
  /\ ~Saved /\ ~orphaned => ~registered

\* Only end() takes a thread from the server, after it has left main(), and no
\* thread is left when the server is down.
LEMMA RegistrationStep ==
  ASSUME TypeOK, RegistrationInv, DeletionInv, [Next]_vars
  PROVE  RegistrationInv'
<1> USE DEF RegistrationInv, DeletionInv, DeletionIsDue, Saved
<1>1. CASE ThreadNext
  BY <1>1, ThreadFrame
<1> USE DEF thread, shared, local, server, outside, SrvGoto, SrvSet, Command
<1>2. CASE PauseWrite
  BY <1>2 DEF PauseWrite, WritePaused, Rows, TypeOK, Flags
<1>3. CASE UnpauseWrite
  BY <1>3 DEF UnpauseWrite, WritePaused, Rows, TypeOK, Flags
<1>4. CASE StopRunning
  BY <1>4 DEF StopRunning, TypeOK, Flags
<1>5. CASE StopPaused
  BY <1>5 DEF StopPaused, TypeOK, Flags
<1>6. CASE StopNotify
  BY <1>6 DEF StopNotify, TypeOK, Flags
<1>7. CASE StopReset
  BY <1>7 DEF StopReset, TypeOK, Flags
<1>8. CASE InterruptRunning
  BY <1>8 DEF InterruptRunning, TypeOK, Flags
<1>9. CASE InterruptPaused
  BY <1>9 DEF InterruptPaused, TypeOK, Flags
<1>10. CASE InterruptNotify
  BY <1>10 DEF InterruptNotify, TypeOK, Flags
<1>11. CASE Join("join", "leave", "joinDelete")
  BY <1>11 DEF Join, TypeOK, Flags
<1>12. CASE Delete("joinDelete", "leave")
  BY <1>12 DEF Delete, TypeOK, Flags
<1>13. CASE Join("remove", "idle", "removeDelete")
  BY <1>13 DEF Join, TypeOK, Flags
<1>14. CASE Delete("removeDelete", "idle")
  BY <1>14 DEF Delete, TypeOK, Flags
<1>15. CASE Pause
  BY <1>15 DEF Pause, TypeOK, Flags
<1>16. CASE Unpause
  BY <1>16 DEF Unpause, TypeOK, Flags
<1>17. CASE Stop
  BY <1>17 DEF Stop, TypeOK, Flags
<1>18. CASE Reset
  BY <1>18 DEF Reset, TypeOK, Flags
<1>19. CASE Destroy
  BY <1>19 DEF Destroy, TypeOK, Flags
<1>20. CASE PauseWriteFails
  BY <1>20 DEF PauseWriteFails, TypeOK, Flags
<1>21. CASE UnpauseWriteFails
  BY <1>21 DEF UnpauseWriteFails, TypeOK, Flags
<1>22. CASE \E target \in Ids : WarpTo(target)
  BY <1>22 DEF WarpTo, TypeOK, Flags
<1>23. CASE RemoveFinished
  BY <1>23 DEF RemoveFinished, TypeOK, Flags
<1>24. CASE Exit
  BY <1>24 DEF Exit, Down, NewMemory, TypeOK, Flags
<1>25. CASE Crash
  BY <1>25 DEF Crash, Down, NewMemory, TypeOK, Flags
<1>26. CASE Restart
  BY <1>26 DEF Restart, NewMemory, TypeOK, Flags
<1>27. CASE UNCHANGED vars
  BY <1>27 DEF vars
<1>28. CASE DeleteConfig
  BY <1>28 DEF DeleteConfig, TypeOK, Flags
<1>29. CASE IdGivenAgain
  BY <1>29 DEF IdGivenAgain, TypeOK, Flags
<1>30. CASE EarlierWrites
  BY <1>30 DEF EarlierWrites, WritePaused, WriteLast, Rows, TypeOK, Flags
<1>31. CASE EarlierEnds
  BY <1>31 DEF EarlierEnds, TypeOK, Flags
<1> QED
  BY <1>1, <1>2, <1>3, <1>4, <1>5, <1>6, <1>7, <1>8, <1>9, <1>10,
     <1>11, <1>12, <1>13, <1>14, <1>15, <1>16, <1>17, <1>18, <1>19, <1>20,
     <1>21, <1>22, <1>23, <1>24, <1>25, <1>26, <1>27, <1>28, <1>29, <1>30, <1>31
  DEF Next, ServerStep, ServerCommand, Gone

\* RegistrationInv always holds.
LEMMA RegistrationInvariance == Spec => []RegistrationInv
<1>1. Init => RegistrationInv
  BY DEF Init, RegistrationInv, Saved
<1> QED
  BY <1>1, RegistrationStep, TypeCorrect, DeletionCorrect, PTL DEF Spec

\* The row of a later thread is out of reach of a thread that did not lose its own
\* because of a deleted configuration: it has left main(), and the server has dropped it, so
\* that no operation on it is under way or can begin.
LEMMA OthersStep ==
  ASSUME TypeOK, RegistrationInv, [Next]_vars, row.of = "another", ~orphaned
  PROVE  UNCHANGED row
<1>1. ~registered /\ th \in {"exited", "none"} /\ ~Saved
  BY DEF RegistrationInv, Saved
<1>2. srv \in {"idle", "leave", "down"}
  BY <1>1 DEF RegistrationInv
<1>3. CASE ThreadNext
  BY <1>1, <1>3, ThreadFrame
<1>4. CASE ServerStep
  BY <1>2, <1>4 DEF ServerStep, PauseWrite, UnpauseWrite, StopRunning, StopPaused,
     StopNotify, StopReset, InterruptRunning, InterruptPaused, InterruptNotify,
     Join, Delete, SrvGoto, SrvSet
<1>5. CASE ServerCommand
  <2>1. CASE Destroy
    BY <2>1 DEF Destroy
  <2>2. CASE DeleteConfig \/ IdGivenAgain \/ EarlierEnds
    BY <1>1, <2>2 DEF DeleteConfig, IdGivenAgain, EarlierEnds
  <2> QED
    BY <1>1, <1>2, <1>5, <2>1, <2>2 DEF ServerCommand, Pause, Unpause, Stop, Reset,
       WarpTo, PauseWriteFails, UnpauseWriteFails, Command, SrvGoto
<1>6. CASE EarlierWrites
  BY <1>1, <1>6 DEF EarlierWrites
<1>7. CASE RemoveFinished \/ Exit \/ Crash \/ Restart \/ Gone \/ UNCHANGED vars
  BY <1>1, <1>7 DEF RemoveFinished, Exit, Crash, Down, Restart, Gone, Command, vars
<1> QED
  BY <1>3, <1>4, <1>5, <1>6, <1>7 DEF Next

\* Whatever its flags, its failures and the restarts of the server: nothing a
\* thread does hits the row of a later thread with its ID, unless its own row
\* went because of a deleted configuration.
THEOREM LaterThreadsAreSafe == Spec => OthersAreSpared
<1>1. TypeOK /\ RegistrationInv /\ [Next]_vars
        => [row.of = "another" /\ ~orphaned => UNCHANGED row]_vars
  BY OthersStep
<1> QED
  BY <1>1, RegistrationInvariance, TypeCorrect, PTL DEF Spec, OthersAreSpared

\* A step of the thread or its server is a step of ThreadLifecycle or a stutter.
LEMMA LifecycleStep ==
  ASSUME TypeOK, RegistrationInv, DeletionInv, [Next]_vars
  PROVE  [Lifecycle!Next]_(Lifecycle!vars)
<1> USE DEF RegistrationInv, phase, Saved, Lifecycle!vars
<1>1. CASE ThreadNext
  \* The thread's only visible step is its exit.
  BY <1>1, ThreadFrame DEF Lifecycle!Next, Lifecycle!End
<1> USE DEF thread, shared, local, server, outside, SrvGoto, SrvSet, Command
<1>2. CASE PauseWrite
  BY <1>2 DEF PauseWrite, WritePaused, Rows, TypeOK, Flags
<1>3. CASE UnpauseWrite
  BY <1>3 DEF UnpauseWrite, WritePaused, Rows, TypeOK, Flags
<1>4. CASE StopRunning
  BY <1>4 DEF StopRunning, Lifecycle!BeginEnd, TypeOK, Flags, Lifecycle!Next
<1>5. CASE StopPaused
  BY <1>5 DEF StopPaused, TypeOK, Flags
<1>6. CASE StopNotify
  BY <1>6 DEF StopNotify, TypeOK, Flags
<1>7. CASE StopReset
  BY <1>7 DEF StopReset, TypeOK, Flags
<1>8. CASE InterruptRunning
  BY <1>8 DEF InterruptRunning, Lifecycle!BeginEnd, TypeOK, Flags, Lifecycle!Next
<1>9. CASE InterruptPaused
  BY <1>9 DEF InterruptPaused, TypeOK, Flags
<1>10. CASE InterruptNotify
  BY <1>10 DEF InterruptNotify, TypeOK, Flags
<1>11. CASE Join("join", "leave", "joinDelete")
  BY <1>11 DEF Join, Lifecycle!Remove, TypeOK, Flags, Lifecycle!Next
<1>12. CASE Delete("joinDelete", "leave")
  BY <1>12 DEF Delete, Lifecycle!Remove, DeletionInv, DeletionIsDue, NoRow, Rows, TypeOK, Flags, Lifecycle!Next
<1>13. CASE Join("remove", "idle", "removeDelete")
  BY <1>13 DEF Join, Lifecycle!Remove, TypeOK, Flags, Lifecycle!Next
<1>14. CASE Delete("removeDelete", "idle")
  BY <1>14 DEF Delete, Lifecycle!Remove, DeletionInv, DeletionIsDue, NoRow, Rows, TypeOK, Flags, Lifecycle!Next
<1>15. CASE Pause
  BY <1>15 DEF Pause, TypeOK, Flags
<1>16. CASE Unpause
  BY <1>16 DEF Unpause, TypeOK, Flags
<1>17. CASE Stop
  BY <1>17 DEF Stop, Lifecycle!Ask, TypeOK, Flags, Lifecycle!Next
<1>18. CASE Reset
  BY <1>18 DEF Reset, TypeOK, Flags
<1>19. CASE Destroy
  BY <1>19 DEF Destroy, TypeOK, Flags
<1>20. CASE PauseWriteFails
  BY <1>20 DEF PauseWriteFails, TypeOK, Flags
<1>21. CASE UnpauseWriteFails
  BY <1>21 DEF UnpauseWriteFails, TypeOK, Flags
<1>22. CASE \E target \in Ids : WarpTo(target)
  BY <1>22 DEF WarpTo, TypeOK, Flags
<1>23. CASE RemoveFinished
  BY <1>23 DEF RemoveFinished, TypeOK, Flags
<1>24. CASE Exit
  BY <1>24 DEF Exit, Down, NewMemory, Lifecycle!GoDown, TypeOK, Flags, Lifecycle!Next
<1>25. CASE Crash
  BY <1>25 DEF Crash, Down, NewMemory, Lifecycle!GoDown, TypeOK, Flags, Lifecycle!Next
<1>26. CASE Restart
  <2>1. flag'.running = TRUE
    BY <1>26 DEF Restart, NewMemory, NewFlags
  <2>2. Lifecycle!Continue
    BY <1>26, <2>1 DEF Restart, Lifecycle!Continue
  <2> QED
    BY <2>2 DEF Lifecycle!Next
<1>27. CASE UNCHANGED vars
  BY <1>27 DEF vars
<1>28. CASE DeleteConfig
  BY <1>28 DEF DeleteConfig, NoRow, Lifecycle!Orphan, Lifecycle!Next, TypeOK, Flags
<1>29. CASE IdGivenAgain
  BY <1>29 DEF IdGivenAgain, TypeOK, Flags
<1>30. CASE EarlierWrites
  BY <1>30 DEF EarlierWrites, WritePaused, WriteLast, Rows, TypeOK, Flags
<1>31. CASE EarlierEnds
  BY <1>31 DEF EarlierEnds, NoRow, Lifecycle!Orphan, Lifecycle!Next, TypeOK, Flags
<1> QED
  BY <1>1, <1>2, <1>3, <1>4, <1>5, <1>6, <1>7, <1>8, <1>9, <1>10,
     <1>11, <1>12, <1>13, <1>14, <1>15, <1>16, <1>17, <1>18, <1>19, <1>20,
     <1>21, <1>22, <1>23, <1>24, <1>25, <1>26, <1>27, <1>28, <1>29, <1>30, <1>31
  DEF Next, ServerStep, ServerCommand, Gone

\* Whatever the thread and its server do is allowed by ThreadLifecycle.
THEOREM ThreadImplementsLifecycle == Spec => ImplementsLifecycle
<1>1. Init => Lifecycle!Init
  BY DEF Init, NewFlags, phase, Saved, Lifecycle!Init
<1>2. TypeOK /\ RegistrationInv /\ DeletionInv /\ [Next]_vars
        => [Lifecycle!Next]_(Lifecycle!vars)
  BY LifecycleStep
<1> QED
  BY <1>1, <1>2, RegistrationInvariance, TypeCorrect, DeletionCorrect, PTL
  DEF Spec, ImplementsLifecycle, Lifecycle!Spec
=============================================================================
