-------------------------- MODULE ThreadLifecycle ---------------------------
(***************************************************************************)
(* What the server promises of one module thread, without flags or steps:  *)
(* it runs until it is asked to end or ends by itself, it is taken from    *)
(* the server only after it has ended, its row is deleted only then and    *)
(* only if a user asked for its end, or else because a configuration was   *)
(* deleted, its own or that of an earlier thread with its ID, and a server *)
(* that starts continues every thread that still has its row               *)
(* (Module/Thread.cpp, and initThreads, tickRemoveFinishedModuleThreads,   *)
(* clearModuleThreads and cmdDeleteConfig of Main/Server.cpp).             *)
(***************************************************************************)

VARIABLES
  phase,    \* "live", "ending", "ended", "removed", or "down" with its server
  saved,    \* its row exists
  stopped,  \* a user asked for its end
  orphaned  \* its row went because of a deleted configuration

vars == <<phase, saved, stopped, orphaned>>

Init == phase = "live" /\ saved = TRUE /\ stopped = FALSE /\ orphaned = FALSE

\* A user stops it, in whatever phase it is.
Ask ==
  /\ phase \in {"live", "ending", "ended"}
  /\ stopped' = TRUE
  /\ UNCHANGED <<phase, saved, orphaned>>

\* stop() or interrupt() takes effect.
BeginEnd ==
  /\ phase = "live" /\ phase' = "ending"
  /\ UNCHANGED <<saved, stopped, orphaned>>

\* main() returns, asked to or not.
End ==
  /\ phase \in {"live", "ending"} /\ phase' = "ended"
  /\ UNCHANGED <<saved, stopped, orphaned>>

\* end(): the row may go only if a user stopped the thread.
Remove ==
  /\ phase = "ended" /\ phase' = "removed"
  /\ saved' \in {saved, saved /\ ~stopped}
  /\ UNCHANGED <<stopped, orphaned>>

\* The row goes with its configuration, or is deleted when an earlier thread ends
\* that has kept the same ID beyond its own configuration.
Orphan ==
  /\ phase # "down" /\ saved
  /\ saved' = FALSE /\ orphaned' = TRUE
  /\ UNCHANGED <<phase, stopped>>

\* The server exits or crashes.
GoDown ==
  /\ phase # "down" /\ phase' = "down"
  /\ UNCHANGED <<saved, stopped, orphaned>>

Continue ==
  /\ phase = "down" /\ saved
  /\ phase' = "live" /\ stopped' = FALSE
  /\ UNCHANGED <<saved, orphaned>>

Next == Ask \/ BeginEnd \/ End \/ Remove \/ Orphan \/ GoDown \/ Continue

Spec == Init /\ [][Next]_vars
=============================================================================
