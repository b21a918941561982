----------------------------- MODULE NamedMutex -----------------------------
(***************************************************************************)
(* What a lock with a name promises: at most one thread is in the section  *)
(* the name stands for.  Nothing is said about who comes next.             *)
(***************************************************************************)
CONSTANTS Threads, Names

VARIABLE inside   \* inside[n]: the threads in the section of name n

Init == inside = [n \in Names |-> {}]

Enter(t, n) ==
  /\ inside[n] = {}
  /\ inside' = [inside EXCEPT ![n] = {t}]

Exit(t, n) ==
  /\ t \in inside[n]
  /\ inside' = [inside EXCEPT ![n] = @ \ {t}]

Next == \E t \in Threads, n \in Names : Enter(t, n) \/ Exit(t, n)

Spec == Init /\ [][Next]_inside
=============================================================================
