----------------------------- MODULE PlaceMutex -----------------------------
(***************************************************************************)
(* What the place locks promise to the transition runners: a lock per      *)
(* place that at most one task holds.  How a task obtains it, that it is   *)
(* cached by a runner, asked for by others and lost with a lease, is left  *)
(* to PlaceLocks, which implements this specification.                     *)
(***************************************************************************)
CONSTANTS Place, Task

VARIABLE holder   \* holder[p]: the set of tasks that hold the lock of p

Init == holder = [p \in Place |-> {}]

\* A task obtains a lock nobody holds.
Take(t, p) ==
  /\ holder[p] = {}
  /\ holder' = [holder EXCEPT ![p] = {t}]

\* Some tasks give all their locks back, or lose them with their lease.
Drop(T) == holder' = [p \in Place |-> holder[p] \ T]

Next ==
  \/ \E t \in Task, p \in Place : Take(t, p)
  \/ \E T \in SUBSET Task : Drop(T)

Spec == Init /\ [][Next]_holder
=============================================================================
