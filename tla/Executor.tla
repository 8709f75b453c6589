------------------------------ MODULE Executor ------------------------------
(***************************************************************************)
(* What a thread pool promises of a task (pool.hpp, schedule): it is       *)
(* executed once only, or removed while it is pending.                     *)
(***************************************************************************)
CONSTANT Tasks

VARIABLE status

Init == status = [t \in Tasks |-> "new"]

Move(t, from, to) == status[t] = from /\ status' = [status EXCEPT ![t] = to]

Schedule(t) == Move(t, "new", "pending")
Begin(t)    == Move(t, "pending", "running")
End(t)      == Move(t, "running", "ended")

\* clear removes every task that is pending.
Clear == status' = [t \in Tasks |-> IF status[t] = "pending" THEN "removed" ELSE status[t]]

Next == Clear \/ \E t \in Tasks : Schedule(t) \/ Begin(t) \/ End(t)

Spec == Init /\ [][Next]_status

=============================================================================
