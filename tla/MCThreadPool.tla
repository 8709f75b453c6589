---------------------------- MODULE MCThreadPool ----------------------------
(***************************************************************************)
(* Instances of ThreadPool for TLC.                                        *)
(***************************************************************************)
EXTENDS ThreadPool

CONSTANTS t1, t2, c1, c2

MCTasks    == {t1, t2}
MCFutures  == {t2}
MCPriority == t1 :> 0 @@ t2 :> 1
MCCallers  == {c1}
MCPools ==
  {[scheduler |-> "fifo", shutdown |-> "wait_for_all_tasks"],
   [scheduler |-> "lifo", shutdown |-> "wait_for_active_tasks"],
   [scheduler |-> "prio", shutdown |-> "immediately"]}

=============================================================================
