---------------------------- MODULE FlushControl ----------------------------
(***************************************************************************)
(* How many flushes may be in flight: colonyfs_fusexx::flush takes a slot  *)
(* of g_flush_counter and spawns a dht_task, which gives the slot back when *)
(* it is done.                                                             *)
(*                                                                         *)
(* The counter is read in the busy wait and decremented afterwards, in two *)
(* steps, and root_task is one global variable for all threads.            *)
(***************************************************************************)
EXTENDS Integers, FiniteSets

CONSTANTS Callers,     \* libfuse threads that call flush
          Slots,       \* initial value of g_flush_counter (10 in the code)
          MaxFlushes,  \* bound on the calls of flush
          NoRoot       \* value of a root_task nobody has set

Flushes == 1..MaxFlushes   \* the calls of flush, in the order they begin

ASSUME FlushAssumption ==
  /\ IsFiniteSet(Callers)
  /\ Slots \in Nat \ {0}
  /\ MaxFlushes \in Nat
  /\ NoRoot \notin Flushes

VARIABLES counter,     \* g_flush_counter
          root,        \* root_task: the flush that allocated it
          pc,          \* where a caller is
          call,        \* the flush a caller is executing, 0 if none
          parent,      \* root under which a flush allocated its dht_task
          running,     \* flushes whose dht_task is not done
          failed,      \* flushes whose dht_task ended by an exception
          begun,       \* number of flushes begun
          met          \* history: flushes that overlapped another flush

vars == <<counter, root, pc, call, parent, running, failed, begun, met>>

Init ==
  /\ counter = Slots
  /\ root = NoRoot
  /\ pc = [c \in Callers |-> "idle"]
  /\ call = [c \in Callers |-> 0]
  /\ parent = [f \in Flushes |-> NoRoot]
  /\ running = {}
  /\ failed = {}
  /\ begun = 0
  /\ met = {}

At(c, label) == pc[c] = label
Goto(c, label) == pc' = [pc EXCEPT ![c] = label]

Inside == {c \in Callers : pc[c] # "idle"}
Together == {c \in Inside : \E d \in Inside : d # c}
Observe == met' = met \cup {call'[c] : c \in Together'}

-----------------------------------------------------------------------------
(***************************************************************************)
(* flush, in the order of its statements.                                  *)
(***************************************************************************)
\* Mutant of AllocateRoot: only the first flush allocates a root.
AllocateOneRoot(c) ==
  /\ At(c, "idle") /\ begun < MaxFlushes
  /\ begun' = begun + 1
  /\ call' = [call EXCEPT ![c] = begun + 1]
  /\ root' = IF root = NoRoot THEN begun + 1 ELSE root
  /\ Goto(c, "spin")
  /\ UNCHANGED <<counter, parent, running, failed>>

\* root_task = new(allocate_root()) empty_task, with reference count 1.
AllocateRoot(c) ==
  /\ At(c, "idle") /\ begun < MaxFlushes
  /\ begun' = begun + 1
  /\ call' = [call EXCEPT ![c] = begun + 1]
  /\ root' = begun + 1
  /\ Goto(c, "spin")
  /\ UNCHANGED <<counter, parent, running, failed>>

\* Mutant of LeaveSpin: the loop waits for counter < 0.
LeaveSpinAtZero(c) ==
  /\ At(c, "spin") /\ counter >= 0
  /\ Goto(c, "decrement")
  /\ UNCHANGED <<counter, root, call, parent, running, failed, begun>>

\* while (g_flush_counter <= 0) {}
LeaveSpin(c) ==
  /\ At(c, "spin") /\ counter > 0
  /\ Goto(c, "decrement")
  /\ UNCHANGED <<counter, root, call, parent, running, failed, begun>>

\* Mutant of Decrement: the flush takes no slot.
DecrementNothing(c) ==
  /\ At(c, "decrement")
  /\ Goto(c, "spawn")
  /\ UNCHANGED <<counter, root, call, parent, running, failed, begun>>

\* fetch_and_decrement: the counter may have changed since the loop.
Decrement(c) ==
  /\ At(c, "decrement")
  /\ counter' = counter - 1
  /\ Goto(c, "spawn")
  /\ UNCHANGED <<root, call, parent, running, failed, begun>>

\* Mutant of Spawn: the caller does not forget its flush.
SpawnAgain(c) ==
  /\ At(c, "spawn")
  /\ parent' = [parent EXCEPT ![call[c]] = root]
  /\ running' = running \cup {call[c]}
  /\ Goto(c, "idle")
  /\ UNCHANGED <<counter, root, call, failed, begun>>

\* allocate_child of whatever root_task is by now, spawn, return 0.
Spawn(c) ==
  /\ At(c, "spawn")
  /\ parent' = [parent EXCEPT ![call[c]] = root]
  /\ running' = running \cup {call[c]}
  /\ call' = [call EXCEPT ![c] = 0]
  /\ Goto(c, "idle")
  /\ UNCHANGED <<counter, root, failed, begun>>

-----------------------------------------------------------------------------
(***************************************************************************)
(* dht_task::execute.                                                      *)
(***************************************************************************)
\* Mutant of TaskDone: the slot is not given back.
TaskDoneKeepsSlot(f) ==
  /\ f \in running
  /\ running' = running \ {f}
  /\ UNCHANGED <<counter, root, pc, call, parent, failed, begun>>

\* The sinks are flushed and purged, then fetch_and_increment.
TaskDone(f) ==
  /\ f \in running
  /\ running' = running \ {f}
  /\ counter' = counter + 1
  /\ UNCHANGED <<root, pc, call, parent, failed, begun>>

\* A sink throws (dht_error, key_missing_error, a name that does not
\* resolve): execute() is left before the increment.
TaskThrows(f) ==
  /\ f \in running
  /\ running' = running \ {f}
  /\ failed' = failed \cup {f}
  /\ UNCHANGED <<counter, root, pc, call, parent, begun>>

-----------------------------------------------------------------------------
InFlush(c) == LeaveSpin(c) \/ Decrement(c) \/ Spawn(c)
TaskEnds(f) == TaskDone(f) \/ TaskThrows(f)

Next ==
  /\ \/ \E c \in Callers : AllocateRoot(c) \/ InFlush(c)
     \/ \E f \in Flushes : TaskEnds(f)
  /\ Observe

(***************************************************************************)
(* A thread inside flush and a spawned task keep running.                  *)
(***************************************************************************)
Fairness ==
  /\ \A c \in Callers : WF_vars(InFlush(c) /\ Observe)
  /\ \A f \in Flushes : WF_vars(TaskEnds(f) /\ Observe)

Spec == Init /\ [][Next]_vars /\ Fairness

-----------------------------------------------------------------------------
TypeOK ==
  /\ counter \in Int
  /\ root \in Flushes \cup {NoRoot}
  /\ pc \in [Callers -> {"idle", "spin", "decrement", "spawn"}]
  /\ call \in [Callers -> Flushes \cup {0}]
  /\ \A c \in Callers : pc[c] = "idle" <=> call[c] = 0
  /\ parent \in [Flushes -> Flushes \cup {NoRoot}]
  /\ running \subseteq Flushes
  /\ failed \subseteq Flushes
  /\ begun \in 0..MaxFlushes
  /\ met \subseteq Flushes

Passed  == {c \in Callers : pc[c] = "decrement"}   \* saw a free slot
Holding == {c \in Callers : pc[c] = "spawn"}       \* took a slot

(***************************************************************************)
(* A slot is free, held by a caller about to spawn, held by a running      *)
(* task, or lost with a task that failed; none is made up and none is      *)
(* given back twice, whatever the counter sinks to.                        *)
(***************************************************************************)
SlotConservation ==
  counter + Cardinality(Holding) + Cardinality(running) + Cardinality(failed) = Slots

(***************************************************************************)
(* The busy wait and the decrement are not atomic, so more than Slots      *)
(* tasks can be in flight; the excess is less than the number of threads   *)
(* that call flush, and with one thread there is none.                     *)
(***************************************************************************)
InFlightBound == Cardinality(running) <= Slots + Cardinality(Callers) - 1

(***************************************************************************)
(* The slots of failed tasks are lost: once Slots tasks have failed, no    *)
(* thread leaves the busy wait any more.                                   *)
(***************************************************************************)
LostSlotsStopFlush ==
  [][Cardinality(failed) >= Slots =>
       \A c \in Callers : pc[c] = "spin" => pc'[c] = "spin"]_vars

(***************************************************************************)
(* Nobody spins in vain: while no slot is free somebody holds one, about   *)
(* to spawn a task, or a task runs that may give one back, unless Slots    *)
(* tasks have failed.                                                      *)
(***************************************************************************)
SpinningHasReason ==
  counter <= 0 /\ Cardinality(failed) < Slots => Holding # {} \/ running # {}

(***************************************************************************)
(* Two tasks have the same parent, which is freed when the first of them   *)
(* ends, only if two calls of flush overlapped: the global root_task is    *)
(* safe when one thread at a time is in flush.                             *)
(***************************************************************************)
SharedRootNeedsOverlap ==
  \A f, g \in Flushes :
    f # g /\ parent[f] = parent[g] /\ parent[f] # NoRoot => f \in met /\ g \in met

(***************************************************************************)
(* A call of flush returns unless Slots tasks have failed.                 *)
(***************************************************************************)
FlushReturns ==
  \A c \in Callers : At(c, "spin") ~> (At(c, "idle") \/ Cardinality(failed) >= Slots)

-----------------------------------------------------------------------------
(***************************************************************************)
(* What makes the safety properties inductive: a flush is in one place at  *)
(* a time, a free slot was seen by fewer callers than there are, root_task *)
(* is the root of the latest flush, and a flush that is not the latest any *)
(* more has met the latest.                                                *)
(***************************************************************************)
FlushesDistinct ==
  /\ running \cup failed \subseteq 1..begun
  /\ running \cap failed = {}
  /\ \A c \in Inside : call[c] \in 1..begun /\ call[c] \notin running \cup failed
  /\ \A c, d \in Inside : c # d => call[c] # call[d]

OverdraftBound == counter >= Cardinality(Passed) + 1 - Cardinality(Callers)

RootIsLatest == root = IF begun = 0 THEN NoRoot ELSE begun

LatestMetRest == \A c \in Inside : call[c] # begun => call[c] \in met /\ begun \in met

ParentMetChild ==
  \A f \in Flushes :
    parent[f] \notin {NoRoot, f} => f \in met /\ parent[f] \in met

SlotInv == FlushesDistinct /\ SlotConservation /\ OverdraftBound
RootInv == RootIsLatest /\ LatestMetRest /\ ParentMetChild

=============================================================================
