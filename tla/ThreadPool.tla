----------------------------- MODULE ThreadPool -----------------------------
(***************************************************************************)
(* boost::threadpool, the pool that socket_scheduler owns: pool_core with  *)
(* its worker threads, the scheduling, size and shutdown policies, and the *)
(* futures of its tasks.                                                   *)
(*                                                                         *)
(* Everything between taking m_monitor and releasing it, in a wait on a    *)
(* condition or at the end of a scope, is one step.  Threads are numbered  *)
(* in the order they are created.  A task that throws means an exception   *)
(* boost::thread catches (thread_interrupted): any other ends the program. *)
(***************************************************************************)
EXTENDS Integers, FiniteSets, SequencesExt

CONSTANTS Tasks,       \* the function objects, each scheduled at most once
          Futures,     \* those wrapped by future_impl_task_func
          Priority,    \* m_priority of a task
          Pools,       \* the instantiations of the template
          Sizes,       \* worker counts asked for
          Thresholds,  \* thresholds waited for
          Callers,     \* threads that use the pool
          MaxThreads,  \* bound on the worker threads created
          MaxCalls,    \* bound on the calls other than schedule
          NoTask

Workers == 1..MaxThreads

ASSUME PoolAssumption ==
  /\ Futures \subseteq Tasks /\ NoTask \notin Tasks
  /\ Priority \in [Tasks -> Nat]
  /\ Pools \subseteq [scheduler : {"fifo", "lifo", "prio"},
                      shutdown : {"wait_for_all_tasks", "wait_for_active_tasks", "immediately"}]
  /\ Sizes \subseteq Nat /\ Thresholds \subseteq Nat
  /\ MaxThreads \in Nat /\ MaxCalls \in Nat

VARIABLES policy,      \* the instantiation at hand
          queue,       \* m_scheduler.m_container
          target,      \* m_target_worker_count
          count,       \* m_worker_count
          active,      \* m_active_worker_count
          stopping,    \* m_terminate_all_workers
          terminated,  \* m_terminated_workers
          pc,          \* where a worker thread is
          job,         \* the task it has fetched
          spawned,     \* number of threads created
          at,          \* whether a caller sleeps in a wait of the pool
          goal,        \* what it waits for: a threshold, or the end of the workers
          phase,       \* how far the shutdown of the pool is
          ready, cancelled, executing,  \* tasks whose future has the flag set
          cancelling,  \* tasks a cancel() has looked at and not marked yet
          known, ended, removed,        \* history: tasks scheduled, ended, cleared
          calls        \* number of calls made

poolVars   == <<policy, target, count, stopping, terminated, spawned>>
callVars   == <<at, goal, phase, calls>>
futureVars == <<ready, cancelled, executing, cancelling>>
history    == <<known, ended, removed>>
vars == <<poolVars, queue, active, pc, job, callVars, futureVars, history>>

-----------------------------------------------------------------------------
(***************************************************************************)
(* The two condition variables.                                            *)
(***************************************************************************)
\* m_worker_idle_or_terminated_event.notify_all()
WakeCallers == at' = [c \in Callers |-> IF at[c] = "asleep" THEN "awake" ELSE at[c]]

\* m_task_or_terminate_workers_event.notify_all() and notify_one()
Woken(p) == [w \in Workers |-> IF p[w] = "waiting" THEN "notified" ELSE p[w]]

\* Mutant of WakeOne: a worker is notified only when the queue becomes non-empty.
WakeOneAtFirst ==
  \/ \E w \in Workers : queue = <<>> /\ pc[w] = "waiting" /\ pc' = [pc EXCEPT ![w] = "notified"]
  \/ (queue # <<>> \/ \A w \in Workers : pc[w] # "waiting") /\ pc' = pc

WakeOne ==
  \/ \E w \in Workers : pc[w] = "waiting" /\ pc' = [pc EXCEPT ![w] = "notified"]
  \/ (\A w \in Workers : pc[w] # "waiting") /\ pc' = pc

(***************************************************************************)
(* The scheduling policies: where push puts a task, and which one is next. *)
(***************************************************************************)
PushBack(t)  == Append(queue, t)
PushFront(t) == <<t>> \o queue
Highest == {i \in DOMAIN queue : \A j \in DOMAIN queue : Priority[queue[j]] <= Priority[queue[i]]}

Push(t) == IF policy.scheduler = "lifo" THEN PushFront(t) ELSE PushBack(t)
Top     == IF policy.scheduler = "prio" THEN Highest ELSE {1}

-----------------------------------------------------------------------------
(***************************************************************************)
(* pool_core::resize, with c, a and p for the worker counts and threads as *)
(* the caller has left them.  Creating a thread may fail at any point, and *)
(* the target is kept.                                                     *)
(***************************************************************************)
Grow(n, c, a, p) ==
  /\ c <= n
  /\ \E k \in 0..(n - c) :
       /\ spawned + k <= MaxThreads
       /\ spawned' = spawned + k /\ count' = c + k /\ active' = a + k
       /\ pc' = [w \in Workers |-> IF w \in (spawned + 1)..(spawned + k) THEN "fetch" ELSE p[w]]

Shrink(n, c, a, p) ==
  /\ c > n
  /\ pc' = Woken(p)
  /\ count' = c /\ active' = a /\ UNCHANGED spawned

ResizeTo(n, c, a, p) == target' = n /\ (Grow(n, c, a, p) \/ Shrink(n, c, a, p))

\* static_size, of a worker that died: one more than are left.
Replace(c, a, p) == ResizeTo(c + 1, c, a, p)

-----------------------------------------------------------------------------
(***************************************************************************)
(* Calls.  The pool object is used until its last copy goes away; the size *)
(* controller keeps pool_core alive, so that resize can still be called.   *)
(***************************************************************************)
Open  == phase = "open"
Count == calls < MaxCalls /\ calls' = calls + 1

Schedule(t) ==
  /\ Open /\ t \notin known
  /\ queue' = Push(t) /\ known' = known \cup {t}
  /\ WakeOne
  /\ UNCHANGED <<poolVars, active, job, callVars, futureVars, ended, removed>>

Clear ==
  /\ Open /\ Count /\ queue # <<>>
  /\ queue' = <<>> /\ removed' = removed \cup ToSet(queue)
  /\ UNCHANGED <<poolVars, active, pc, job, at, goal, phase, futureVars, known, ended>>

\* Once the workers are being terminated resize returns false.
Resize(n) ==
  /\ Count /\ ~stopping
  /\ ResizeTo(n, count, active, pc)
  /\ UNCHANGED <<policy, queue, stopping, terminated, job, at, goal, phase, futureVars,
                 known, ended, removed>>

(***************************************************************************)
(* wait: asleep until the pending and active tasks are at most a threshold.*)
(* The code treats the threshold 0 apart, with the same meaning.           *)
(***************************************************************************)
Reached(n) == active + Len(queue) <= n

Wait(c, n) ==
  /\ Open /\ at[c] = "idle" /\ Count /\ ~Reached(n)
  /\ at' = [at EXCEPT ![c] = "asleep"] /\ goal' = [goal EXCEPT ![c] = n]
  /\ UNCHANGED <<poolVars, queue, active, pc, job, phase, futureVars, history>>

\* Mutant of Recheck: an if in the place of the while.
RecheckOnce(c) ==
  /\ at[c] = "awake" /\ phase # "stopping"
  /\ at' = [at EXCEPT ![c] = "idle"]
  /\ UNCHANGED <<poolVars, queue, active, pc, job, goal, calls, phase, futureVars, history>>

Recheck(c) ==
  /\ at[c] = "awake" /\ phase # "stopping"
  /\ at' = [at EXCEPT ![c] = IF Reached(goal[c]) THEN "idle" ELSE "asleep"]
  /\ UNCHANGED <<poolVars, queue, active, pc, job, goal, calls, phase, futureVars, history>>

\* A wait with a timestamp returns false when that is met.
Expire(c) ==
  /\ at[c] # "idle" /\ Open
  /\ at' = [at EXCEPT ![c] = "idle"]
  /\ UNCHANGED <<poolVars, queue, active, pc, job, goal, calls, phase, futureVars, history>>

(***************************************************************************)
(* shutdown, run by the thread that drops the last copy of the pool: the   *)
(* shutdown policy, then terminate_all_workers.                            *)
(***************************************************************************)
Close(c) ==
  /\ Open /\ \A d \in Callers : at[d] = "idle"
  /\ phase' = "draining" /\ goal' = [goal EXCEPT ![c] = 0]
  /\ LET kept == IF policy.shutdown = "wait_for_all_tasks" THEN queue ELSE <<>> IN
       /\ queue' = kept
       /\ removed' = IF kept = queue THEN removed ELSE removed \cup ToSet(queue)
       /\ at' = [at EXCEPT ![c] =
            IF policy.shutdown # "immediately" /\ active + Len(kept) > 0 THEN "asleep" ELSE @]
  /\ UNCHANGED <<poolVars, active, pc, job, calls, futureVars, known, ended>>

\* Mutant of StopWorkers: idle workers are not notified.
StopBusyWorkers(c) ==
  /\ phase = "draining" /\ \A d \in Callers : at[d] = "idle"
  /\ stopping' = TRUE /\ target' = 0
  /\ IF policy.shutdown # "immediately" /\ active > 0
       THEN phase' = "stopping" /\ at' = [at EXCEPT ![c] = "asleep"]
       ELSE phase' = "closed" /\ at' = at
  /\ UNCHANGED <<policy, count, terminated, spawned, queue, active, pc, job, goal, calls,
                 futureVars, known, ended, removed>>

\* With wait, the caller sleeps while a worker is active, then joins those
\* that are terminated: workers that were idle are not waited for.
StopWorkers(c) ==
  /\ phase = "draining" /\ \A d \in Callers : at[d] = "idle"
  /\ stopping' = TRUE /\ target' = 0 /\ pc' = Woken(pc)
  /\ IF policy.shutdown # "immediately" /\ active > 0
       THEN phase' = "stopping" /\ at' = [at EXCEPT ![c] = "asleep"]
       ELSE phase' = "closed" /\ at' = at
  /\ UNCHANGED <<policy, count, terminated, spawned, queue, active, job, goal, calls,
                 futureVars, known, ended, removed>>

RecheckActive(c) ==
  /\ at[c] = "awake" /\ phase = "stopping"
  /\ at' = [at EXCEPT ![c] = IF active = 0 THEN "idle" ELSE "asleep"]
  /\ IF active = 0 THEN phase' = "closed" /\ terminated' = {}
                   ELSE UNCHANGED <<phase, terminated>>
  /\ UNCHANGED <<policy, target, count, stopping, spawned, queue, active, pc, job, goal, calls,
                 futureVars, history>>

-----------------------------------------------------------------------------
(***************************************************************************)
(* execute_task, first half: a worker takes m_monitor, at first or after a *)
(* task ("fetch"), or again when it was woken ("notified"); then it stops, *)
(* goes to sleep, or fetches a task.  a is m_active_worker_count by then.  *)
(***************************************************************************)
Excess == count > target

Exit(w, a) ==
  /\ pc' = [pc EXCEPT ![w] = "leaving"] /\ active' = a
  /\ UNCHANGED <<poolVars, queue, job, callVars, futureVars, history>>

\* Mutant of Sleep: nobody is told that a worker is idle.
SleepSilently(w, a) ==
  /\ pc' = [pc EXCEPT ![w] = "waiting"] /\ active' = a - 1
  /\ UNCHANGED <<poolVars, queue, job, at, goal, calls, phase, futureVars, history>>

Sleep(w, a) ==
  /\ pc' = [pc EXCEPT ![w] = "waiting"] /\ active' = a - 1
  /\ WakeCallers
  /\ UNCHANGED <<poolVars, queue, job, goal, calls, phase, futureVars, history>>

\* Mutant of Take: the task is not popped.
TakeTop(w, a) ==
  /\ \E i \in Top :
       /\ job' = [job EXCEPT ![w] = queue[i]]
       /\ pc' = [pc EXCEPT ![w] = IF queue[i] \in Futures THEN "fetched" ELSE "calling"]
  /\ active' = a
  /\ UNCHANGED <<poolVars, queue, callVars, futureVars, history>>

Take(w, a) ==
  /\ \E i \in Top :
       /\ job' = [job EXCEPT ![w] = queue[i]]
       /\ queue' = RemoveAt(queue, i)
       /\ pc' = [pc EXCEPT ![w] = IF queue[i] \in Futures THEN "fetched" ELSE "calling"]
  /\ active' = a
  /\ UNCHANGED <<poolVars, callVars, futureVars, history>>

Fetch(w) ==
  /\ pc[w] = "fetch"
  /\ \/ Excess /\ Exit(w, active)
     \/ ~Excess /\ queue = <<>> /\ Sleep(w, active)
     \/ ~Excess /\ queue # <<>> /\ Take(w, active)

\* Mutant of WakeUp: a worker that was woken is not counted again.
WakeUpUncounted(w) ==
  /\ pc[w] = "notified"
  /\ \/ queue # <<>> /\ Take(w, active)
     \/ queue = <<>> /\ Excess /\ Exit(w, active)
     \/ queue = <<>> /\ ~Excess /\ Sleep(w, active)

\* The loop looks at the container first: a woken worker that finds a task
\* executes it even if there are too many workers.
WakeUp(w) ==
  /\ pc[w] = "notified"
  /\ \/ queue # <<>> /\ Take(w, active + 1)
     \/ queue = <<>> /\ Excess /\ Exit(w, active + 1)
     \/ queue = <<>> /\ ~Excess /\ Sleep(w, active + 1)

(***************************************************************************)
(* execute_task, second half: the task is called.  future_impl_task_func   *)
(* looks at the mark of cancel() once, and clears the executing flag after *)
(* the value is set; an exception skips both.                              *)
(***************************************************************************)
Goto(w, l) == pc' = [pc EXCEPT ![w] = l] /\ UNCHANGED job

End(w) == ended' = ended \cup {job[w]} /\ pc' = [pc EXCEPT ![w] = "fetch"] /\ job' = [job EXCEPT ![w] = NoTask]

CallFuture(w) ==
  /\ pc[w] = "fetched"
  /\ executing' = executing \cup {job[w]}
  /\ Goto(w, IF job[w] \in cancelled THEN "clearing" ELSE "calling")
  /\ UNCHANGED <<poolVars, queue, active, callVars, ready, cancelled, cancelling, history>>

\* Mutant of TaskReturns: set_value refuses while the task is executing.
TaskReturnsUnready(w) ==
  /\ pc[w] = "calling"
  /\ IF job[w] \in Futures THEN Goto(w, "clearing") /\ UNCHANGED ended ELSE End(w)
  /\ UNCHANGED <<poolVars, queue, active, callVars, futureVars, known, removed>>

TaskReturns(w) ==
  /\ pc[w] = "calling"
  /\ IF job[w] \in Futures
       THEN /\ ready' = IF job[w] \in cancelled THEN ready ELSE ready \cup {job[w]}
            /\ Goto(w, "clearing") /\ UNCHANGED ended
       ELSE End(w) /\ UNCHANGED ready
  /\ UNCHANGED <<poolVars, queue, active, callVars, cancelled, executing, cancelling,
                 known, removed>>

ClearExecuting(w) ==
  /\ pc[w] = "clearing"
  /\ executing' = executing \ {job[w]}
  /\ End(w)
  /\ UNCHANGED <<poolVars, queue, active, callVars, ready, cancelled, cancelling,
                 known, removed>>

TaskThrows(w) ==
  /\ pc[w] = "calling"
  /\ ended' = ended \cup {job[w]}
  /\ pc' = [pc EXCEPT ![w] = "dying"] /\ job' = [job EXCEPT ![w] = NoTask]
  /\ UNCHANGED <<poolVars, queue, active, callVars, futureVars, known, removed>>

(***************************************************************************)
(* The end of a worker: worker_destructed, or worker_died_unexpectedly,    *)
(* after which the size policy replaces it.                                *)
(***************************************************************************)
Terminated(w) == terminated' = IF stopping THEN terminated \cup {w} ELSE terminated

Destructed(w) ==
  /\ pc[w] = "leaving"
  /\ pc' = [pc EXCEPT ![w] = "gone"]
  /\ count' = count - 1 /\ active' = active - 1
  /\ WakeCallers /\ Terminated(w)
  /\ UNCHANGED <<policy, target, stopping, spawned, queue, job, goal, calls, phase,
                 futureVars, history>>

\* Mutant of DiedUnexpectedly: only worker_destructed takes the worker off
\* the active ones.
DiedActive(w) ==
  /\ pc[w] = "dying"
  /\ LET p == [pc EXCEPT ![w] = "gone"] IN
       \/ /\ stopping
          /\ pc' = p /\ count' = count - 1 /\ active' = active
          /\ UNCHANGED <<target, spawned>>
       \/ ~stopping /\ Replace(count - 1, active, p)
  /\ WakeCallers /\ Terminated(w)
  /\ UNCHANGED <<policy, stopping, queue, job, goal, calls, phase, futureVars,
                 known, ended, removed>>

DiedUnexpectedly(w) ==
  /\ pc[w] = "dying"
  /\ LET p == [pc EXCEPT ![w] = "gone"] IN
       \/ /\ stopping
          /\ pc' = p /\ count' = count - 1 /\ active' = active - 1
          /\ UNCHANGED <<target, spawned>>
       \/ ~stopping /\ Replace(count - 1, active - 1, p)
  /\ WakeCallers /\ Terminated(w)
  /\ UNCHANGED <<policy, stopping, queue, job, goal, calls, phase, futureVars,
                 known, ended, removed>>

-----------------------------------------------------------------------------
(***************************************************************************)
(* future::cancel looks at the flags without a lock, then sets its own.    *)
(***************************************************************************)
Cancel(t) ==
  /\ t \in Futures \cap known /\ Count /\ t \notin cancelling \cup cancelled
  /\ t \notin ready \/ t \in executing
  /\ cancelling' = cancelling \cup {t}
  /\ UNCHANGED <<poolVars, queue, active, pc, job, at, goal, phase,
                 ready, cancelled, executing, history>>

MarkCancelled(t) ==
  /\ t \in cancelling
  /\ cancelled' = cancelled \cup {t} /\ cancelling' = cancelling \ {t}
  /\ UNCHANGED <<poolVars, queue, active, pc, job, callVars, ready, executing, history>>

-----------------------------------------------------------------------------
Init ==
  /\ policy \in Pools
  /\ queue = <<>> /\ target = 0 /\ count = 0 /\ active = 0
  /\ stopping = FALSE /\ terminated = {}
  /\ pc = [w \in Workers |-> "none"] /\ job = [w \in Workers |-> NoTask] /\ spawned = 0
  /\ at = [c \in Callers |-> "idle"] /\ goal = [c \in Callers |-> 0]
  /\ phase = "open" /\ calls = 0
  /\ ready = {} /\ cancelled = {} /\ executing = {} /\ cancelling = {}
  /\ known = {} /\ ended = {} /\ removed = {}

WorkerStep(w) ==
  \/ Fetch(w) \/ WakeUp(w)
  \/ CallFuture(w) \/ TaskReturns(w) \/ ClearExecuting(w) \/ TaskThrows(w)
  \/ Destructed(w) \/ DiedUnexpectedly(w)

CallerStep(c) == Recheck(c) \/ StopWorkers(c) \/ RecheckActive(c)

Next ==
  \/ \E t \in Tasks : Schedule(t) \/ Cancel(t) \/ MarkCancelled(t)
  \/ Clear
  \/ \E n \in Sizes : Resize(n)
  \/ \E c \in Callers : Close(c) \/ Expire(c) \/ CallerStep(c) \/ \E n \in Thresholds : Wait(c, n)
  \/ \E w \in Workers : WorkerStep(w)

(***************************************************************************)
(* Threads keep running, and tasks end.                                    *)
(***************************************************************************)
Fairness ==
  /\ \A w \in Workers : WF_vars(WorkerStep(w))
  /\ \A c \in Callers : WF_vars(CallerStep(c))

Spec == Init /\ [][Next]_vars /\ Fairness

-----------------------------------------------------------------------------
PoolTypeOK ==
  /\ policy \in Pools /\ queue \in Seq(Tasks)
  /\ target \in Nat /\ count \in Nat /\ active \in Nat /\ spawned \in 0..MaxThreads
  /\ stopping \in BOOLEAN /\ terminated \subseteq Workers

WorkerTypeOK ==
  /\ pc \in [Workers -> {"none", "fetch", "waiting", "notified", "fetched", "calling",
                         "clearing", "dying", "leaving", "gone"}]
  /\ job \in [Workers -> Tasks \cup {NoTask}]

CallTypeOK ==
  /\ at \in [Callers -> {"idle", "asleep", "awake"}] /\ goal \in [Callers -> Nat]
  /\ phase \in {"open", "draining", "stopping", "closed"} /\ calls \in 0..MaxCalls

TaskTypeOK ==
  /\ ready \cup cancelled \cup executing \cup cancelling \subseteq Futures
  /\ known \cup ended \cup removed \subseteq Tasks

TypeOK == PoolTypeOK /\ WorkerTypeOK /\ CallTypeOK /\ TaskTypeOK

Thread(ls) == {w \in Workers : pc[w] \in ls}
Idle == Thread({"waiting", "notified"})
Busy == Thread({"fetch", "fetched", "calling", "clearing", "dying", "leaving"})

(***************************************************************************)
(* The two counters, changed in separate critical sections by resize, by   *)
(* execute_task and by the two ends of a worker, count the threads: they   *)
(* never wrap below zero, and active is not the number of running tasks    *)
(* but that of the workers that are not idle.                              *)
(***************************************************************************)
CountersAgree == count = Cardinality(Idle \cup Busy) /\ active = Cardinality(Busy)

(***************************************************************************)
(* No wakeup is lost although schedule notifies one worker only and other  *)
(* workers may fetch the task first: while a worker sleeps, at least as    *)
(* many have been woken as tasks are pending.                              *)
(***************************************************************************)
WakeupsCoverQueue ==
  Thread({"waiting"}) # {} => Len(queue) <= Cardinality(Thread({"notified"}))

(***************************************************************************)
(* Nor is a wakeup lost on the other condition: as long as a caller sleeps *)
(* a worker is active or has been woken, and will tell when it is not any  *)
(* more; unless no worker is left.  clear, which makes the condition of a  *)
(* wait true, tells nobody.                                                *)
(***************************************************************************)
SleepersAreWoken ==
  \A c \in Callers : at[c] = "asleep" =>
    active > 0 \/ Thread({"notified"}) # {} \/ count = 0

\* No worker sleeps once the workers are being terminated.
StopIsHeard == stopping => target = 0 /\ Thread({"waiting"}) = {}

(***************************************************************************)
(* When the shutdown of a pool has returned nothing of a task is left,     *)
(* pending or running, unless the policy is not to wait.                   *)
(***************************************************************************)
ShutdownDrains ==
  phase = "closed" /\ policy.shutdown # "immediately" =>
    known = ended \cup removed /\ \A w \in Workers : job[w] = NoTask

\* The pool implements Executor.
Status == [t \in Tasks |->
  IF t \notin known THEN "new"
  ELSE IF \E w \in Workers : job[w] = t THEN "running"
  ELSE IF t \in ended THEN "ended"
  ELSE IF t \in ToSet(queue) THEN "pending"
  ELSE IF t \in removed THEN "removed" ELSE "lost"]

Abstract == INSTANCE Executor WITH status <- Status

ExecutedOnce == Abstract!Spec

\* What makes it so.  First, who the threads are and which of them have a task.
Known(w) == pc[w] # "none" <=> w <= spawned

HasTask(w) ==
  /\ job[w] # NoTask <=> pc[w] \in {"fetched", "calling", "clearing"}
  /\ pc[w] = "fetched" => job[w] \in Futures

Running == {t \in Tasks : \E w \in Workers : job[w] = t}

\* A task is in one place only, and in one of the queue and one worker.
OnePlace ==
  /\ known = ToSet(queue) \cup Running \cup ended \cup removed
  /\ ToSet(queue) \cap (Running \cup ended \cup removed) = {}
  /\ Running \cap (ended \cup removed) = {} /\ ended \cap removed = {}
  /\ \A i, j \in DOMAIN queue : queue[i] = queue[j] => i = j
  /\ \A v, w \in Workers : job[v] = job[w] /\ job[v] # NoTask => v = w

\* Once the policy's wait is over, nothing is left and nothing is added.
Waited == phase # "open" /\ policy.shutdown # "immediately"

Drained ==
  /\ phase = "draining" => \A c \in Callers : at[c] # "idle" => goal[c] = 0
  /\ Waited /\ (phase = "draining" => \A c \in Callers : at[c] = "idle") =>
       queue = <<>> /\ \A w \in Workers : job[w] = NoTask

PoolInv ==
  /\ CountersAgree /\ WakeupsCoverQueue
  /\ \A w \in Workers : Known(w) /\ HasTask(w)
  /\ OnePlace /\ Drained

(***************************************************************************)
(* A scheduled task ends or is removed, in a pool that keeps a worker; and *)
(* then get() of its future has a value to return, unless it was cancelled *)
(* or threw, which leaves the executing flag set: then get() never returns.*)
(***************************************************************************)
TasksAreServed ==
  \A t \in Tasks : t \in known ~>
    \/ t \in removed \/ count = 0
    \/ t \in ended /\ (t \in Futures => t \in ready \cup cancelled \cup executing)

(***************************************************************************)
(* terminate_all_workers ends every worker, those included it did not wait *)
(* for because they were idle.                                             *)
(***************************************************************************)
WorkersEnd == stopping ~> Idle \cup Busy = {}

(***************************************************************************)
(* wait and shutdown return, in a pool that keeps a worker.                *)
(***************************************************************************)
WaitsReturn == \A c \in Callers : at[c] # "idle" ~> at[c] = "idle" \/ count = 0

=============================================================================
