--------------------------------- MODULE Pool ---------------------------------
(***************************************************************************)
(* The thread pool of libsgate/threadpool.  Worker threads take tasks from *)
(* a scheduler; application threads schedule tasks, resize the pool, wait  *)
(* until little is left to do, and shut the pool down.                     *)
(*                                                                         *)
(* Everything the pool shares is guarded by m_monitor, so an action is one *)
(* critical section.  A condition variable is the set of the threads that  *)
(* sleep in it: notify_one wakes any one of them, notify_all every one,    *)
(* and a thread may wake up for no reason.  A thread that has been woken   *)
(* takes the lock again in a step of its own, after others may have been   *)
(* there.                                                                  *)
(***************************************************************************)
EXTENDS Integers, Sequences, FiniteSets

CONSTANTS
  Worker,     \* the threads the system can give the pool at the same time
  Caller,     \* the application threads
  Task,
  Priority,   \* Priority[t]: m_priority of a prio_task_func
  Throws,     \* the tasks that end with an exception
  Schedulers, \* the scheduling policies: of "fifo", "lifo" and "prio"
  Initial,    \* initial_threads
  Sizes,      \* the sizes resize is called with
  Thresholds, \* the thresholds wait is called with
  None        \* no task

ASSUME PoolAssumption ==
  /\ IsFiniteSet(Worker)
  /\ Priority \in [Task -> Nat]
  /\ Throws \subseteq Task
  /\ Schedulers \subseteq {"fifo", "lifo", "prio"}
  /\ Initial \in 0 .. Cardinality(Worker)
  /\ Sizes \subseteq Nat /\ Thresholds \subseteq Nat
  /\ None \notin Task

VARIABLES
  policy,      \* the scheduling policy: an argument of the template
  worker,      \* where each worker thread is
  task,        \* the task each worker thread runs
  count,       \* m_worker_count
  target,      \* m_target_worker_count
  active,      \* m_active_worker_count
  scheduler,   \* the pending tasks, in the order of the calls to schedule
  terminating, \* m_terminate_all_workers
  caller,      \* what each application thread is doing
  closed,      \* the last handle of the pool is gone
  scheduled,   \* history: the tasks in the order of the calls to schedule
  finished,    \* history: the tasks that have ended
  cleared      \* history: the tasks that clear removed

pool == <<policy, worker, task, count, target, active, terminating>>
history == <<scheduled, finished, cleared>>
vars == <<pool, scheduler, caller, closed, history>>

(* none: no thread.  ready: before the lock of execute_task.  waiting:     *)
(* asleep in m_task_or_terminate_workers_event.  notified: woken, before   *)
(* it has the lock again.  leaving: execute_task returned false.           *)
Places == {"none", "ready", "waiting", "notified", "running", "leaving"}

(* An application thread outside of the pool, in wait, in the wait with a  *)
(* timestamp, in the wait of a shutdown policy, before terminate_all_      *)
(* workers, in its loop.  asleep: in m_worker_idle_or_terminated_event.    *)
Calls == {"none", "wait", "timed", "drain", "terminate", "join"}

NoCall == [does |-> "none", threshold |-> 0, asleep |-> FALSE]

Threads(place) == {w \in Worker : worker[w] \in place}

TypeOK ==
  /\ policy \in Schedulers
  /\ worker \in [Worker -> Places]
  /\ task \in [Worker -> Task \cup {None}]
  /\ count \in 0 .. Cardinality(Worker)
  /\ active \in 0 .. Cardinality(Worker)
  /\ target \in Nat
  /\ scheduler \in Seq(Task)
  /\ terminating \in BOOLEAN /\ closed \in BOOLEAN
  /\ caller \in [Caller -> [does : Calls, threshold : Thresholds \cup {0},
                            asleep : BOOLEAN]]
  /\ scheduled \in Seq(Task)
  /\ finished \subseteq Task /\ cleared \subseteq Task

(* The constructor resizes the pool before anybody else can see it. *)
Init ==
  \E first \in SUBSET Worker :
    /\ policy \in Schedulers
    /\ Cardinality(first) = Initial
    /\ worker = [w \in Worker |-> IF w \in first THEN "ready" ELSE "none"]
    /\ task = [w \in Worker |-> None]
    /\ count = Initial /\ target = Initial /\ active = Initial
    /\ scheduler = <<>> /\ terminating = FALSE /\ closed = FALSE
    /\ caller = [c \in Caller |-> NoCall]
    /\ scheduled = <<>> /\ finished = {} /\ cleared = {}

-----------------------------------------------------------------------------
(* The scheduling policies: the positions of the pending tasks of which    *)
(* one is on top.  priority_queue does not say which of its equals is.     *)

FifoTop(q) == {1}

LifoTop(q) == {Len(q)}

Precedes(t, u) == Priority[u] < Priority[t]

PrioTop(q) == {i \in DOMAIN q : \A j \in DOMAIN q : ~Precedes(q[j], q[i])}

Top(q) == CASE policy = "fifo" -> FifoTop(q)
            [] policy = "lifo" -> LifoTop(q)
            [] policy = "prio" -> PrioTop(q)

Without(q, i) == SubSeq(q, 1, i - 1) \o SubSeq(q, i + 1, Len(q))

Running == {task[w] : w \in Threads({"running"})}

Pending == {scheduler[i] : i \in DOMAIN scheduler}

-----------------------------------------------------------------------------
(* The condition variables *)

NotifyAll(where) ==
  [w \in Worker |-> IF where[w] = "waiting" THEN "notified" ELSE where[w]]

(* m_worker_idle_or_terminated_event.notify_all() *)
NotifyCallers ==
  caller' = [c \in Caller |-> [caller[c] EXCEPT !.asleep = FALSE]]

(* A wait returns without a notification. *)
WakeWorker(w) ==
  /\ worker[w] = "waiting"
  /\ worker' = [worker EXCEPT ![w] = "notified"]
  /\ UNCHANGED <<policy, task, count, target, active, terminating, scheduler,
                 caller, closed, history>>

WakeCaller(c) ==
  /\ caller[c].asleep
  /\ caller' = [caller EXCEPT ![c].asleep = FALSE]
  /\ UNCHANGED <<pool, scheduler, closed, history>>

-----------------------------------------------------------------------------
(* Application threads: tasks *)

(* Mutant: nobody is notified. *)
ScheduleSilently(t) ==
  /\ ~closed /\ \A i \in DOMAIN scheduled : scheduled[i] # t
  /\ scheduler' = Append(scheduler, t)
  /\ scheduled' = Append(scheduled, t)
  /\ UNCHANGED <<pool, caller, closed, finished, cleared>>

(* schedule: the call never fails. *)
Schedule(t) ==
  /\ ~closed /\ \A i \in DOMAIN scheduled : scheduled[i] # t
  /\ scheduler' = Append(scheduler, t)
  /\ scheduled' = Append(scheduled, t)
  /\ \/ Threads({"waiting"}) = {} /\ UNCHANGED worker
     \/ \E w \in Threads({"waiting"}) :
          worker' = [worker EXCEPT ![w] = "notified"]
  /\ UNCHANGED <<policy, task, count, target, active, terminating, caller,
                 closed, finished, cleared>>

DropPending ==
  /\ scheduler' = <<>>
  /\ cleared' = cleared \cup Pending

(* clear: nobody is notified. *)
Clear ==
  /\ ~closed /\ scheduler # <<>>
  /\ DropPending
  /\ UNCHANGED <<pool, caller, closed, scheduled, finished>>

-----------------------------------------------------------------------------
(* The number of workers *)

(* The loop of resize that creates threads out of those that are free, for *)
(* a pool of n workers at the places where, a of them active.  A thread    *)
(* that the system refuses ends the loop.                                  *)
Grow(where, free, n, a, size) == \E new \in SUBSET free :
  LET m == Cardinality(new)
  IN  /\ n + m = size \/ (n + m < size /\ new = free)
      /\ worker' = [w \in Worker |-> IF w \in new THEN "ready" ELSE where[w]]
      /\ count' = n + m
      /\ active' = a + m

(* resize, through a size controller, which may outlive the pool's handles *)
Resize(size) ==
  /\ ~terminating
  /\ target' = size
  /\ \/ count <= size /\ Grow(worker, Threads({"none"}), count, active, size)
     \/ /\ count > size
        /\ worker' = NotifyAll(worker)
        /\ UNCHANGED <<count, active>>
  /\ UNCHANGED <<policy, task, terminating, scheduler, caller, closed, history>>

(* A worker ends: a are left active. *)
Gone(w, a) ==
  LET where == [worker EXCEPT ![w] = "none"]
      left  == count - 1
  IN  /\ NotifyCallers
      /\ \/ /\ terminating
            /\ worker' = where /\ count' = left /\ active' = a
            /\ UNCHANGED target
         \/ /\ ~terminating
            /\ target' = left + 1
            /\ Grow(where, Threads({"none"}), left, a, left + 1)

(* Mutant: the worker that died is still counted as active. *)
DieActive(w) ==
  /\ worker[w] = "running" /\ task[w] \in Throws
  /\ Gone(w, active)
  /\ task' = [task EXCEPT ![w] = None]
  /\ finished' = finished \cup {task[w]}
  /\ UNCHANGED <<policy, terminating, scheduler, closed, scheduled, cleared>>

(* worker_died_unexpectedly, called when an exception leaves run: the size *)
(* policy asks for one worker more than are left, whatever the target was. *)
(* The dying thread still exists while its successor is created.           *)
Die(w) ==
  /\ worker[w] = "running" /\ task[w] \in Throws
  /\ Gone(w, active - 1)
  /\ task' = [task EXCEPT ![w] = None]
  /\ finished' = finished \cup {task[w]}
  /\ UNCHANGED <<policy, terminating, scheduler, closed, scheduled, cleared>>

(* worker_destructed *)
Leave(w) ==
  /\ worker[w] = "leaving"
  /\ worker' = [worker EXCEPT ![w] = "none"]
  /\ count' = count - 1
  /\ active' = active - 1
  /\ NotifyCallers
  /\ UNCHANGED <<policy, task, target, terminating, scheduler, closed, history>>

-----------------------------------------------------------------------------
(* execute_task *)

(* A worker that returns from its wait counts as active again. *)
ActiveWith(w) == IF worker[w] = "notified" THEN active + 1 ELSE active

AtLock(w) == worker[w] \in {"ready", "notified"}

(* There are too many workers.  One that has been woken asks only if there *)
(* is nothing to do; the count goes down later, in Leave.                  *)
LetGo(w) ==
  /\ AtLock(w) /\ count > target
  /\ worker[w] = "notified" => scheduler = <<>>
  /\ worker' = [worker EXCEPT ![w] = "leaving"]
  /\ active' = ActiveWith(w)
  /\ UNCHANGED <<policy, task, count, target, terminating, scheduler, caller,
                 closed, history>>

(* Mutant: a woken worker that finds nothing to do was not counted again.  *)
SleepUncounted(w) ==
  /\ AtLock(w) /\ count <= target /\ scheduler = <<>>
  /\ worker' = [worker EXCEPT ![w] = "waiting"]
  /\ active' = active - 1
  /\ NotifyCallers
  /\ UNCHANGED <<policy, task, count, target, terminating, scheduler, closed,
                 history>>

(* Mutant: nobody hears that the worker is idle. *)
SleepSilently(w) ==
  /\ AtLock(w) /\ count <= target /\ scheduler = <<>>
  /\ worker' = [worker EXCEPT ![w] = "waiting"]
  /\ active' = ActiveWith(w) - 1
  /\ UNCHANGED <<policy, task, count, target, terminating, scheduler, caller,
                 closed, history>>

(* There is nothing to do. *)
Sleep(w) ==
  /\ AtLock(w) /\ count <= target /\ scheduler = <<>>
  /\ worker' = [worker EXCEPT ![w] = "waiting"]
  /\ active' = ActiveWith(w) - 1
  /\ NotifyCallers
  /\ UNCHANGED <<policy, task, count, target, terminating, scheduler, closed,
                 history>>

(* Mutant: a worker that was woken for a task is not counted. *)
TakeUncounted(w) ==
  /\ AtLock(w) /\ scheduler # <<>>
  /\ worker[w] = "ready" => count <= target
  /\ worker' = [worker EXCEPT ![w] = "running"]
  /\ UNCHANGED active
  /\ \E i \in Top(scheduler) :
       /\ task' = [task EXCEPT ![w] = scheduler[i]]
       /\ scheduler' = Without(scheduler, i)
  /\ UNCHANGED <<policy, count, target, terminating, caller, closed, history>>

(* Mutant: the task stays on top. *)
TakeWithoutPop(w) ==
  /\ AtLock(w) /\ scheduler # <<>>
  /\ worker[w] = "ready" => count <= target
  /\ worker' = [worker EXCEPT ![w] = "running"]
  /\ active' = ActiveWith(w)
  /\ \E i \in Top(scheduler) : task' = [task EXCEPT ![w] = scheduler[i]]
  /\ UNCHANGED <<policy, count, target, terminating, scheduler, caller,
                 closed, history>>

Take(w) ==
  /\ AtLock(w) /\ scheduler # <<>>
  /\ worker[w] = "ready" => count <= target
  /\ worker' = [worker EXCEPT ![w] = "running"]
  /\ active' = ActiveWith(w)
  /\ \E i \in Top(scheduler) :
       /\ task' = [task EXCEPT ![w] = scheduler[i]]
       /\ scheduler' = Without(scheduler, i)
  /\ UNCHANGED <<policy, count, target, terminating, caller, closed, history>>

(* The task returns, outside of the lock. *)
Finish(w) ==
  /\ worker[w] = "running" /\ task[w] \notin Throws
  /\ worker' = [worker EXCEPT ![w] = "ready"]
  /\ task' = [task EXCEPT ![w] = None]
  /\ finished' = finished \cup {task[w]}
  /\ UNCHANGED <<policy, count, target, active, terminating, scheduler, caller,
                 closed, scheduled, cleared>>

-----------------------------------------------------------------------------
(* Application threads: waiting and shutting down *)

Calling(c, what, k) ==
  caller' = [caller EXCEPT ![c] = [does |-> what, threshold |-> k,
                                   asleep |-> FALSE]]

Idle(k) == active + Len(scheduler) <= k

Wait(c, what, k) ==
  /\ ~closed /\ caller[c].does = "none"
  /\ Calling(c, what, k)
  /\ UNCHANGED <<pool, scheduler, closed, history>>

FallAsleep(c) == caller' = [caller EXCEPT ![c].asleep = TRUE]

(* One turn of the loop in wait: the wait of the shutdown policies goes on *)
(* to terminate_all_workers.                                               *)
WaitTurn(c) ==
  LET d == caller[c]
  IN  /\ d.does \in {"wait", "timed", "drain"} /\ ~d.asleep
      /\ \/ ~Idle(d.threshold) /\ FallAsleep(c)
         \/ /\ Idle(d.threshold)
            /\ Calling(c, IF d.does = "drain" THEN "terminate" ELSE "none", 0)
      /\ UNCHANGED <<pool, scheduler, closed, history>>

(* timed_wait returns false: so does wait, without another look. *)
TimeOut(c) ==
  /\ caller[c].does = "timed" /\ caller[c].asleep
  /\ Calling(c, "none", 0)
  /\ UNCHANGED <<pool, scheduler, closed, history>>

(* Mutant: the workers that sleep are not woken. *)
TerminateSilently ==
  /\ terminating' = TRUE
  /\ target' = 0
  /\ UNCHANGED <<policy, worker, task, count, active>>

(* terminate_all_workers up to its wait *)
TerminateAll ==
  /\ terminating' = TRUE
  /\ target' = 0
  /\ worker' = NotifyAll(worker)
  /\ UNCHANGED <<policy, task, count, active>>

(* The last handle goes.  Policy wait_for_all_tasks ... *)
ShutdownAll(c) ==
  /\ Calling(c, "drain", 0)
  /\ UNCHANGED <<pool, scheduler, history>>

(* ... wait_for_active_tasks ... *)
ShutdownActive(c) ==
  /\ DropPending
  /\ Calling(c, "drain", 0)
  /\ UNCHANGED <<pool, scheduled, finished>>

(* Mutant: the pending tasks stay. *)
ShutdownWithTasks ==
  /\ TerminateAll
  /\ UNCHANGED <<scheduler, caller, history>>

(* ... immediately: clear and terminate are two critical sections, with    *)
(* nothing between them that could add a task.                             *)
ShutdownImmediately ==
  /\ DropPending
  /\ TerminateAll
  /\ UNCHANGED <<caller, scheduled, finished>>

(* Nobody can be inside a call of a handle that goes. *)
Shutdown(c) ==
  /\ ~closed /\ \A d \in Caller : caller[d].does = "none"
  /\ closed' = TRUE
  /\ ShutdownAll(c) \/ ShutdownActive(c) \/ ShutdownImmediately

Terminate(c) ==
  /\ caller[c].does = "terminate"
  /\ TerminateAll
  /\ Calling(c, "join", 0)
  /\ UNCHANGED <<scheduler, closed, history>>

(* The workers that have said goodbye are joined at once: they do nothing  *)
(* after that.  Those that sleep or have just been woken are not active.   *)
JoinTurn(c) ==
  /\ caller[c].does = "join" /\ ~caller[c].asleep
  /\ \/ active > 0 /\ FallAsleep(c)
     \/ active = 0 /\ Calling(c, "none", 0)
  /\ UNCHANGED <<pool, scheduler, closed, history>>

-----------------------------------------------------------------------------
WorkerStep(w) ==
  LetGo(w) \/ Sleep(w) \/ Take(w) \/ Finish(w) \/ Die(w) \/ Leave(w)

CallerStep(c) == WaitTurn(c) \/ Terminate(c) \/ JoinTurn(c)

Next ==
  \/ \E w \in Worker : WorkerStep(w) \/ WakeWorker(w)
  \/ \E c \in Caller : CallerStep(c) \/ WakeCaller(c) \/ TimeOut(c)
  \/ \E c \in Caller : Shutdown(c)
  \/ \E c \in Caller, k \in Thresholds, what \in {"wait", "timed"} :
       Wait(c, what, k)
  \/ \E t \in Task : Schedule(t)
  \/ \E size \in Sizes : Resize(size)
  \/ Clear

Spec == Init /\ [][Next]_vars

(* The system runs every thread that can run, and every task ends.  No     *)
(* thread has to wake up without a notification, and nobody has to call.   *)
FairSpec == /\ Spec
            /\ \A w \in Worker : WF_vars(WorkerStep(w))
            /\ \A c \in Caller : WF_vars(CallerStep(c))

-----------------------------------------------------------------------------
(* Properties *)

(* The counters, which every decision of the pool rests on, agree with the *)
(* threads through sleeping, waking, dying, being replaced and leaving     *)
(* (pool_core.hpp 347-349, 373-374, 390-391, 427-430).                     *)
Counted ==
  /\ count = Cardinality(Worker \ Threads({"none"}))
  /\ active = Cardinality(Threads({"ready", "running", "leaving"}))

(* A task is executed once only (pool_core.hpp 180): it is pending once,   *)
(* or one worker runs it, or it has ended, or it was removed.              *)
ExecutedOnce == \A i \in DOMAIN scheduled :
  LET t == scheduled[i]
  IN  Cardinality({j \in DOMAIN scheduler : scheduler[j] = t})
      + Cardinality({w \in Worker : task[w] = t})
      + Cardinality({t} \cap finished) + Cardinality({t} \cap cleared) = 1

(* When wait() with threshold 0 returns, or the wait of a shutdown policy  *)
(* does, every task scheduled so far has ended or was removed, although a  *)
(* worker that has been woken for a task counts as idle until it has the   *)
(* lock (pool_core.hpp 237-249; shutdown_policies.hpp 29-30).              *)
WaitMeansDone == [][\A c \in Caller :
  LET d == caller[c]
  IN  (/\ d.does \in {"wait", "drain"} /\ d.threshold = 0
       /\ caller'[c].does # d.does)
     => \A i \in DOMAIN scheduled : scheduled[i] \in finished \cup cleared]_vars

(* Task t was scheduled before task u. *)
Before(t, u) == \E i, j \in DOMAIN scheduled :
  i < j /\ scheduled[i] = t /\ scheduled[j] = u

(* No task starts while another one is pending that has precedence under   *)
(* the scheduling policy, in whatever order tasks came, were taken and     *)
(* were removed (scheduling_policies.hpp 37, 111, 184).                    *)
StartOrder == [][\A w \in Worker, t \in Pending :
  (task'[w] # task[w] /\ task'[w] \notin {None, t}) =>
    CASE policy = "fifo" -> ~Before(t, task'[w])
      [] policy = "lifo" -> ~Before(task'[w], t)
      [] policy = "prio" -> ~Precedes(t, task'[w])]_vars

(* Once all workers have been told to end, no task starts: all that is     *)
(* left to do is what the workers are doing (shutdown_policies.hpp 29-79). *)
NothingStarts == [][terminating => \A w \in Worker :
  worker'[w] = "running" => worker[w] = "running"]_vars

(* The calls that change the size come to an end and have left a worker:   *)
(* not every call does (KeepsTarget), and calls without end starve others. *)
Staffed == \E w \in Worker, size \in Sizes \cup {Initial} :
  <>[](\/ terminating
       \/ target = size /\ worker[w] \notin {"none", "leaving"})

(* No task is forgotten: no notification of schedule or resize is lost, as *)
(* long as there are workers (pool_core.hpp 187-190, 417-431).             *)
TasksStart == Staffed => <>[](scheduler = <<>>)

(* If every task ends, wait returns, whatever its threshold, and so does   *)
(* the pool's destructor: some worker goes to sleep, ends or dies, and     *)
(* tells the callers (pool_core.hpp 241-290, 308, 392, 427).               *)
WaitEnds == Staffed => \A c \in Caller :
  [](caller[c].does # "none" => <>(caller[c].does = "none"))

(* Every worker thread ends after shutdown, sleeping ones included         *)
(* (pool_core.hpp 301-304).                                                *)
AllLeave == terminating ~> count = 0

(* What pool_core.hpp 324-328 says of resize: the pool has as many workers *)
(* as the last call asked for, or more that have yet to leave.             *)
KeepsTarget == count >= target
===============================================================================
