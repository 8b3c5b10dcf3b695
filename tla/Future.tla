-------------------------------- MODULE Future --------------------------------
(***************************************************************************)
(* A task with a result, given to a thread pool (libsgate/threadpool/      *)
(* future.hpp): one worker calls the function and stores what it returns   *)
(* in the future; application threads wait for the result or cancel.       *)
(*                                                                         *)
(* wait and set_value hold m_monitor.  cancel, ready, is_cancelled and     *)
(* set_execution_status do not: each access they make to a volatile member *)
(* is a step of its own, which may fall into a critical section of another.*)
(***************************************************************************)
EXTENDS Naturals, FiniteSets

CONSTANTS
  Caller,  \* the application threads that hold the future
  Result,  \* what the function may return
  None     \* no result

ASSUME FutureAssumption == None \notin Result

VARIABLES
  callable,  \* m_function of the task is not empty
  worker,    \* how far the worker is in operator() of the task
  computed,  \* what the function returned
  ready,     \* m_ready
  result,    \* m_result
  cancelled, \* m_is_cancelled
  executing, \* what m_executing may be read as: the constructor leaves it open
  locked,    \* the worker holds m_monitor
  caller,    \* what each application thread is doing
  got,       \* history: what each application thread was last given
  stopped    \* history: some cancel was through before the worker asked

task == <<callable, worker, computed, ready, result, locked>>
vars == <<task, cancelled, executing, caller, got, stopped>>

(* removed: there is no task, or no task any more.                         *)
Steps == {"pending", "asking", "calling", "returned", "storing", "ending",
          "done", "removed", "thrown"}

(* asleep: in m_condition_ready.  reading: about to read m_result.         *)
(* cancel, examine, mark: the three accesses of cancel.                    *)
Calls == {"none", "get", "timed", "asleep", "timed asleep", "reading",
          "cancel", "examine", "mark"}

TypeOK ==
  /\ callable \in BOOLEAN
  /\ worker \in Steps
  /\ computed \in Result \cup {None}
  /\ result \in Result \cup {None}
  /\ ready \in BOOLEAN /\ cancelled \in BOOLEAN
  /\ locked = (worker = "storing")
  /\ executing \in SUBSET BOOLEAN
  /\ caller \in [Caller -> Calls]
  /\ got \in [Caller -> Result \cup {None}]
  /\ stopped \in BOOLEAN

Init ==
  /\ callable \in BOOLEAN
  /\ worker = "pending" /\ computed = None
  /\ ready = FALSE /\ result = None
  /\ cancelled = FALSE /\ executing = BOOLEAN
  /\ locked = FALSE
  /\ caller = [c \in Caller |-> "none"]
  /\ got = [c \in Caller |-> None]
  /\ stopped = FALSE

-----------------------------------------------------------------------------
(* future_impl_task_func::operator(), called once by a worker of the pool  *)

(* An empty function is not called, and the future is not touched. *)
Start ==
  /\ worker = "pending"
  /\ \/ callable /\ worker' = "asking" /\ executing' = {TRUE}
     \/ ~callable /\ worker' = "done" /\ UNCHANGED executing
  /\ UNCHANGED <<callable, computed, ready, result, locked, cancelled, caller,
                 got, stopped>>

(* clear of the pool destroys the task; the future stays. *)
Remove ==
  /\ worker = "pending" /\ worker' = "removed"
  /\ UNCHANGED <<callable, computed, ready, result, locked, cancelled, executing,
                 caller, got, stopped>>

(* Mutant: the flag is not looked at. *)
AskNobody ==
  /\ worker = "asking" /\ worker' = "calling"
  /\ UNCHANGED <<callable, computed, ready, result, locked, cancelled, executing,
                 caller, got, stopped>>

Ask ==
  /\ worker = "asking"
  /\ worker' = IF cancelled THEN "ending" ELSE "calling"
  /\ UNCHANGED <<callable, computed, ready, result, locked, cancelled, executing,
                 caller, got, stopped>>

(* An exception leaves m_executing as it is and the future without result. *)
Call ==
  /\ worker = "calling"
  /\ \/ worker' = "thrown" /\ UNCHANGED computed
     \/ worker' = "returned" /\ \E r \in Result : computed' = r
  /\ UNCHANGED <<callable, ready, result, locked, cancelled, executing, caller,
                 got, stopped>>

(* Mutant: a future that was cancelled meanwhile is given its value. *)
EnterUnlessReady ==
  /\ worker = "returned" /\ ~locked
  /\ \/ /\ ~ready
        /\ worker' = "storing" /\ locked' = TRUE
     \/ /\ ready
        /\ worker' = "ending" /\ UNCHANGED locked
  /\ UNCHANGED <<callable, computed, ready, result, cancelled, executing, caller,
                 got, stopped>>

(* set_value: the lock and the test ... *)
EnterSetValue ==
  /\ worker = "returned" /\ ~locked
  /\ \/ /\ ~ready /\ ~cancelled
        /\ worker' = "storing" /\ locked' = TRUE
     \/ /\ ready \/ cancelled
        /\ worker' = "ending" /\ UNCHANGED locked
  /\ UNCHANGED <<callable, computed, ready, result, cancelled, executing, caller,
                 got, stopped>>

Awake(what) == CASE what = "asleep" -> "get"
                 [] what = "timed asleep" -> "timed"
                 [] OTHER -> what

(* Mutant: ready before there is a result, and the lock is let go of. *)
StoreLate ==
  /\ worker = "storing"
  /\ \/ ~ready /\ ready' = TRUE /\ locked' = FALSE
        /\ UNCHANGED <<worker, result>>
     \/ ready /\ worker' = "ending" /\ result' = computed
        /\ UNCHANGED <<ready, locked>>
  /\ caller' = [c \in Caller |-> Awake(caller[c])]
  /\ UNCHANGED <<callable, computed, cancelled, executing, got, stopped>>

(* Mutant: nobody is notified. *)
StoreSilently ==
  /\ worker = "storing" /\ worker' = "ending"
  /\ result' = computed /\ ready' = TRUE
  /\ locked' = FALSE
  /\ UNCHANGED <<callable, computed, cancelled, executing, caller, got, stopped>>

(* Mutant: the lock is not let go of. *)
StoreLocked ==
  /\ worker = "storing" /\ worker' = "ending"
  /\ result' = computed /\ ready' = TRUE
  /\ caller' = [c \in Caller |-> Awake(caller[c])]
  /\ UNCHANGED <<callable, computed, locked, cancelled, executing, got, stopped>>

(* ... the result, the flag and the notification.  cancel can come between.*)
Store ==
  /\ worker = "storing" /\ worker' = "ending"
  /\ result' = computed /\ ready' = TRUE
  /\ caller' = [c \in Caller |-> Awake(caller[c])]
  /\ locked' = FALSE
  /\ UNCHANGED <<callable, computed, cancelled, executing, got, stopped>>

End ==
  /\ worker = "ending" /\ worker' = "done"
  /\ executing' = {FALSE}
  /\ UNCHANGED <<callable, computed, ready, result, locked, cancelled, caller,
                 got, stopped>>

-----------------------------------------------------------------------------
(* Application threads *)

Goes(c, what) == caller' = [caller EXCEPT ![c] = what]

(* operator(), get and wait, timed_wait, cancel are called. *)
Begin(c) ==
  /\ caller[c] = "none"
  /\ \E what \in {"get", "timed", "cancel"} : Goes(c, what)
  /\ UNCHANGED <<task, cancelled, executing, got, stopped>>

(* One turn of the loop in wait or timed_wait *)
WaitTurn(c) ==
  /\ caller[c] \in {"get", "timed"} /\ ~locked
  /\ \/ ready /\ Goes(c, IF caller[c] = "get" THEN "reading" ELSE "none")
     \/ /\ ~ready
        /\ Goes(c, IF caller[c] = "get" THEN "asleep" ELSE "timed asleep")
  /\ UNCHANGED <<task, cancelled, executing, got, stopped>>

TimeOut(c) ==
  /\ caller[c] = "timed asleep" /\ Goes(c, "none")
  /\ UNCHANGED <<task, cancelled, executing, got, stopped>>

(* A wait returns without a notification. *)
Wake(c) ==
  /\ caller[c] \in {"asleep", "timed asleep"} /\ Goes(c, Awake(caller[c]))
  /\ UNCHANGED <<task, cancelled, executing, got, stopped>>

(* m_result is read after wait has let go of the lock. *)
Read(c) ==
  /\ caller[c] = "reading" /\ Goes(c, "none")
  /\ got' = [got EXCEPT ![c] = result]
  /\ UNCHANGED <<task, cancelled, executing, stopped>>

(* Mutant: the operands are swapped. *)
ExamineFirst(c) ==
  /\ caller[c] = "cancel" /\ Goes(c, "examine")
  /\ UNCHANGED <<task, cancelled, executing, got, stopped>>

(* cancel: m_ready; only if it is set, m_executing; then m_is_cancelled.   *)
CancelReady(c) ==
  /\ caller[c] = "cancel"
  /\ Goes(c, IF ready THEN "examine" ELSE "mark")
  /\ UNCHANGED <<task, cancelled, executing, got, stopped>>

CancelExecuting(c) ==
  /\ caller[c] = "examine"
  /\ \E e \in executing : Goes(c, IF e THEN "mark" ELSE "none")
  /\ UNCHANGED <<task, cancelled, executing, got, stopped>>

CancelMark(c) ==
  /\ caller[c] = "mark" /\ Goes(c, "none")
  /\ cancelled' = TRUE
  /\ stopped' = (stopped \/ worker \in {"pending", "asking"})
  /\ UNCHANGED <<task, executing, got>>

-----------------------------------------------------------------------------
WorkerStep == Start \/ Ask \/ Call \/ EnterSetValue \/ Store \/ End

CallerStep(c) ==
  \/ WaitTurn(c) \/ Read(c)
  \/ CancelReady(c) \/ CancelExecuting(c) \/ CancelMark(c)

Next ==
  \/ WorkerStep \/ Remove
  \/ \E c \in Caller : Begin(c) \/ CallerStep(c) \/ TimeOut(c) \/ Wake(c)

Spec == Init /\ [][Next]_vars

(* The pool gets to the task (TasksStart of module Pool), the function     *)
(* returns or throws, and the threads that are inside of a call run.       *)
FairSpec == /\ Spec /\ WF_vars(WorkerStep)
            /\ \A c \in Caller : WF_vars(CallerStep(c))

-----------------------------------------------------------------------------
(* Properties *)

(* Whoever gets a result gets the one that the function returned, although *)
(* it is read without the lock, and cancel may come at any time            *)
(* (detail/future.hpp 96-119).                                             *)
GetsResult == \A c \in Caller :
  /\ caller[c] = "reading" => ready /\ result = computed
  /\ got[c] # None => got[c] = computed

(* A task that was cancelled before the worker asked is not run, and the   *)
(* future never gets a result (detail/future.hpp 133-144, 191-203).        *)
CancelStops == stopped =>
  computed = None /\ ~ready /\ worker \notin {"calling", "returned", "storing"}

(* m_executing, which the constructor leaves uninitialised, is read only   *)
(* after a worker has set it (detail/future.hpp 59-63, 135).               *)
NeverUninitialised == \A c \in Caller :
  caller[c] = "examine" => executing # BOOLEAN

(* There is no result, and nothing that could still store one: the function *)
(* is empty, the task was removed, the function threw, or the future was   *)
(* cancelled before set_value had made its test.                           *)
Hopeless == ~ready /\
  \/ ~callable
  \/ worker \in {"removed", "thrown"}
  \/ cancelled /\ worker # "storing"

(* A future that was cancelled, at any time but while its value is being   *)
(* stored, never gets one afterwards, although the flag is set without the *)
(* lock and the function may be running (detail/future.hpp 110-119,        *)
(* 133-144).                                                               *)
HopelessStays == [][Hopeless => Hopeless']_vars

(* A thread that waits for the result gets it, however its test and its    *)
(* sleep fall between the steps of set_value (detail/future.hpp 70-79,     *)
(* 110-119), unless there is none and never will be.                       *)
GetReturns == \A c \in Caller :
  caller[c] \in {"get", "asleep", "reading"}
    ~> caller[c] \notin {"get", "asleep", "reading"} \/ Hopeless
===============================================================================
