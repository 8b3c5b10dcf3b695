----------------------------- MODULE FutureProofs -----------------------------
(***************************************************************************)
(* Theorems about a task with a result, for any number of threads that     *)
(* wait for it or cancel it, and any set of results.                       *)
(***************************************************************************)
EXTENDS Future, TLAPS

(* What the function returned is there from its return on. *)
ComputedOK ==
  /\ computed # None => worker \in {"returned", "storing", "ending", "done"}
  /\ worker \in {"returned", "storing"} => computed # None

(* m_ready says that the result is there, and the worker through with it. *)
ReadyOK == ready =>
  result = computed /\ computed # None /\ worker \in {"ending", "done"}

(* Nobody has read a result before it was ready. *)
GotOK == \A c \in Caller :
  /\ caller[c] = "reading" => ready
  /\ got[c] # None => ready /\ got[c] = computed

(* An empty function is never called. *)
EmptyOK == ~callable => computed = None /\ worker \in {"pending", "removed", "done"}

(* Whoever cancelled in time has left his mark. *)
StoppedOK == stopped =>
  cancelled /\ computed = None
  /\ worker \in {"pending", "asking", "ending", "done", "removed"}

(* m_executing has been set once the worker has begun. *)
ExecutingOK ==
  /\ executing = BOOLEAN => ~callable \/ worker \in {"pending", "removed"}
  /\ \A c \in Caller : caller[c] = "examine" => ready

(* The inductive invariant *)
FInv ==
  /\ TypeOK /\ ComputedOK /\ ReadyOK /\ GotOK
  /\ EmptyOK /\ StoppedOK /\ ExecutingOK

LEMMA OneIsNotBoth == {TRUE} # BOOLEAN /\ {FALSE} # BOOLEAN
  OBVIOUS

LEMMA InitFInv == Init => FInv
  BY FutureAssumption
  DEF FutureAssumption, Init, FInv, TypeOK, ComputedOK, ReadyOK, GotOK,
      EmptyOK, StoppedOK, ExecutingOK, Steps, Calls

LEMMA NextFInv == FInv /\ [Next]_vars => FInv'
<1> SUFFICES ASSUME FInv, [Next]_vars PROVE FInv'
    OBVIOUS
<1> USE FutureAssumption DEF FutureAssumption, FInv, TypeOK, ComputedOK,
        ReadyOK, GotOK, EmptyOK, StoppedOK, ExecutingOK, Steps, Calls
<1>1. CASE Start
      BY <1>1, OneIsNotBoth DEF Start
<1>2. CASE Ask
      BY <1>2 DEF Ask
<1>3. CASE Call
      BY <1>3 DEF Call
<1>4. CASE EnterSetValue
      BY <1>4 DEF EnterSetValue
<1>5. CASE Store
      BY <1>5 DEF Store, Awake
<1>6. CASE End
      BY <1>6, OneIsNotBoth DEF End
<1>7. CASE Remove
      BY <1>7 DEF Remove
<1>8. ASSUME NEW c \in Caller,
             Begin(c) \/ WaitTurn(c) \/ TimeOut(c) \/ Wake(c)
      PROVE  FInv'
      BY ZenonT(60), <1>8 DEF Begin, WaitTurn, TimeOut, Wake, Goes, Awake, task
<1>9. ASSUME NEW c \in Caller, Read(c) PROVE FInv'
      BY <1>9 DEF Read, Goes, task
<1>10. ASSUME NEW c \in Caller,
              CancelReady(c) \/ CancelExecuting(c) \/ CancelMark(c)
       PROVE  FInv'
       BY <1>10 DEF CancelReady, CancelExecuting, CancelMark, Goes, task
<1>11. CASE UNCHANGED vars
       BY <1>11 DEF vars, task
<1> QED
    BY <1>1, <1>2, <1>3, <1>4, <1>5, <1>6, <1>7, <1>8, <1>9, <1>10, <1>11
    DEF Next, WorkerStep, CallerStep

(* The invariant holds in every state the threads can reach. *)
THEOREM FutureInvariance == Spec => []FInv
  BY InitFInv, NextFInv, PTL DEF Spec

(* Every state the threads can reach is well typed; in particular the lock *)
(* is held by the worker exactly while it stores the result                *)
(* (detail/future.hpp 110-119).                                            *)
THEOREM FutureTypeCorrect == Spec => []TypeOK
<1>1. FInv => TypeOK
      BY DEF FInv
<1> QED
    BY FutureInvariance, <1>1, PTL

(* Whoever gets a result gets the one that the function returned, although *)
(* it is read without the lock (detail/future.hpp 96-119).                 *)
THEOREM ResultIsReturned == Spec => []GetsResult
<1>1. FInv => GetsResult
      BY DEF FInv, GetsResult, GotOK, ReadyOK
<1> QED
    BY FutureInvariance, <1>1, PTL

(* A task cancelled in time is not run (detail/future.hpp 133-144).        *)
THEOREM CancelInTime == Spec => []CancelStops
<1>1. FInv => CancelStops
      BY DEF FInv, CancelStops, StoppedOK, ReadyOK
<1> QED
    BY FutureInvariance, <1>1, PTL

(* m_executing is never read before it is set (detail/future.hpp 59-63,    *)
(* 135).                                                                   *)
THEOREM ExecutingIsSet == Spec => []NeverUninitialised
<1>1. FInv => NeverUninitialised
      BY DEF FInv, NeverUninitialised, ExecutingOK, ReadyOK, EmptyOK
<1> QED
    BY FutureInvariance, <1>1, PTL

LEMMA HopelessStep == FInv /\ [Next]_vars /\ Hopeless => Hopeless'
<1> SUFFICES ASSUME FInv, [Next]_vars, Hopeless PROVE Hopeless'
    OBVIOUS
<1> USE DEF FInv, Hopeless, EmptyOK
<1>1. CASE Start
      BY <1>1 DEF Start
<1>2. CASE Ask
      BY <1>2 DEF Ask
<1>3. CASE Call
      BY <1>3 DEF Call
<1>4. CASE EnterSetValue
      BY <1>4 DEF EnterSetValue
<1>5. CASE Store
      BY <1>5 DEF Store
<1>6. CASE End
      BY <1>6 DEF End
<1>7. CASE Remove
      BY <1>7 DEF Remove
<1>8. ASSUME NEW c \in Caller,
             \/ Begin(c) \/ WaitTurn(c) \/ TimeOut(c) \/ Wake(c) \/ Read(c)
             \/ CancelReady(c) \/ CancelExecuting(c)
      PROVE  Hopeless'
  <2>1. UNCHANGED <<task, cancelled>>
        BY Zenon, <1>8 DEF Begin, WaitTurn, TimeOut, Wake, Read, CancelReady,
                           CancelExecuting
  <2> QED
      BY <2>1 DEF task
<1>9. ASSUME NEW c \in Caller, CancelMark(c) PROVE Hopeless'
      BY <1>9 DEF CancelMark, task
<1>10. CASE UNCHANGED vars
       BY <1>10 DEF vars, task
<1> QED
    BY <1>1, <1>2, <1>3, <1>4, <1>5, <1>6, <1>7, <1>8, <1>9, <1>10
    DEF Next, WorkerStep, CallerStep

(* Once a future is cancelled, unless its value is just being stored, or   *)
(* its function is empty, has thrown or was removed, no later step stores  *)
(* a result (detail/future.hpp 110-119, 133-144, 191-203).                 *)
THEOREM NoResultAfterCancel == Spec => HopelessStays
<1>1. FInv /\ [Next]_vars => [Hopeless => Hopeless']_vars
      BY HopelessStep
<1> QED
    BY FutureInvariance, <1>1, PTL DEF Spec, HopelessStays
===============================================================================
