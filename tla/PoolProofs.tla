------------------------------ MODULE PoolProofs ------------------------------
(***************************************************************************)
(* Theorems about the thread pool, for any number of worker threads,       *)
(* application threads and tasks, any sizes and thresholds, and each of    *)
(* the scheduling and shutdown policies.                                   *)
(***************************************************************************)
EXTENDS Pool, FiniteSetTheorems, SequenceTheorems, TLAPS

(* The threads that exist, and those that count as active *)
Alive(f) == {w \in Worker : f[w] # "none"}

Busy(f) == {w \in Worker : f[w] \in {"ready", "running", "leaving"}}

CountedBy(f, n, a) ==
  /\ f \in [Worker -> Places]
  /\ n = Cardinality(Alive(f))
  /\ a = Cardinality(Busy(f))

(* What is typed besides the workers and their counters *)
OthersOK ==
  /\ policy \in Schedulers
  /\ task \in [Worker -> Task \cup {None}]
  /\ target \in Nat
  /\ scheduler \in Seq(Task)
  /\ terminating \in BOOLEAN /\ closed \in BOOLEAN
  /\ caller \in [Caller -> [does : Calls, threshold : Thresholds \cup {0},
                            asleep : BOOLEAN]]
  /\ scheduled \in Seq(Task)
  /\ finished \subseteq Task /\ cleared \subseteq Task

CountedOK == CountedBy(worker, count, active)

(* A worker has a task just while it runs it. *)
TaskOK == \A w \in Worker : worker[w] = "running" <=> task[w] # None

-----------------------------------------------------------------------------
(* Counting threads *)

LEMMA WorkersFinite ==
  ASSUME NEW f
  PROVE  /\ IsFiniteSet(Alive(f)) /\ IsFiniteSet(Busy(f))
         /\ Cardinality(Alive(f)) \in 0 .. Cardinality(Worker)
         /\ Cardinality(Busy(f)) \in 0 .. Cardinality(Worker)
<1>1. IsFiniteSet(Worker)
      BY PoolAssumption DEF PoolAssumption
<1>2. Alive(f) \in SUBSET Worker /\ Busy(f) \in SUBSET Worker
      BY DEF Alive, Busy
<1>3. /\ IsFiniteSet(Alive(f)) /\ Cardinality(Alive(f)) <= Cardinality(Worker)
      /\ IsFiniteSet(Busy(f)) /\ Cardinality(Busy(f)) <= Cardinality(Worker)
      BY <1>1, <1>2, FS_Subset
<1> QED
    BY <1>1, <1>3, FS_CardinalityType

LEMMA CountersTyped ==
  ASSUME NEW f, NEW n, NEW a, CountedBy(f, n, a)
  PROVE  /\ n \in 0 .. Cardinality(Worker) /\ a \in 0 .. Cardinality(Worker)
         /\ n \in Nat /\ a \in Nat
  BY WorkersFinite DEF CountedBy

(* The invariant in the words of the model *)
LEMMA CountedIsTyped == (CountedOK /\ OthersOK) <=> (TypeOK /\ Counted)
<1>1. /\ Alive(worker) = Worker \ Threads({"none"})
      /\ Busy(worker) = Threads({"ready", "running", "leaving"})
      BY DEF Alive, Busy, Threads
<1>2. CountedOK => /\ count \in 0 .. Cardinality(Worker)
                   /\ active \in 0 .. Cardinality(Worker)
      BY CountersTyped DEF CountedOK
<1> QED
    BY <1>1, <1>2 DEF CountedOK, CountedBy, OthersOK, TypeOK, Counted

(* Nobody is created, ends, falls asleep or wakes up. *)
LEMMA SameCount ==
  ASSUME NEW f, NEW n, NEW a, CountedBy(f, n, a),
         NEW g \in [Worker -> Places],
         \A w \in Worker : /\ g[w] = "none" <=> f[w] = "none"
                           /\ g[w] \in {"waiting", "notified"} <=>
                                f[w] \in {"waiting", "notified"}
  PROVE  CountedBy(g, n, a)
<1>1. Alive(g) = Alive(f)
      BY DEF Alive
<1>2. Busy(g) = Busy(f)
      BY DEF Busy, CountedBy, Places
<1> QED
    BY <1>1, <1>2 DEF CountedBy

(* Worker w wakes up. *)
LEMMA OneMoreBusy ==
  ASSUME NEW f, NEW n, NEW a, CountedBy(f, n, a),
         NEW w \in Worker, f[w] \in {"waiting", "notified"},
         NEW p \in {"ready", "running", "leaving"}
  PROVE  CountedBy([f EXCEPT ![w] = p], n, a + 1)
<1> DEFINE g == [f EXCEPT ![w] = p]
<1>1. g \in [Worker -> Places]
      BY DEF CountedBy, Places
<1>2. Alive(g) = Alive(f)
      BY DEF Alive, CountedBy
<1>3. Busy(g) = Busy(f) \cup {w} /\ w \notin Busy(f)
      BY DEF Busy, CountedBy
<1>4. Cardinality(Busy(g)) = Cardinality(Busy(f)) + 1
      BY <1>3, FS_AddElement, WorkersFinite
<1> QED
    BY <1>1, <1>2, <1>4 DEF CountedBy

(* Worker w goes to sleep. *)
LEMMA OneLessBusy ==
  ASSUME NEW f, NEW n, NEW a, CountedBy(f, n, a),
         NEW w \in Worker, f[w] \in {"ready", "running", "leaving"},
         NEW p \in {"waiting", "notified"}
  PROVE  CountedBy([f EXCEPT ![w] = p], n, a - 1)
<1> DEFINE g == [f EXCEPT ![w] = p]
<1>1. g \in [Worker -> Places]
      BY DEF CountedBy, Places
<1>2. Alive(g) = Alive(f)
      BY DEF Alive, CountedBy
<1>3. Busy(g) = Busy(f) \ {w} /\ w \in Busy(f)
      BY DEF Busy, CountedBy
<1>4. Cardinality(Busy(g)) = Cardinality(Busy(f)) - 1
      BY <1>3, FS_RemoveElement, WorkersFinite
<1> QED
    BY <1>1, <1>2, <1>4 DEF CountedBy

(* Worker w ends. *)
LEMMA OneLess ==
  ASSUME NEW f, NEW n, NEW a, CountedBy(f, n, a),
         NEW w \in Worker, f[w] \in {"ready", "running", "leaving"}
  PROVE  CountedBy([f EXCEPT ![w] = "none"], n - 1, a - 1)
<1> DEFINE g == [f EXCEPT ![w] = "none"]
<1>1. g \in [Worker -> Places]
      BY DEF CountedBy, Places
<1>2. Alive(g) = Alive(f) \ {w} /\ w \in Alive(f)
      BY DEF Alive, CountedBy
<1>3. Busy(g) = Busy(f) \ {w} /\ w \in Busy(f)
      BY DEF Busy, CountedBy
<1>4. /\ Cardinality(Alive(g)) = Cardinality(Alive(f)) - 1
      /\ Cardinality(Busy(g)) = Cardinality(Busy(f)) - 1
      BY <1>2, <1>3, FS_RemoveElement, WorkersFinite
<1> QED
    BY <1>1, <1>4 DEF CountedBy

(* The threads in new begin. *)
LEMMA ManyMore ==
  ASSUME NEW f, NEW n, NEW a, CountedBy(f, n, a),
         NEW new \in SUBSET Worker, \A w \in new : f[w] = "none"
  PROVE  CountedBy([w \in Worker |-> IF w \in new THEN "ready" ELSE f[w]],
                   n + Cardinality(new), a + Cardinality(new))
<1> DEFINE g == [w \in Worker |-> IF w \in new THEN "ready" ELSE f[w]]
<1>1. g \in [Worker -> Places]
      BY DEF CountedBy, Places
<1>2. Alive(g) = Alive(f) \cup new /\ Alive(f) \cap new = {}
      BY DEF Alive, CountedBy
<1>3. Busy(g) = Busy(f) \cup new /\ Busy(f) \cap new = {}
      BY DEF Busy, CountedBy
<1>4. IsFiniteSet(new)
      BY FS_Subset, PoolAssumption DEF PoolAssumption
<1>5. \A S : IsFiniteSet(S) /\ S \cap new = {}
               => Cardinality(S \cup new) = Cardinality(S) + Cardinality(new)
  <2> SUFFICES ASSUME NEW S, IsFiniteSet(S), S \cap new = {}
               PROVE  Cardinality(S \cup new)
                        = Cardinality(S) + Cardinality(new)
      OBVIOUS
  <2>1. /\ Cardinality(S) \in Nat /\ Cardinality(new) \in Nat
        /\ Cardinality(S \cap new) = 0
      BY <1>4, FS_CardinalityType, FS_EmptySet
  <2>2. Cardinality(S \cup new)
          = Cardinality(S) + Cardinality(new) - Cardinality(S \cap new)
      BY <1>4, FS_Union
  <2> QED
      BY <2>1, <2>2
<1> QED
    BY <1>1, <1>2, <1>3, <1>5, WorkersFinite DEF CountedBy

LEMMA GrowCounts ==
  ASSUME NEW f, NEW n, NEW a, CountedBy(f, n, a), NEW size,
         NEW free \in SUBSET Worker, \A w \in free : f[w] = "none",
         Grow(f, free, n, a, size)
  PROVE  CountedBy(worker', count', active')
<1>1. PICK new \in SUBSET free :
        /\ worker' = [w \in Worker |-> IF w \in new THEN "ready" ELSE f[w]]
        /\ count' = n + Cardinality(new)
        /\ active' = a + Cardinality(new)
      BY DEF Grow
<1> QED
    BY <1>1, ManyMore

LEMMA NotifyAllCounts ==
  ASSUME NEW f, NEW n, NEW a, CountedBy(f, n, a)
  PROVE  CountedBy(NotifyAll(f), n, a)
<1>1. /\ NotifyAll(f) \in [Worker -> Places]
      /\ \A w \in Worker :
           NotifyAll(f)[w] = IF f[w] = "waiting" THEN "notified" ELSE f[w]
      BY DEF NotifyAll, CountedBy, Places
<1> QED
    BY <1>1, SameCount

-----------------------------------------------------------------------------
(* The scheduler *)

LEMMA TopOK ==
  ASSUME NEW S, NEW q \in Seq(S), q # <<>>, policy \in {"fifo", "lifo", "prio"},
         NEW i \in Top(q)
  PROVE  i \in 1 .. Len(q)
<1>1. Len(q) \in Nat \ {0} /\ DOMAIN q = 1 .. Len(q)
      BY EmptySeq, LenProperties
<1>2. CASE policy = "fifo"
      BY <1>1, <1>2 DEF Top, FifoTop
<1>3. CASE policy = "lifo"
      BY <1>1, <1>3 DEF Top, LifoTop
<1>4. CASE policy = "prio"
      BY <1>1, <1>4 DEF Top, PrioTop
<1> QED
    BY <1>2, <1>3, <1>4

(* Without(q, i) has what q has, but for position i. *)
LEMMA WithoutOK ==
  ASSUME NEW S, NEW q \in Seq(S), NEW i \in 1 .. Len(q)
  PROVE  /\ Without(q, i) \in Seq(S)
         /\ Len(Without(q, i)) = Len(q) - 1
         /\ \A j \in 1 .. Len(q) - 1 :
              Without(q, i)[j] = IF j < i THEN q[j] ELSE q[j + 1]
<1> DEFINE l == SubSeq(q, 1, i - 1)
           r == SubSeq(q, i + 1, Len(q))
<1>1. Len(q) \in Nat /\ \A j \in 1 .. Len(q) : q[j] \in S
      BY LenProperties, ElementOfSeq
<1>2. /\ l \in Seq(S) /\ Len(l) = i - 1
      /\ \A j \in 1 .. i - 1 : l[j] = q[j]
  <2>1. \A j \in 1 .. i - 1 : q[j] \in S
        BY <1>1
  <2>2. 1 \in Int /\ i - 1 \in Int
        BY <1>1
  <2> HIDE DEF l
  <2>3. /\ SubSeq(q, 1, i - 1) \in Seq(S)
        /\ Len(SubSeq(q, 1, i - 1)) = IF 1 <= i - 1 THEN i - 1 - 1 + 1 ELSE 0
        /\ \A j \in 1 .. i - 1 - 1 + 1 :
             SubSeq(q, 1, i - 1)[j] = q[1 + j - 1]
        BY <2>1, <2>2, SubSeqProperties
  <2> QED
      BY <2>3, <1>1 DEF l
<1>3. /\ r \in Seq(S) /\ Len(r) = Len(q) - i
      /\ \A j \in 1 .. Len(q) - i : r[j] = q[i + j]
  <2>1. \A j \in i + 1 .. Len(q) : q[j] \in S
        BY <1>1
  <2>2. i + 1 \in Int /\ Len(q) \in Int
        BY <1>1
  <2>3. /\ SubSeq(q, i + 1, Len(q)) \in Seq(S)
        /\ Len(SubSeq(q, i + 1, Len(q)))
             = IF i + 1 <= Len(q) THEN Len(q) - (i + 1) + 1 ELSE 0
        /\ \A j \in 1 .. Len(q) - (i + 1) + 1 :
             SubSeq(q, i + 1, Len(q))[j] = q[i + 1 + j - 1]
        BY <2>1, <2>2, SubSeqProperties
  <2> QED
      BY <2>3, <1>1 DEF r
<1>4. Without(q, i) = l \o r
      BY DEF Without
<1> HIDE DEF l, r
<1>5. /\ l \o r \in Seq(S) /\ Len(l \o r) = Len(l) + Len(r)
      /\ \A j \in 1 .. Len(l) + Len(r) :
           (l \o r)[j] = IF j <= Len(l) THEN l[j] ELSE r[j - Len(l)]
      BY <1>2, <1>3, ConcatProperties
<1> QED
    BY <1>1, <1>2, <1>3, <1>4, <1>5

LEMMA LensAreNat ==
  ASSUME NEW S, NEW q \in Seq(S)
  PROVE  Len(q) \in Nat /\ DOMAIN q = 1 .. Len(q)
  BY LenProperties

-----------------------------------------------------------------------------
(* Types and counters *)

LEMMA CallerTyped ==
  ASSUME OthersOK, NEW c \in Caller, NEW what \in Calls,
         NEW k \in Thresholds \cup {0}, Calling(c, what, k)
  PROVE  caller' \in [Caller -> [does : Calls, threshold : Thresholds \cup {0},
                                 asleep : BOOLEAN]]
  BY DEF OthersOK, Calling

LEMMA NotifyCallersTyped ==
  ASSUME OthersOK, NotifyCallers
  PROVE  caller' \in [Caller -> [does : Calls, threshold : Thresholds \cup {0},
                                 asleep : BOOLEAN]]
  BY DEF OthersOK, NotifyCallers

LEMMA FallAsleepTyped ==
  ASSUME OthersOK, NEW c \in Caller, FallAsleep(c)
  PROVE  caller' \in [Caller -> [does : Calls, threshold : Thresholds \cup {0},
                                 asleep : BOOLEAN]]
  BY DEF OthersOK, FallAsleep

LEMMA PolicyKnown == OthersOK => policy \in {"fifo", "lifo", "prio"}
  BY PoolAssumption DEF PoolAssumption, OthersOK

(* Worker w ends and may be replaced. *)
LEMMA GoneOK ==
  ASSUME CountedOK, OthersOK, NEW w \in Worker,
         worker[w] \in {"ready", "running", "leaving"}, Gone(w, active - 1)
  PROVE  CountedOK' /\ target' \in Nat
<1> DEFINE where == [worker EXCEPT ![w] = "none"]
<1>1. CountedBy(where, count - 1, active - 1)
      BY OneLess DEF CountedOK
<1>2. count - 1 + 1 \in Nat
      BY CountersTyped, WorkersFinite DEF CountedOK
<1>3. CASE terminating
      BY <1>1, <1>3 DEF Gone, CountedOK, OthersOK
<1>4. CASE ~terminating
  <2>1. \A v \in Threads({"none"}) : v \in Worker /\ where[v] = "none"
        BY DEF Threads, CountedOK, CountedBy
  <2>2. /\ target' = count - 1 + 1
        /\ Grow(where, Threads({"none"}), count - 1, active - 1, count - 1 + 1)
        BY <1>4 DEF Gone
  <2> HIDE DEF where
  <2>3. Threads({"none"}) \in SUBSET Worker
        BY DEF Threads
  <2>4. CountedBy(worker', count', active')
        BY <1>1, <2>1, <2>2, <2>3, GrowCounts
  <2> QED
      BY <1>2, <2>2, <2>4 DEF CountedOK
<1> QED
    BY <1>3, <1>4

LEMMA InitCounted == Init => CountedOK /\ OthersOK
<1> SUFFICES ASSUME Init PROVE CountedOK /\ OthersOK
    OBVIOUS
<1>1. PICK first \in SUBSET Worker :
        /\ Cardinality(first) = Initial
        /\ worker = [w \in Worker |-> IF w \in first THEN "ready" ELSE "none"]
      BY DEF Init
<1>2. Alive(worker) = first /\ Busy(worker) = first
      BY <1>1 DEF Alive, Busy
<1>3. CountedOK
      BY <1>1, <1>2 DEF Init, CountedOK, CountedBy, Places
<1>4. Initial \in Nat /\ IsFiniteSet(Worker)
      BY PoolAssumption, FS_CardinalityType DEF PoolAssumption
<1>5. NoCall \in [does : Calls, threshold : Thresholds \cup {0},
                  asleep : BOOLEAN]
      BY DEF NoCall, Calls
<1>6. <<>> \in Seq(Task)
      BY EmptySeq
<1>7. /\ policy \in Schedulers /\ task = [w \in Worker |-> None]
      /\ target = Initial /\ scheduler = <<>> /\ terminating = FALSE
      /\ closed = FALSE /\ caller = [c \in Caller |-> NoCall]
      /\ scheduled = <<>> /\ finished = {} /\ cleared = {}
      BY DEF Init
<1>8. caller \in [Caller -> [does : Calls, threshold : Thresholds \cup {0},
                             asleep : BOOLEAN]]
      BY <1>5, <1>7
<1> QED
    BY <1>3, <1>4, <1>6, <1>7, <1>8 DEF OthersOK

LEMMA NextCounted ==
  ASSUME CountedOK, OthersOK, TaskOK, [Next]_vars
  PROVE  CountedOK' /\ OthersOK'
<1>1. ASSUME NEW w \in Worker, LetGo(w) PROVE CountedOK' /\ OthersOK'
  <2>1. OthersOK'
        BY <1>1 DEF LetGo, OthersOK, history
  <2>2. CASE worker[w] = "ready"
    <3>1. /\ worker' = [worker EXCEPT ![w] = "leaving"]
          /\ active' = active /\ count' = count
          BY <1>1, <2>2 DEF LetGo, ActiveWith
    <3>2. worker' \in [Worker -> Places]
          BY <3>1 DEF CountedOK, CountedBy, Places
    <3>3. \A v \in Worker :
            /\ worker'[v] = "none" <=> worker[v] = "none"
            /\ worker'[v] \in {"waiting", "notified"} <=>
                 worker[v] \in {"waiting", "notified"}
          BY <2>2, <3>1 DEF CountedOK, CountedBy
    <3> QED
        BY <2>1, <3>1, <3>2, <3>3, SameCount DEF CountedOK
  <2>3. CASE worker[w] = "notified"
    <3>1. /\ worker' = [worker EXCEPT ![w] = "leaving"]
          /\ active' = active + 1 /\ count' = count
          BY <1>1, <2>3 DEF LetGo, ActiveWith
    <3> QED
        BY <2>1, <2>3, <3>1, OneMoreBusy DEF CountedOK
  <2> QED
      BY <1>1, <2>2, <2>3 DEF LetGo, AtLock
<1>2. ASSUME NEW w \in Worker, Sleep(w) PROVE CountedOK' /\ OthersOK'
  <2>1. OthersOK'
        BY <1>2, NotifyCallersTyped DEF Sleep, OthersOK, history
  <2>2. CASE worker[w] = "ready"
    <3>1. /\ worker' = [worker EXCEPT ![w] = "waiting"]
          /\ active' = active - 1 /\ count' = count
          BY <1>2, <2>2 DEF Sleep, ActiveWith
    <3> QED
        BY <2>1, <2>2, <3>1, OneLessBusy DEF CountedOK
  <2>3. CASE worker[w] = "notified"
    <3>0. active \in Nat
          BY CountersTyped DEF CountedOK
    <3>1. ActiveWith(w) = active + 1
          BY <2>3 DEF ActiveWith
    <3>2. /\ worker' = [worker EXCEPT ![w] = "waiting"]
          /\ active' = active /\ count' = count
      <4>1. /\ worker' = [worker EXCEPT ![w] = "waiting"]
            /\ active' = ActiveWith(w) - 1 /\ count' = count
            BY <1>2 DEF Sleep
      <4> QED
          BY <3>0, <3>1, <4>1
    <3>3. worker' \in [Worker -> Places]
          BY <3>2 DEF CountedOK, CountedBy, Places
    <3>4. \A v \in Worker :
            /\ worker'[v] = "none" <=> worker[v] = "none"
            /\ worker'[v] \in {"waiting", "notified"} <=>
                 worker[v] \in {"waiting", "notified"}
          BY <2>3, <3>2 DEF CountedOK, CountedBy
    <3> QED
        BY <2>1, <3>2, <3>3, <3>4, SameCount DEF CountedOK
  <2> QED
      BY <1>2, <2>2, <2>3 DEF Sleep, AtLock
<1>3. ASSUME NEW w \in Worker, Take(w) PROVE CountedOK' /\ OthersOK'
  <2>1. PICK i \in Top(scheduler) :
          /\ task' = [task EXCEPT ![w] = scheduler[i]]
          /\ scheduler' = Without(scheduler, i)
        BY <1>3 DEF Take
  <2>2. scheduler \in Seq(Task) /\ scheduler # <<>>
        BY <1>3 DEF Take, OthersOK
  <2>3. i \in 1 .. Len(scheduler)
        BY <2>2, TopOK, PolicyKnown
  <2>4. scheduler' \in Seq(Task) /\ scheduler[i] \in Task
        BY <2>1, <2>2, <2>3, WithoutOK, ElementOfSeq
  <2>5. OthersOK'
        BY <1>3, <2>1, <2>4 DEF Take, OthersOK, history
  <2>6. CASE worker[w] = "ready"
    <3>1. /\ worker' = [worker EXCEPT ![w] = "running"]
          /\ active' = active /\ count' = count
          BY <1>3, <2>6 DEF Take, ActiveWith
    <3>2. worker' \in [Worker -> Places]
          BY <3>1 DEF CountedOK, CountedBy, Places
    <3>3. \A v \in Worker :
            /\ worker'[v] = "none" <=> worker[v] = "none"
            /\ worker'[v] \in {"waiting", "notified"} <=>
                 worker[v] \in {"waiting", "notified"}
          BY <2>6, <3>1 DEF CountedOK, CountedBy
    <3> QED
        BY <2>5, <3>1, <3>2, <3>3, SameCount DEF CountedOK
  <2>7. CASE worker[w] = "notified"
    <3>1. /\ worker' = [worker EXCEPT ![w] = "running"]
          /\ active' = active + 1 /\ count' = count
          BY <1>3, <2>7 DEF Take, ActiveWith
    <3> QED
        BY <2>5, <2>7, <3>1, OneMoreBusy DEF CountedOK
  <2> QED
      BY <1>3, <2>6, <2>7 DEF Take, AtLock
<1>4. ASSUME NEW w \in Worker, Finish(w) PROVE CountedOK' /\ OthersOK'
  <2>1. OthersOK'
    <3>1. task[w] \in Task
          BY <1>4 DEF Finish, OthersOK, TaskOK
    <3> QED
        BY <1>4, <3>1 DEF Finish, OthersOK
  <2>2. /\ worker' = [worker EXCEPT ![w] = "ready"]
        /\ active' = active /\ count' = count
        BY <1>4 DEF Finish
  <2>3. worker' \in [Worker -> Places]
        BY <2>2 DEF CountedOK, CountedBy, Places
  <2>4. \A v \in Worker :
          /\ worker'[v] = "none" <=> worker[v] = "none"
          /\ worker'[v] \in {"waiting", "notified"} <=>
               worker[v] \in {"waiting", "notified"}
        BY <1>4, <2>2 DEF Finish, CountedOK, CountedBy
  <2> QED
      BY <2>1, <2>2, <2>3, <2>4, SameCount DEF CountedOK
<1>5. ASSUME NEW w \in Worker, Die(w) PROVE CountedOK' /\ OthersOK'
  <2>1. worker[w] = "running" /\ task[w] \in Task /\ Gone(w, active - 1)
        BY <1>5, PoolAssumption DEF Die, PoolAssumption
  <2>2. CountedOK' /\ target' \in Nat
        BY <2>1, GoneOK
  <2>3. NotifyCallers
        BY <2>1 DEF Gone
  <2> QED
      BY <1>5, <2>1, <2>2, <2>3, NotifyCallersTyped DEF Die, OthersOK
<1>6. ASSUME NEW w \in Worker, Leave(w) PROVE CountedOK' /\ OthersOK'
  <2>1. OthersOK'
        BY <1>6, NotifyCallersTyped DEF Leave, OthersOK, history
  <2> QED
      BY <1>6, <2>1, OneLess DEF Leave, CountedOK
<1>7. ASSUME NEW w \in Worker, WakeWorker(w) PROVE CountedOK' /\ OthersOK'
  <2>1. OthersOK'
        BY <1>7 DEF WakeWorker, OthersOK, history
  <2>2. /\ worker[w] = "waiting"
        /\ worker' = [worker EXCEPT ![w] = "notified"]
        /\ active' = active /\ count' = count
        BY <1>7 DEF WakeWorker
  <2>3. worker' \in [Worker -> Places]
        BY <2>2 DEF CountedOK, CountedBy, Places
  <2>4. \A v \in Worker :
          /\ worker'[v] = "none" <=> worker[v] = "none"
          /\ worker'[v] \in {"waiting", "notified"} <=>
               worker[v] \in {"waiting", "notified"}
        BY <2>2 DEF CountedOK, CountedBy
  <2> QED
      BY <2>1, <2>2, <2>3, <2>4, SameCount DEF CountedOK
<1>8. ASSUME NEW t \in Task, Schedule(t) PROVE CountedOK' /\ OthersOK'
  <2>1. Append(scheduler, t) \in Seq(Task) /\ Append(scheduled, t) \in Seq(Task)
        BY DEF OthersOK
  <2>2. OthersOK'
        BY <1>8, <2>1 DEF Schedule, OthersOK
  <2>3. /\ active' = active /\ count' = count
        /\ \/ UNCHANGED worker
           \/ \E w \in Threads({"waiting"}) :
                worker' = [worker EXCEPT ![w] = "notified"]
        BY <1>8 DEF Schedule
  <2>4. worker' \in [Worker -> Places]
        BY <2>3 DEF CountedOK, CountedBy, Places, Threads
  <2>5. \A v \in Worker :
          /\ worker'[v] = "none" <=> worker[v] = "none"
          /\ worker'[v] \in {"waiting", "notified"} <=>
               worker[v] \in {"waiting", "notified"}
        BY <2>3 DEF CountedOK, CountedBy, Threads
  <2> QED
      BY <2>2, <2>3, <2>4, <2>5, SameCount DEF CountedOK
<1>9. ASSUME NEW size \in Sizes, Resize(size) PROVE CountedOK' /\ OthersOK'
  <2>1. size \in Nat
        BY PoolAssumption DEF PoolAssumption
  <2>2. OthersOK'
        BY <1>9, <2>1 DEF Resize, OthersOK, history
  <2>3. CASE Grow(worker, Threads({"none"}), count, active, size)
    <3>1. /\ Threads({"none"}) \in SUBSET Worker
          /\ \A v \in Threads({"none"}) : worker[v] = "none"
          BY DEF Threads
    <3> QED
        BY <2>2, <2>3, <3>1, GrowCounts DEF CountedOK
  <2>4. CASE /\ worker' = NotifyAll(worker)
             /\ UNCHANGED <<count, active>>
        BY <2>2, <2>4, NotifyAllCounts DEF CountedOK
  <2> QED
      BY <1>9, <2>3, <2>4 DEF Resize
<1>10. ASSUME NEW c \in Caller,
              WaitTurn(c) \/ JoinTurn(c) \/ TimeOut(c) \/ WakeCaller(c)
       PROVE  CountedOK' /\ OthersOK'
  <2>1. 0 \in Thresholds \cup {0}
        /\ {"none", "terminate", "join"} \subseteq Calls
        BY DEF Calls
  <2>2. /\ CountedOK'
        /\ UNCHANGED <<policy, task, target, scheduler, terminating, closed,
                       scheduled, finished, cleared>>
        BY <1>10
        DEF WaitTurn, JoinTurn, TimeOut, WakeCaller, CountedOK, pool, history
  <2>3. CASE WakeCaller(c)
        BY <2>2, <2>3 DEF WakeCaller, OthersOK
  <2>4. CASE FallAsleep(c)
        BY <2>2, <2>4, FallAsleepTyped DEF OthersOK
  <2>5. CASE \E what \in {"none", "terminate", "join"} : Calling(c, what, 0)
        BY <2>1, <2>2, <2>5, CallerTyped DEF OthersOK
  <2> QED
      BY <1>10, <2>3, <2>4, <2>5 DEF WaitTurn, JoinTurn, TimeOut
<1>11. ASSUME NEW c \in Caller, NEW k \in Thresholds,
              NEW what \in {"wait", "timed"}, Wait(c, what, k)
       PROVE  CountedOK' /\ OthersOK'
  <2>1. what \in Calls /\ k \in Thresholds \cup {0}
        BY DEF Calls
  <2>2. caller' \in [Caller -> [does : Calls, threshold : Thresholds \cup {0},
                                asleep : BOOLEAN]]
        BY <1>11, <2>1, CallerTyped DEF Wait
  <2> QED
      BY <1>11, <2>2 DEF Wait, CountedOK, OthersOK, pool, history
<1>12. ASSUME NEW c \in Caller, Terminate(c) PROVE CountedOK' /\ OthersOK'
  <2>1. /\ Calling(c, "join", 0) /\ "join" \in Calls /\ TerminateAll
        BY <1>12 DEF Terminate, Calls
  <2>2. OthersOK'
        BY <1>12, <2>1, CallerTyped
        DEF Terminate, TerminateAll, OthersOK, history
  <2> QED
      BY <2>1, <2>2, NotifyAllCounts DEF TerminateAll, CountedOK
<1>13. ASSUME NEW c \in Caller, Shutdown(c) PROVE CountedOK' /\ OthersOK'
  <2>1. /\ "drain" \in Calls /\ <<>> \in Seq(Task) /\ Pending \subseteq Task
        BY EmptySeq, LensAreNat, ElementOfSeq DEF Calls, Pending, OthersOK
  <2>2. CASE ShutdownAll(c)
        BY <1>13, <2>1, <2>2, CallerTyped
        DEF Shutdown, ShutdownAll, CountedOK, OthersOK, pool, history
  <2>3. CASE ShutdownActive(c)
        BY <1>13, <2>1, <2>3, CallerTyped
        DEF Shutdown, ShutdownActive, DropPending, CountedOK, OthersOK, pool
  <2>4. CASE ShutdownImmediately
        BY <1>13, <2>1, <2>4, NotifyAllCounts
        DEF Shutdown, ShutdownImmediately, TerminateAll, DropPending,
            CountedOK, OthersOK
  <2> QED
      BY <1>13, <2>2, <2>3, <2>4 DEF Shutdown
<1>14. ASSUME Clear PROVE CountedOK' /\ OthersOK'
  <2>1. <<>> \in Seq(Task) /\ Pending \subseteq Task
        BY EmptySeq, LensAreNat, ElementOfSeq DEF Pending, OthersOK
  <2> QED
      BY <1>14, <2>1 DEF Clear, DropPending, CountedOK, OthersOK, pool
<1>15. CASE UNCHANGED vars
       BY <1>15 DEF vars, pool, history, CountedOK, OthersOK
<1> QED
    BY <1>1, <1>2, <1>3, <1>4, <1>5, <1>6, <1>7, <1>8, <1>9, <1>10, <1>11,
       <1>12, <1>13, <1>14, <1>15
    DEF Next, WorkerStep, CallerStep

LEMMA InitTask == Init => TaskOK
  BY DEF Init, TaskOK

LEMMA NextTask ==
  ASSUME CountedOK, OthersOK, TaskOK, [Next]_vars
  PROVE  TaskOK'
<1> USE DEF TaskOK
<1>1. ASSUME NEW f, NEW free \in SUBSET Worker, NEW n, NEW a, NEW size,
             f \in [Worker -> Places], \A w \in free : f[w] = "none",
             Grow(f, free, n, a, size)
      PROVE  \A w \in Worker : worker'[w] = "running" <=> f[w] = "running"
      BY <1>1 DEF Grow
<1>2. ASSUME NEW f, f \in [Worker -> Places]
      PROVE  \A w \in Worker : NotifyAll(f)[w] = "running" <=> f[w] = "running"
      BY <1>2 DEF NotifyAll
<1>3. worker \in [Worker -> Places] /\ task \in [Worker -> Task \cup {None}]
      BY DEF CountedOK, CountedBy, OthersOK
<1>4. None \notin Task
      BY PoolAssumption DEF PoolAssumption
<1>5. ASSUME NEW w \in Worker, LetGo(w) \/ Sleep(w) \/ Leave(w) \/ WakeWorker(w)
      PROVE  TaskOK'
      BY <1>3, <1>5 DEF LetGo, Sleep, Leave, WakeWorker, AtLock
<1>6. ASSUME NEW w \in Worker, Take(w) PROVE TaskOK'
  <2>1. PICK i \in Top(scheduler) : task' = [task EXCEPT ![w] = scheduler[i]]
        BY <1>6 DEF Take
  <2>2. scheduler \in Seq(Task) /\ scheduler # <<>>
        BY <1>6 DEF Take, OthersOK
  <2>3. scheduler[i] \in Task
        BY <2>2, TopOK, PolicyKnown, ElementOfSeq
  <2> QED
      BY <1>3, <1>4, <1>6, <2>1, <2>3 DEF Take
<1>7. ASSUME NEW w \in Worker, Finish(w) PROVE TaskOK'
      BY <1>3, <1>7 DEF Finish
<1>8. ASSUME NEW w \in Worker, Die(w) PROVE TaskOK'
  <2> DEFINE where == [worker EXCEPT ![w] = "none"]
  <2>1. /\ where \in [Worker -> Places]
        /\ Threads({"none"}) \in SUBSET Worker
        /\ \A v \in Threads({"none"}) : where[v] = "none"
        BY <1>3 DEF Places, Threads
  <2>2. \/ worker' = where
        \/ Grow(where, Threads({"none"}), count - 1, active - 1, count - 1 + 1)
        BY <1>8 DEF Die, Gone
  <2>3. \A v \in Worker : worker'[v] = "running" <=> where[v] = "running"
    <3> HIDE DEF where
    <3> QED
        BY <1>1, <2>1, <2>2
  <2> QED
      BY <1>3, <1>8, <2>3 DEF Die
<1>9. ASSUME NEW t \in Task, Schedule(t) PROVE TaskOK'
      BY <1>3, <1>9 DEF Schedule, Threads
<1>10. ASSUME NEW size \in Sizes, Resize(size) PROVE TaskOK'
  <2>1. /\ Threads({"none"}) \in SUBSET Worker
        /\ \A v \in Threads({"none"}) : worker[v] = "none"
        BY DEF Threads
  <2>2. \/ Grow(worker, Threads({"none"}), count, active, size)
        \/ worker' = NotifyAll(worker)
        BY <1>10 DEF Resize
  <2>3. \A v \in Worker : worker'[v] = "running" <=> worker[v] = "running"
        BY <1>1, <1>2, <1>3, <2>1, <2>2
  <2> QED
      BY <1>10, <2>3 DEF Resize
<1>11. ASSUME NEW c \in Caller, Terminate(c) \/ Shutdown(c) PROVE TaskOK'
  <2>1. /\ worker' = NotifyAll(worker) \/ UNCHANGED worker
        /\ UNCHANGED task
        BY <1>11
        DEF Terminate, Shutdown, ShutdownAll, ShutdownActive,
            ShutdownImmediately, TerminateAll, pool
  <2> QED
      BY <1>2, <1>3, <2>1
<1>12. ASSUME NEW c \in Caller,
              WaitTurn(c) \/ JoinTurn(c) \/ TimeOut(c) \/ WakeCaller(c)
       PROVE  TaskOK'
       BY <1>12 DEF WaitTurn, JoinTurn, TimeOut, WakeCaller, pool
<1>13. ASSUME NEW c \in Caller, NEW k \in Thresholds,
              NEW what \in {"wait", "timed"}, Wait(c, what, k)
       PROVE  TaskOK'
       BY <1>13 DEF Wait, pool
<1>14. CASE Clear \/ UNCHANGED vars
       BY <1>14 DEF Clear, vars, pool
<1> QED
    BY <1>5, <1>6, <1>7, <1>8, <1>9, <1>10, <1>11, <1>12, <1>13, <1>14
    DEF Next, WorkerStep, CallerStep

-----------------------------------------------------------------------------
(* Shutting down *)

(* The workers are told to end only when there is nothing left to start,   *)
(* and from the end of the last handle on nobody adds anything.            *)
ShutOK ==
  /\ terminating => closed /\ scheduler = <<>>
  /\ \A c \in Caller :
       /\ caller[c].does \in {"drain", "terminate", "join"} => closed
       /\ caller[c].does = "drain" => caller[c].threshold = 0
       /\ caller[c].does \in {"terminate", "join"} => scheduler = <<>>

LEMMA IdleMeansEmpty ==
  ASSUME CountedOK, OthersOK, Idle(0)
  PROVE  scheduler = <<>> /\ active = 0
<1>1. active \in Nat /\ Len(scheduler) \in Nat
      BY CountersTyped, LensAreNat DEF CountedOK, OthersOK
<1>2. Len(scheduler) = 0 /\ active = 0
      BY <1>1 DEF Idle
<1> QED
    BY <1>2, EmptySeq DEF OthersOK

LEMMA InitShut == Init => ShutOK
  BY DEF Init, ShutOK, NoCall

LEMMA NextShut ==
  ASSUME CountedOK, OthersOK, ShutOK, [Next]_vars
  PROVE  ShutOK'
<1>1. caller \in [Caller -> [does : Calls, threshold : Thresholds \cup {0},
                             asleep : BOOLEAN]]
      BY DEF OthersOK
<1>2. ASSUME NotifyCallers
      PROVE  \A c \in Caller : /\ caller'[c].does = caller[c].does
                                /\ caller'[c].threshold = caller[c].threshold
      BY <1>1, <1>2 DEF NotifyCallers
<1>3. ASSUME NEW w \in Worker,
             LetGo(w) \/ Sleep(w) \/ Finish(w) \/ Die(w) \/ Leave(w)
               \/ WakeWorker(w)
      PROVE  ShutOK'
  <2>1. /\ UNCHANGED <<scheduler, terminating, closed>>
        /\ NotifyCallers \/ UNCHANGED caller
        BY <1>3 DEF LetGo, Sleep, Finish, Die, Gone, Leave, WakeWorker
  <2> QED
      BY <1>2, <2>1 DEF ShutOK
<1>4. ASSUME NEW w \in Worker, Take(w) PROVE ShutOK'
      BY <1>4 DEF Take, ShutOK
<1>5. ASSUME NEW t \in Task, Schedule(t) PROVE ShutOK'
      BY <1>5 DEF Schedule, ShutOK
<1>6. ASSUME NEW size \in Sizes, Resize(size) PROVE ShutOK'
      BY <1>6 DEF Resize, ShutOK
<1>7. ASSUME NEW c \in Caller, WaitTurn(c) PROVE ShutOK'
  <2>1. CASE FallAsleep(c)
        BY <1>1, <1>7, <2>1 DEF WaitTurn, FallAsleep, ShutOK, pool
  <2>2. CASE Idle(caller[c].threshold) /\ caller[c].does # "drain"
        BY <1>1, <1>7, <2>2 DEF WaitTurn, Calling, FallAsleep, ShutOK, pool
  <2>3. CASE Idle(caller[c].threshold) /\ caller[c].does = "drain"
    <3>1. scheduler = <<>> /\ closed
          BY <2>3, IdleMeansEmpty DEF ShutOK
    <3>2. /\ caller' = [caller EXCEPT ![c] =
               [does |-> "terminate", threshold |-> 0, asleep |-> FALSE]]
             \/ FallAsleep(c)
          /\ UNCHANGED <<scheduler, terminating, closed>>
          BY <1>7, <2>3 DEF WaitTurn, Calling, pool
    <3> QED
        BY <1>1, <2>1, <3>1, <3>2 DEF ShutOK
  <2> QED
      BY <1>7, <2>1, <2>2, <2>3 DEF WaitTurn
<1>8. ASSUME NEW c \in Caller, JoinTurn(c) \/ TimeOut(c) \/ WakeCaller(c)
      PROVE  ShutOK'
      BY <1>1, <1>8
      DEF JoinTurn, TimeOut, WakeCaller, FallAsleep, Calling, ShutOK, pool
<1>9. ASSUME NEW c \in Caller, NEW k \in Thresholds,
             NEW what \in {"wait", "timed"}, Wait(c, what, k)
      PROVE  ShutOK'
      BY <1>1, <1>9 DEF Wait, Calling, ShutOK, pool
<1>10. ASSUME NEW c \in Caller, Terminate(c) PROVE ShutOK'
       BY <1>1, <1>10 DEF Terminate, TerminateAll, Calling, ShutOK
<1>11. ASSUME NEW c \in Caller, Shutdown(c) PROVE ShutOK'
       BY <1>1, <1>11
       DEF Shutdown, ShutdownAll, ShutdownActive, ShutdownImmediately,
           DropPending, TerminateAll, Calling, ShutOK, pool
<1>12. CASE Clear \/ UNCHANGED vars
       BY <1>12 DEF Clear, DropPending, ShutOK, vars, pool
<1> QED
    BY <1>3, <1>4, <1>5, <1>6, <1>7, <1>8, <1>9, <1>10, <1>11, <1>12
    DEF Next, WorkerStep, CallerStep

-----------------------------------------------------------------------------
(* Where the tasks are *)

Assigned == {task[w] : w \in Worker} \ {None}

Scheduled == {scheduled[i] : i \in DOMAIN scheduled}

(* A scheduled task is in one place. *)
OnceOK ==
  /\ Scheduled = Pending \cup Assigned \cup finished \cup cleared
  /\ \A i, j \in DOMAIN scheduler : scheduler[i] = scheduler[j] => i = j
  /\ \A v, w \in Worker : task[v] = task[w] /\ task[v] # None => v = w
  /\ Pending \cap Assigned = {}
  /\ Pending \cap (finished \cup cleared) = {}
  /\ Assigned \cap (finished \cup cleared) = {}
  /\ finished \cap cleared = {}

(* The scheduler keeps tasks in the order of schedule. *)
InOrder(q, h) == \A i, j \in DOMAIN q : i < j =>
  \E k, l \in DOMAIN h : k < l /\ h[k] = q[i] /\ h[l] = q[j]

OrderOK ==
  /\ \A i, j \in DOMAIN scheduled : scheduled[i] = scheduled[j] => i = j
  /\ InOrder(scheduler, scheduled)

(* The positions that are left, in their order *)
LEMMA WithoutMap ==
  ASSUME NEW S, NEW q \in Seq(S), NEW i \in 1 .. Len(q)
  PROVE  /\ DOMAIN q = 1 .. Len(q)
         /\ \E m \in [DOMAIN Without(q, i) -> DOMAIN q] :
              /\ \A j \in DOMAIN Without(q, i) :
                   Without(q, i)[j] = q[m[j]] /\ m[j] # i
              /\ \A j, k \in DOMAIN Without(q, i) : j < k => m[j] < m[k]
              /\ \A j, k \in DOMAIN Without(q, i) : m[j] = m[k] => j = k
              /\ \A k \in DOMAIN q :
                   k # i => \E j \in DOMAIN Without(q, i) : m[j] = k
<1> DEFINE p == Without(q, i)
           m == [j \in DOMAIN p |-> IF j < i THEN j ELSE j + 1]
<1>1. /\ Len(q) \in Nat /\ DOMAIN q = 1 .. Len(q)
      /\ DOMAIN p = 1 .. Len(q) - 1
      /\ \A j \in 1 .. Len(q) - 1 : p[j] = IF j < i THEN q[j] ELSE q[j + 1]
  <2>1. p \in Seq(S) /\ Len(p) = Len(q) - 1
        BY WithoutOK
  <2> QED
      BY <2>1, WithoutOK, LenProperties
<1> HIDE DEF p
<1>2. \A j \in DOMAIN p : m[j] = IF j < i THEN j ELSE j + 1
      OBVIOUS
<1>3. m \in [DOMAIN p -> DOMAIN q]
      BY <1>1
<1> HIDE DEF m
<1>4. \A j \in DOMAIN p : p[j] = q[m[j]] /\ m[j] # i
      BY <1>1, <1>2
<1>5. /\ \A j, k \in DOMAIN p : j < k => m[j] < m[k]
      /\ \A j, k \in DOMAIN p : m[j] = m[k] => j = k
      BY <1>1, <1>2
<1>6. ASSUME NEW k \in DOMAIN q, k # i
      PROVE  \E j \in DOMAIN p : m[j] = k
  <2>1. CASE k < i
    <3>1. k \in DOMAIN p /\ m[k] = k
          BY <1>1, <1>2, <2>1
    <3> QED
        BY <3>1
  <2>2. CASE k > i
    <3>1. k - 1 \in DOMAIN p /\ m[k - 1] = k
          BY <1>1, <1>2, <2>2
    <3> QED
        BY <3>1
  <2> QED
      BY <1>1, <1>6, <2>1, <2>2
<1> QED
    BY <1>1, <1>3, <1>4, <1>5, <1>6 DEF p

(* One task leaves the scheduler, ... *)
LEMMA PendingWithout ==
  ASSUME NEW q \in Seq(Task), NEW i \in 1 .. Len(q),
         \A j, k \in DOMAIN q : q[j] = q[k] => j = k,
         NEW p, p = Without(q, i)
  PROVE  /\ {p[j] : j \in DOMAIN p} = {q[j] : j \in DOMAIN q} \ {q[i]}
         /\ \A j, k \in DOMAIN p : p[j] = p[k] => j = k
<1>1. DOMAIN q = 1 .. Len(q)
      BY WithoutMap
<1>2. PICK m \in [DOMAIN p -> DOMAIN q] :
        /\ \A j \in DOMAIN p : p[j] = q[m[j]] /\ m[j] # i
        /\ \A j, k \in DOMAIN p : m[j] = m[k] => j = k
        /\ \A k \in DOMAIN q : k # i => \E j \in DOMAIN p : m[j] = k
      BY WithoutMap
<1>3. ASSUME NEW j \in DOMAIN p
      PROVE  p[j] \in {q[k] : k \in DOMAIN q} \ {q[i]}
      BY <1>1, <1>2
<1>4. ASSUME NEW k \in DOMAIN q, k # i
      PROVE  q[k] \in {p[j] : j \in DOMAIN p}
      BY <1>2, <1>4
<1>5. ASSUME NEW j \in DOMAIN p, NEW k \in DOMAIN p, p[j] = p[k]
      PROVE  j = k
      BY <1>2, <1>5
<1> QED
    BY <1>3, <1>4, <1>5

(* ... and one comes. *)
LEMMA PendingAppend ==
  ASSUME NEW q \in Seq(Task), NEW t \in Task, NEW p, p = Append(q, t)
  PROVE  /\ {p[j] : j \in DOMAIN p} = {q[j] : j \in DOMAIN q} \cup {t}
         /\ DOMAIN q = 1 .. Len(q) /\ DOMAIN p = 1 .. Len(q) + 1
         /\ Len(q) \in Nat
         /\ \A j \in 1 .. Len(q) : p[j] = q[j]
         /\ p[Len(q) + 1] = t
<1>1. /\ DOMAIN q = 1 .. Len(q) /\ Len(q) \in Nat
      /\ p \in Seq(Task) /\ Len(p) = Len(q) + 1 /\ DOMAIN p = 1 .. Len(p)
      /\ \A j \in 1 .. Len(q) : p[j] = q[j]
      /\ p[Len(q) + 1] = t
      BY LenProperties
<1>2. \A j \in DOMAIN p : j \in DOMAIN q \/ j = Len(q) + 1
      BY <1>1
<1>3. \A j \in DOMAIN q : j \in DOMAIN p
      BY <1>1
<1>4. Len(q) + 1 \in DOMAIN p
      BY <1>1
<1> QED
    BY <1>1, <1>2, <1>3, <1>4

LEMMA InitOnce == Init => OnceOK /\ OrderOK
<1>1. DOMAIN <<>> = {}
      BY EmptySeq, LenProperties
<1> QED
    BY <1>1 DEF Init, OnceOK, OrderOK, InOrder, Scheduled, Pending, Assigned

(* Most steps leave the tasks where they are. *)
LEMMA TasksStay ==
  ASSUME OnceOK, OrderOK,
         UNCHANGED <<scheduler, task, scheduled, finished, cleared>>
  PROVE  OnceOK' /\ OrderOK'
  BY DEF OnceOK, OrderOK, Scheduled, Pending, Assigned

LEMMA TakeOnce ==
  ASSUME CountedOK, OthersOK, TaskOK, OnceOK, OrderOK,
         NEW w \in Worker, Take(w)
  PROVE  OnceOK' /\ OrderOK'
<1>1. PICK i \in Top(scheduler) :
        /\ task' = [task EXCEPT ![w] = scheduler[i]]
        /\ scheduler' = Without(scheduler, i)
      BY DEF Take
<1>2. /\ scheduler \in Seq(Task) /\ scheduler # <<>>
      /\ UNCHANGED <<scheduled, finished, cleared>>
      BY DEF Take, OthersOK, history
<1>3. i \in 1 .. Len(scheduler) /\ i \in DOMAIN scheduler
      BY <1>2, TopOK, PolicyKnown, LensAreNat
<1>4. scheduler[i] \in Task /\ scheduler[i] # None /\ scheduler[i] \in Pending
      BY <1>2, <1>3, ElementOfSeq, PoolAssumption DEF PoolAssumption, Pending
<1>5. \A j, k \in DOMAIN scheduler : scheduler[j] = scheduler[k] => j = k
      BY DEF OnceOK
<1>6. /\ Pending' = Pending \ {scheduler[i]}
      /\ \A j, k \in DOMAIN scheduler' : scheduler'[j] = scheduler'[k] => j = k
      BY SMTT(30), <1>1, <1>2, <1>3, <1>5, PendingWithout DEF Pending
<1>7. task[w] = None /\ task \in [Worker -> Task \cup {None}]
      BY DEF Take, AtLock, TaskOK, OthersOK
<1>8. /\ \A v \in Worker :
           task'[v] = IF v = w THEN scheduler[i] ELSE task[v]
      /\ Assigned' = Assigned \cup {scheduler[i]}
      BY <1>1, <1>4, <1>7 DEF Assigned
<1>9. \A v \in Worker : task[v] # scheduler[i]
      BY <1>4 DEF OnceOK, Assigned
<1>10. \A u, v \in Worker : task'[u] = task'[v] /\ task'[u] # None => u = v
       BY <1>8, <1>9 DEF OnceOK
<1>11. OnceOK'
       BY <1>2, <1>4, <1>6, <1>8, <1>10 DEF OnceOK, Scheduled
<1>12. ASSUME NEW j \in DOMAIN scheduler', NEW k \in DOMAIN scheduler', j < k
       PROVE  \E a, b \in DOMAIN scheduled : a < b
                /\ scheduled[a] = scheduler'[j] /\ scheduled[b] = scheduler'[k]
  <2>1. PICK m \in [DOMAIN scheduler' -> DOMAIN scheduler] :
          /\ \A l \in DOMAIN scheduler' : scheduler'[l] = scheduler[m[l]]
          /\ \A l, n \in DOMAIN scheduler' : l < n => m[l] < m[n]
        BY <1>1, <1>2, <1>3, WithoutMap
  <2>2. PICK a \in DOMAIN scheduler, b \in DOMAIN scheduler :
          a < b /\ scheduler'[j] = scheduler[a] /\ scheduler'[k] = scheduler[b]
        BY <1>12, <2>1
  <2> QED
      BY <2>2 DEF OrderOK, InOrder
<1>13. OrderOK'
       BY <1>2, <1>12 DEF OrderOK, InOrder
<1> QED
    BY <1>11, <1>13

(* The task of worker w ends. *)
LEMMA EndOnce ==
  ASSUME CountedOK, OthersOK, TaskOK, OnceOK, OrderOK,
         NEW w \in Worker, worker[w] = "running",
         task' = [task EXCEPT ![w] = None],
         finished' = finished \cup {task[w]},
         UNCHANGED <<scheduler, scheduled, cleared>>
  PROVE  OnceOK' /\ OrderOK'
<1>1. /\ task[w] # None /\ task[w] \in Assigned
      /\ task \in [Worker -> Task \cup {None}]
      BY DEF TaskOK, OthersOK, Assigned
<1>2. \A v \in Worker : task'[v] = IF v = w THEN None ELSE task[v]
      BY <1>1
<1>3. \A v \in Worker : task[v] = task[w] => v = w
      BY <1>1 DEF OnceOK
<1>4. \A t : t \in Assigned <=> t # None /\ \E v \in Worker : task[v] = t
      BY DEF Assigned
<1>5. \A t : t \in Assigned' <=> t # None /\ \E v \in Worker : task'[v] = t
      BY DEF Assigned
<1>6. \A t : t \in Assigned' <=> t \in Assigned /\ t # task[w]
      BY <1>1, <1>2, <1>3, <1>4, <1>5
<1>7. Assigned' = Assigned \ {task[w]}
      BY <1>6
<1>8. \A u, v \in Worker : task'[u] = task'[v] /\ task'[u] # None => u = v
      BY <1>2 DEF OnceOK
<1>9. OnceOK'
      BY <1>1, <1>7, <1>8 DEF OnceOK, Scheduled, Pending
<1>10. OrderOK'
       BY DEF OrderOK, InOrder
<1> QED
    BY <1>9, <1>10

LEMMA ScheduleOnce ==
  ASSUME OthersOK, OnceOK, OrderOK, NEW t \in Task, Schedule(t)
  PROVE  OnceOK' /\ OrderOK'
<1>1. /\ scheduler' = Append(scheduler, t) /\ scheduled' = Append(scheduled, t)
      /\ UNCHANGED <<task, finished, cleared>>
      /\ t \notin Scheduled
      /\ scheduler \in Seq(Task) /\ scheduled \in Seq(Task)
      BY DEF Schedule, Scheduled, OthersOK
<1>2. /\ Pending' = Pending \cup {t}
      /\ DOMAIN scheduler = 1 .. Len(scheduler)
      /\ DOMAIN scheduler' = 1 .. Len(scheduler) + 1
      /\ Len(scheduler) \in Nat
      /\ \A j \in 1 .. Len(scheduler) : scheduler'[j] = scheduler[j]
      /\ scheduler'[Len(scheduler) + 1] = t
  <2>1. PICK q, p : q = scheduler /\ p = scheduler'
        OBVIOUS
  <2>2. q \in Seq(Task) /\ p = Append(q, t)
        BY <1>1, <2>1
  <2>3. /\ {p[j] : j \in DOMAIN p} = {q[j] : j \in DOMAIN q} \cup {t}
        /\ DOMAIN q = 1 .. Len(q) /\ DOMAIN p = 1 .. Len(q) + 1
        /\ Len(q) \in Nat
        /\ \A j \in 1 .. Len(q) : p[j] = q[j]
        /\ p[Len(q) + 1] = t
        BY <2>2, PendingAppend
  <2>4. /\ Pending = {q[j] : j \in DOMAIN q}
        /\ Pending' = {p[j] : j \in DOMAIN p}
        BY <2>1 DEF Pending
  <2> QED
      BY <2>1, <2>3, <2>4
<1>3. /\ Scheduled' = Scheduled \cup {t}
      /\ DOMAIN scheduled = 1 .. Len(scheduled)
      /\ DOMAIN scheduled' = 1 .. Len(scheduled) + 1
      /\ Len(scheduled) \in Nat
      /\ \A j \in 1 .. Len(scheduled) : scheduled'[j] = scheduled[j]
      /\ scheduled'[Len(scheduled) + 1] = t
  <2>1. PICK q, p : q = scheduled /\ p = scheduled'
        OBVIOUS
  <2>2. q \in Seq(Task) /\ p = Append(q, t)
        BY <1>1, <2>1
  <2>3. /\ {p[j] : j \in DOMAIN p} = {q[j] : j \in DOMAIN q} \cup {t}
        /\ DOMAIN q = 1 .. Len(q) /\ DOMAIN p = 1 .. Len(q) + 1
        /\ Len(q) \in Nat
        /\ \A j \in 1 .. Len(q) : p[j] = q[j]
        /\ p[Len(q) + 1] = t
        BY <2>2, PendingAppend
  <2>4. /\ Scheduled = {q[j] : j \in DOMAIN q}
        /\ Scheduled' = {p[j] : j \in DOMAIN p}
        BY <2>1 DEF Scheduled
  <2> QED
      BY <2>1, <2>3, <2>4
<1>4. \A j \in 1 .. Len(scheduler) :
        scheduler[j] # t /\ scheduler[j] \in Scheduled
      BY <1>1, <1>2 DEF OnceOK, Pending
<1>5. \A j, k \in DOMAIN scheduler' : scheduler'[j] = scheduler'[k] => j = k
      BY <1>2, <1>4 DEF OnceOK
<1>6. OnceOK'
      BY <1>1, <1>2, <1>3, <1>5 DEF OnceOK, Assigned
<1>7. \A j \in 1 .. Len(scheduled) : scheduled[j] # t
      BY <1>1, <1>3 DEF Scheduled
<1>8. \A j, k \in DOMAIN scheduled' : scheduled'[j] = scheduled'[k] => j = k
      BY <1>3, <1>7 DEF OrderOK
<1>9. ASSUME NEW i \in DOMAIN scheduler', NEW j \in DOMAIN scheduler', i < j
      PROVE  \E k, l \in DOMAIN scheduled' : k < l
               /\ scheduled'[k] = scheduler'[i] /\ scheduled'[l] = scheduler'[j]
  <2>1. CASE j \in DOMAIN scheduler
    <3>1. i \in DOMAIN scheduler
          BY <1>2, <1>9, <2>1
    <3>2. PICK k \in DOMAIN scheduled, l \in DOMAIN scheduled :
            k < l /\ scheduled[k] = scheduler[i] /\ scheduled[l] = scheduler[j]
          BY <1>9, <2>1, <3>1 DEF OrderOK, InOrder
    <3>3. k \in DOMAIN scheduled' /\ l \in DOMAIN scheduled'
          BY <1>3
    <3>4. /\ scheduled'[k] = scheduler'[i] /\ scheduled'[l] = scheduler'[j]
          BY <1>2, <1>3, <2>1, <3>1, <3>2
    <3> QED
        BY <3>2, <3>3, <3>4
  <2>2. CASE j = Len(scheduler) + 1
    <3>1. i \in 1 .. Len(scheduler) /\ scheduler'[j] = t
          BY <1>2, <1>9, <2>2
    <3>2. PICK k \in DOMAIN scheduled : scheduled[k] = scheduler[i]
          BY <1>4, <3>1 DEF Scheduled
    <3>3. /\ k \in DOMAIN scheduled' /\ Len(scheduled) + 1 \in DOMAIN scheduled'
          /\ k < Len(scheduled) + 1
          BY <1>3
    <3>4. /\ scheduled'[k] = scheduler'[i]
          /\ scheduled'[Len(scheduled) + 1] = scheduler'[j]
          BY <1>2, <1>3, <3>1, <3>2
    <3> QED
        BY <3>3, <3>4
  <2> QED
      BY <1>2, <2>1, <2>2
<1>10. OrderOK'
       BY <1>8, <1>9 DEF OrderOK, InOrder
<1> QED
    BY <1>6, <1>10

LEMMA DropOnce ==
  ASSUME OnceOK, OrderOK, DropPending,
         UNCHANGED <<task, scheduled, finished>>
  PROVE  OnceOK' /\ OrderOK'
<1>1. DOMAIN <<>> = {}
      BY EmptySeq, LenProperties
<1>2. /\ scheduler' = <<>> /\ Pending' = {}
      /\ cleared' = cleared \cup Pending
      BY <1>1 DEF DropPending, Pending
<1>3. OnceOK'
      BY <1>1, <1>2 DEF OnceOK, Scheduled, Assigned
<1>4. OrderOK'
      BY <1>1, <1>2 DEF OrderOK, InOrder
<1> QED
    BY <1>3, <1>4

LEMMA NextOnce ==
  ASSUME CountedOK, OthersOK, TaskOK, OnceOK, OrderOK, [Next]_vars
  PROVE  OnceOK' /\ OrderOK'
<1>1. ASSUME NEW w \in Worker, LetGo(w) \/ Sleep(w) \/ Leave(w) \/ WakeWorker(w)
      PROVE  OnceOK' /\ OrderOK'
      BY <1>1, TasksStay DEF LetGo, Sleep, Leave, WakeWorker, history
<1>2. ASSUME NEW w \in Worker, Take(w) PROVE OnceOK' /\ OrderOK'
      BY <1>2, TakeOnce
<1>3. ASSUME NEW w \in Worker, Finish(w) \/ Die(w) PROVE OnceOK' /\ OrderOK'
      BY <1>3, EndOnce DEF Finish, Die
<1>4. ASSUME NEW t \in Task, Schedule(t) PROVE OnceOK' /\ OrderOK'
      BY <1>4, ScheduleOnce
<1>5. ASSUME NEW size \in Sizes, Resize(size) PROVE OnceOK' /\ OrderOK'
      BY <1>5, TasksStay DEF Resize, history
<1>6. ASSUME NEW c \in Caller,
             WaitTurn(c) \/ JoinTurn(c) \/ TimeOut(c) \/ WakeCaller(c)
               \/ Terminate(c)
      PROVE  OnceOK' /\ OrderOK'
      BY <1>6, TasksStay
      DEF WaitTurn, JoinTurn, TimeOut, WakeCaller, Terminate, TerminateAll,
          pool, history
<1>7. ASSUME NEW c \in Caller, NEW k \in Thresholds,
             NEW what \in {"wait", "timed"}, Wait(c, what, k)
      PROVE  OnceOK' /\ OrderOK'
      BY <1>7, TasksStay DEF Wait, pool, history
<1>8. ASSUME NEW c \in Caller, Shutdown(c) PROVE OnceOK' /\ OrderOK'
  <2>1. CASE ShutdownAll(c)
        BY <2>1, TasksStay DEF ShutdownAll, pool, history
  <2>2. CASE ShutdownActive(c) \/ ShutdownImmediately
        BY <2>2, DropOnce
        DEF ShutdownActive, ShutdownImmediately, TerminateAll, pool
  <2> QED
      BY <1>8, <2>1, <2>2 DEF Shutdown
<1>9. CASE Clear
      BY <1>9, DropOnce DEF Clear, pool
<1>10. CASE UNCHANGED vars
       BY <1>10, TasksStay DEF vars, pool, history
<1> QED
    BY <1>1, <1>2, <1>3, <1>4, <1>5, <1>6, <1>7, <1>8, <1>9, <1>10
    DEF Next, WorkerStep, CallerStep
-----------------------------------------------------------------------------
PInv == CountedOK /\ OthersOK /\ TaskOK /\ ShutOK /\ OnceOK /\ OrderOK

(* The invariant holds in every state the threads can reach. *)
THEOREM PoolInvariance == Spec => []PInv
<1>1. Init => PInv
      BY InitCounted, InitTask, InitShut, InitOnce DEF PInv
<1>2. PInv /\ [Next]_vars => PInv'
      BY NextCounted, NextTask, NextShut, NextOnce DEF PInv
<1> QED
    BY <1>1, <1>2, PTL DEF Spec

(* Every state the threads can reach is well typed. *)
THEOREM PoolTypeCorrect == Spec => []TypeOK
<1>1. PInv => TypeOK
      BY CountedIsTyped DEF PInv
<1> QED
    BY PoolInvariance, <1>1, PTL

(* The counters agree with the threads, whatever exceptions, resizes and   *)
(* wake-ups come in between (pool_core.hpp 347-349, 373-374, 390-391).     *)
THEOREM CountersAgree == Spec => []Counted
<1>1. PInv => Counted
      BY CountedIsTyped DEF PInv
<1> QED
    BY PoolInvariance, <1>1, PTL

(* What is at one place, or at none, as a number *)
LEMMA OneOrNone ==
  /\ Cardinality({}) = 0
  /\ \A x : Cardinality({x}) = 1
  BY FS_EmptySet, FS_Singleton

LEMMA OncePlace ==
  ASSUME OthersOK, OnceOK, NEW t \in Scheduled
  PROVE  Cardinality({j \in DOMAIN scheduler : scheduler[j] = t})
         + Cardinality({w \in Worker : task[w] = t})
         + Cardinality({t} \cap finished) + Cardinality({t} \cap cleared) = 1
<1> DEFINE P == {j \in DOMAIN scheduler : scheduler[j] = t}
           W == {w \in Worker : task[w] = t}
<1>1. t \in Task
      BY LensAreNat, ElementOfSeq DEF Scheduled, OthersOK
<1>2. t # None
      BY <1>1, PoolAssumption DEF PoolAssumption
<1>3. /\ t \notin Pending => P = {}
      /\ t \in Pending => \E j : P = {j}
      BY DEF OnceOK, Pending
<1>4. /\ t \notin Assigned => W = {}
      /\ t \in Assigned => \E w : W = {w}
      BY <1>2 DEF OnceOK, Assigned
<1>5. /\ Cardinality(P) = IF t \in Pending THEN 1 ELSE 0
      /\ Cardinality(W) = IF t \in Assigned THEN 1 ELSE 0
      BY <1>3, <1>4, OneOrNone
<1>6. \A S : Cardinality({t} \cap S) = IF t \in S THEN 1 ELSE 0
  <2>1. \A S : {t} \cap S = IF t \in S THEN {t} ELSE {}
        OBVIOUS
  <2> QED
      BY <2>1, OneOrNone
<1>7. /\ Cardinality({t} \cap finished) = IF t \in finished THEN 1 ELSE 0
      /\ Cardinality({t} \cap cleared) = IF t \in cleared THEN 1 ELSE 0
      BY <1>6
<1>8. \/ t \in Pending /\ t \notin Assigned /\ t \notin finished
           /\ t \notin cleared
      \/ t \notin Pending /\ t \in Assigned /\ t \notin finished
           /\ t \notin cleared
      \/ t \notin Pending /\ t \notin Assigned /\ t \in finished
           /\ t \notin cleared
      \/ t \notin Pending /\ t \notin Assigned /\ t \notin finished
           /\ t \in cleared
      BY DEF OnceOK
<1> QED
    BY <1>5, <1>7, <1>8

(* A task is executed once only (pool_core.hpp 180, 380-432). *)
THEOREM TasksExecuteOnce == Spec => []ExecutedOnce
<1>1. PInv => ExecutedOnce
      BY OncePlace DEF PInv, ExecutedOnce, Scheduled
<1> QED
    BY PoolInvariance, <1>1, PTL

(* Nothing starts after a shutdown, although woken workers look at the     *)
(* scheduler before they look at the target (pool_core.hpp 397-419).       *)
THEOREM NoStartAfterShutdown == Spec => NothingStarts
<1>1. ASSUME PInv, [Next]_vars, terminating, NEW w \in Worker,
             worker'[w] = "running"
      PROVE  worker[w] = "running"
  <2>1. scheduler = <<>>
        BY <1>1 DEF PInv, ShutOK
  <2>2. worker \in [Worker -> Places]
        BY <1>1 DEF PInv, CountedOK, CountedBy
  <2>3. ASSUME NEW f \in [Worker -> Places], NEW v \in Worker, NEW p,
               p # "running"
        PROVE  [f EXCEPT ![v] = p][w] = "running" => f[w] = "running"
        BY <2>3
  <2>4. \A f : NotifyAll(f)[w] = "running" => f[w] = "running"
        BY DEF NotifyAll
  <2>5. ASSUME NEW v \in Worker, LetGo(v) \/ Sleep(v) \/ Leave(v)
                                   \/ WakeWorker(v) \/ Finish(v)
        PROVE  worker[w] = "running"
        BY <1>1, <2>2, <2>3, <2>5
        DEF LetGo, Sleep, Leave, WakeWorker, Finish
  <2>6. ASSUME NEW v \in Worker, Take(v) PROVE FALSE
        BY <2>1, <2>6 DEF Take
  <2>7. ASSUME NEW v \in Worker, Die(v) PROVE worker[w] = "running"
        BY <1>1, <2>2, <2>3, <2>7 DEF Die, Gone
  <2>8. ASSUME NEW t \in Task, Schedule(t) PROVE worker[w] = "running"
        BY <1>1, <2>8 DEF Schedule, PInv, ShutOK
  <2>9. ASSUME NEW size \in Sizes, Resize(size) PROVE FALSE
        BY <1>1, <2>9 DEF Resize
  <2>10. ASSUME NEW c \in Caller, Terminate(c) \/ Shutdown(c)
         PROVE  worker[w] = "running"
         BY <1>1, <2>4, <2>10
         DEF Terminate, Shutdown, ShutdownAll, ShutdownActive,
             ShutdownImmediately, TerminateAll, pool
  <2>11. ASSUME NEW c \in Caller,
                WaitTurn(c) \/ JoinTurn(c) \/ TimeOut(c) \/ WakeCaller(c)
         PROVE  worker[w] = "running"
         BY <1>1, <2>11 DEF WaitTurn, JoinTurn, TimeOut, WakeCaller, pool
  <2>12. ASSUME NEW c \in Caller, NEW k \in Thresholds,
                NEW what \in {"wait", "timed"}, Wait(c, what, k)
         PROVE  worker[w] = "running"
         BY <1>1, <2>12 DEF Wait, pool
  <2>13. CASE Clear \/ UNCHANGED vars
         BY <1>1, <2>13 DEF Clear, vars, pool
  <2> QED
      BY <1>1, <2>5, <2>6, <2>7, <2>8, <2>9, <2>10, <2>11, <2>12, <2>13
      DEF Next, WorkerStep, CallerStep
<1>2. PInv /\ [Next]_vars
        => [terminating => \A w \in Worker :
              worker'[w] = "running" => worker[w] = "running"]_vars
      BY <1>1
<1> QED
    BY PoolInvariance, <1>2, PTL DEF Spec, NothingStarts

(* A pool with no active worker and no pending task has done every task. *)
LEMMA NothingLeft ==
  ASSUME PInv, Idle(0)
  PROVE  \A i \in DOMAIN scheduled : scheduled[i] \in finished \cup cleared
<1>1. scheduler = <<>> /\ active = 0
      BY IdleMeansEmpty DEF PInv
<1>2. Pending = {}
      BY <1>1, EmptySeq, LenProperties DEF Pending
<1>3. Busy(worker) = {}
      BY <1>1, WorkersFinite, FS_EmptySet DEF PInv, CountedOK, CountedBy
<1>4. \A w \in Worker : task[w] = None
      BY <1>3 DEF PInv, TaskOK, Busy
<1>5. Assigned = {}
      BY <1>4 DEF Assigned
<1> QED
    BY <1>2, <1>5 DEF PInv, OnceOK, Scheduled

(* When wait returns, or the wait of a shutdown policy does, every task    *)
(* scheduled so far has ended or was removed (pool_core.hpp 237-249;       *)
(* shutdown_policies.hpp 29-30).                                           *)
THEOREM WaitReturnsWhenDone == Spec => WaitMeansDone
<1>1. ASSUME PInv, [Next]_vars, NEW c \in Caller,
             caller[c].does \in {"wait", "drain"}, caller[c].threshold = 0,
             caller'[c].does # caller[c].does
      PROVE  \A i \in DOMAIN scheduled : scheduled[i] \in finished \cup cleared
  <2>1. caller \in [Caller -> [does : Calls, threshold : Thresholds \cup {0},
                               asleep : BOOLEAN]]
        BY <1>1 DEF PInv, OthersOK
  <2>2. ~NotifyCallers /\ caller' # caller
        BY <1>1, <2>1 DEF NotifyCallers
  <2>3. ASSUME NEW w \in Worker, WorkerStep(w) \/ WakeWorker(w) PROVE FALSE
        BY <2>2, <2>3
        DEF WorkerStep, WakeWorker, LetGo, Sleep, Take, Finish, Die, Gone, Leave
  <2>4. ASSUME NEW d \in Caller, WaitTurn(d) PROVE Idle(0)
    <3>1. CASE FallAsleep(d)
          BY <1>1, <2>1, <3>1 DEF FallAsleep
    <3>2. CASE \E what : Calling(d, what, 0) /\ Idle(caller[d].threshold)
          BY <1>1, <2>1, <3>2 DEF Calling
    <3> QED
        BY <2>4, <3>1, <3>2 DEF WaitTurn
  <2>5. ASSUME NEW d \in Caller,
               Terminate(d) \/ JoinTurn(d) \/ WakeCaller(d) \/ TimeOut(d)
        PROVE  FALSE
        BY <1>1, <2>1, <2>5
        DEF Terminate, JoinTurn, WakeCaller, TimeOut, FallAsleep, Calling
  <2>6. ASSUME NEW d \in Caller, Shutdown(d) PROVE FALSE
        BY <1>1, <2>6 DEF Shutdown
  <2>7. ASSUME NEW d \in Caller, NEW k \in Thresholds,
               NEW what \in {"wait", "timed"}, Wait(d, what, k)
        PROVE  FALSE
        BY <1>1, <2>1, <2>7 DEF Wait, Calling
  <2>8. ASSUME \/ \E t \in Task : Schedule(t)
               \/ \E size \in Sizes : Resize(size)
               \/ Clear
               \/ UNCHANGED vars
        PROVE  FALSE
        BY <2>2, <2>8 DEF Schedule, Resize, Clear, vars
  <2>9. Idle(0)
        BY <1>1, <2>3, <2>4, <2>5, <2>6, <2>7, <2>8 DEF Next, CallerStep
  <2> QED
      BY <1>1, <2>9, NothingLeft
<1>2. PInv /\ [Next]_vars
        => [\A c \in Caller :
              LET d == caller[c]
              IN  (/\ d.does \in {"wait", "drain"} /\ d.threshold = 0
                   /\ caller'[c].does # d.does)
                 => \A i \in DOMAIN scheduled :
                      scheduled[i] \in finished \cup cleared]_vars
      BY <1>1
<1> QED
    BY PoolInvariance, <1>2, PTL DEF Spec, WaitMeansDone

(* Only one of two tasks was scheduled before the other. *)
LEMMA BeforeIsOrder ==
  ASSUME OthersOK, OrderOK,
         NEW i \in DOMAIN scheduler, NEW j \in DOMAIN scheduler, i < j
  PROVE  ~Before(scheduler[j], scheduler[i])
<1>1. PICK k \in DOMAIN scheduled, l \in DOMAIN scheduled :
        k < l /\ scheduled[k] = scheduler[i] /\ scheduled[l] = scheduler[j]
      BY DEF OrderOK, InOrder
<1>2. SUFFICES ASSUME NEW a \in DOMAIN scheduled, NEW b \in DOMAIN scheduled,
                      a < b, scheduled[a] = scheduler[j],
                      scheduled[b] = scheduler[i]
               PROVE  FALSE
      BY DEF Before
<1>3. a = l /\ b = k
      BY <1>1, <1>2 DEF OrderOK
<1>4. DOMAIN scheduled \subseteq Int
      BY LensAreNat DEF OthersOK
<1> QED
    BY <1>1, <1>2, <1>3, <1>4

(* The task on top has precedence. *)
LEMMA TopPrecedes ==
  ASSUME PInv, NEW i \in Top(scheduler), NEW j \in DOMAIN scheduler, j # i,
         scheduler # <<>>
  PROVE  CASE policy = "fifo" -> ~Before(scheduler[j], scheduler[i])
           [] policy = "lifo" -> ~Before(scheduler[i], scheduler[j])
           [] policy = "prio" -> ~Precedes(scheduler[j], scheduler[i])
<1>1. policy \in {"fifo", "lifo", "prio"}
      BY PolicyKnown DEF PInv
<1>2. /\ scheduler \in Seq(Task) /\ Len(scheduler) \in Nat
      /\ DOMAIN scheduler = 1 .. Len(scheduler)
      BY LensAreNat DEF PInv, OthersOK
<1>3. i \in DOMAIN scheduler
      BY <1>1, <1>2, TopOK
<1>4. CASE policy = "fifo"
  <2>1. i < j
        BY <1>2, <1>3, <1>4 DEF Top, FifoTop
  <2>2. ~Before(scheduler[j], scheduler[i])
        BY <1>3, <2>1, BeforeIsOrder DEF PInv
  <2> QED
      BY <1>4, <2>2
<1>5. CASE policy = "lifo"
  <2>1. i = Len(scheduler)
        BY <1>5 DEF Top, LifoTop
  <2>2. j < i
        BY <1>2, <2>1
  <2>3. ~Before(scheduler[i], scheduler[j])
        BY <1>3, <2>2, BeforeIsOrder DEF PInv
  <2> QED
      BY <1>5, <2>3
<1>6. CASE policy = "prio"
  <2>1. ~Precedes(scheduler[j], scheduler[i])
        BY <1>6 DEF Top, PrioTop
  <2> QED
      BY <1>6, <2>1
<1> QED
    BY <1>1, <1>4, <1>5, <1>6

(* No task starts before one that is pending and has precedence under the  *)
(* scheduling policy (scheduling_policies.hpp 37, 111, 184).               *)
THEOREM TasksStartInOrder == Spec => StartOrder
<1>1. ASSUME PInv, [Next]_vars, NEW w \in Worker, NEW t \in Pending,
             task'[w] # task[w], task'[w] \notin {None, t}
      PROVE  CASE policy = "fifo" -> ~Before(t, task'[w])
               [] policy = "lifo" -> ~Before(task'[w], t)
               [] policy = "prio" -> ~Precedes(t, task'[w])
  <2>1. task \in [Worker -> Task \cup {None}]
        BY <1>1 DEF PInv, OthersOK
  <2>2. task' # task
        BY <1>1
  <2>3. ASSUME NEW v \in Worker,
               LetGo(v) \/ Sleep(v) \/ Leave(v) \/ WakeWorker(v)
        PROVE  FALSE
        BY <2>2, <2>3 DEF LetGo, Sleep, Leave, WakeWorker
  <2>4. ASSUME NEW v \in Worker, Finish(v) \/ Die(v) PROVE FALSE
    <3>1. task' = [task EXCEPT ![v] = None]
          BY <2>4 DEF Finish, Die
    <3> QED
        BY <1>1, <2>1, <3>1
  <2>5. ASSUME NEW v \in Worker, Take(v)
        PROVE  \E i \in Top(scheduler) :
                 scheduler # <<>> /\ task'[w] = scheduler[i]
    <3>1. PICK i \in Top(scheduler) :
            scheduler # <<>> /\ task' = [task EXCEPT ![v] = scheduler[i]]
          BY <2>5 DEF Take
    <3>2. task'[w] = scheduler[i]
          BY <1>1, <2>1, <3>1
    <3> QED
        BY <3>1, <3>2
  <2>6. ASSUME \/ \E c \in Caller :
                    CallerStep(c) \/ WakeCaller(c) \/ TimeOut(c) \/ Shutdown(c)
               \/ \E c \in Caller, k \in Thresholds,
                    what \in {"wait", "timed"} : Wait(c, what, k)
               \/ \E u \in Task : Schedule(u)
               \/ \E size \in Sizes : Resize(size)
               \/ Clear
               \/ UNCHANGED vars
        PROVE  FALSE
    <3>1. UNCHANGED task
          BY <2>6
          DEF CallerStep, WaitTurn, Terminate, JoinTurn, WakeCaller, TimeOut,
              Shutdown, ShutdownAll, ShutdownActive, ShutdownImmediately,
              TerminateAll, Wait, Schedule, Resize, Clear, vars, pool
    <3> QED
        BY <2>2, <3>1
  <2>7. PICK i \in Top(scheduler) :
          scheduler # <<>> /\ task'[w] = scheduler[i]
        BY <1>1, <2>3, <2>4, <2>5, <2>6 DEF Next, WorkerStep
  <2>8. PICK j \in DOMAIN scheduler : t = scheduler[j]
        BY DEF Pending
  <2>9. j # i
        BY <1>1, <2>7, <2>8
  <2> QED
      BY <1>1, <2>7, <2>8, <2>9, TopPrecedes
<1>2. PInv /\ [Next]_vars
        => [\A w \in Worker, t \in Pending :
              (task'[w] # task[w] /\ task'[w] \notin {None, t}) =>
                CASE policy = "fifo" -> ~Before(t, task'[w])
                  [] policy = "lifo" -> ~Before(task'[w], t)
                  [] policy = "prio" -> ~Precedes(t, task'[w])]_vars
      BY <1>1
<1> QED
    BY PoolInvariance, <1>2, PTL DEF Spec, StartOrder
===============================================================================
