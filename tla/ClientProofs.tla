----------------------------- MODULE ClientProofs -----------------------------
(***************************************************************************)
(* Proofs about the clients: any number of clients and servers, any        *)
(* window, any sequence of masters.                                        *)
(***************************************************************************)
EXTENDS Client, FiniteSetTheorems, SequenceTheorems, TLAPS

LEMMA Setting ==
  /\ 0 \in Node /\ ReadNode \in Node /\ Node # {}
  /\ Window \in Nat /\ Block \in Nat /\ Block > 0 /\ MaxCounter \in Nat
  /\ CounterSpan \in Nat /\ CounterSpan > 0
  /\ Clients \subseteq Nat /\ \A c \in Clients : c < NodeIds
  /\ Len(Masters) \in Nat /\ 1 \in 1 .. Len(Masters)
  /\ DOMAIN Masters = 1 .. Len(Masters)
  /\ \A i \in 1 .. Len(Masters) : Masters[i] \in Node
<1>1. /\ Len(Masters) \in Nat \ {0} /\ DOMAIN Masters = 1 .. Len(Masters)
      /\ \A i \in 1 .. Len(Masters) : Masters[i] \in Node
  BY ClientAssumption, EmptySeq, LenProperties, ElementOfSeq
  DEF ClientAssumption
<1>2. NodeIds \in Nat
  BY DEF NodeIds
<1>3. Clients \subseteq Nat /\ \A c \in Clients : c < NodeIds
  BY <1>2, ClientAssumption DEF ClientAssumption
<1> QED
  BY <1>1, <1>3, ClientAssumption DEF ClientAssumption

-----------------------------------------------------------------------------
(* Types *)

LEMMA NoRequestOK ==
  /\ NoRequest.counter = -1 /\ NoRequest.read = FALSE
  /\ NoRequest \notin Request
BY DEF NoRequest, Request

(* What making a request does *)
Makes(c, t, d) ==
  \E k, rand \in Nat, m \in Request :
    /\ k = d.commit_counter /\ k < MaxCounter
    /\ m.counter = k /\ m.read = IsRead(k, rand)
    /\ Ratio \in {10, 90} => \E new \in 0 .. Block - 1 :
                               rand = RandCounter(k, d.rand_counter, new)
    /\ clients' = [clients EXCEPT
         ![c] = [d EXCEPT !.commit_counter = k + 1, !.rand_counter = rand]]
    /\ sending' = [sending EXCEPT ![c][t] = m]
    /\ writes' = IF m.read THEN writes
                         ELSE [writes EXCEPT ![c] = @ \cup {k}]

ClientStates == [master_id : Node, commit_counter : 0 .. MaxCounter,
                 rand_counter : Nat, started : 0 .. Window, done : BOOLEAN]

LEMMA MakeMakes ==
  ASSUME NEW c, NEW t, NEW d \in ClientStates, Make(c, t, d)
  PROVE  Makes(c, t, d)
<1>1. PICK k : k = d.commit_counter
  OBVIOUS
<1>2. PICK new \in IF Ratio \in {10, 90} THEN 0 .. Block - 1 ELSE {0} :
        LET rand == IF Ratio \in {10, 90}
                    THEN RandCounter(k, d.rand_counter, new)
                    ELSE d.rand_counter
            read == IsRead(k, rand)
        IN  /\ k < MaxCounter
            /\ clients' = [clients EXCEPT
                 ![c] = [d EXCEPT !.commit_counter = k + 1,
                                  !.rand_counter = rand]]
            /\ sending' = [sending EXCEPT
                             ![c][t] = [counter |-> k, read |-> read]]
            /\ writes' = IF read THEN writes
                                 ELSE [writes EXCEPT ![c] = @ \cup {k}]
  BY <1>1 DEF Make
<1>3. PICK rand : rand = IF Ratio \in {10, 90}
                         THEN RandCounter(k, d.rand_counter, new)
                         ELSE d.rand_counter
  OBVIOUS
<1>4. PICK m : m = [counter |-> k, read |-> IsRead(k, rand)]
  OBVIOUS
<1>5. k \in Nat /\ d.rand_counter \in Nat
  BY <1>1, Setting DEF ClientStates
<1>6. /\ rand \in Nat
      /\ Ratio \in {10, 90} => \E x \in 0 .. Block - 1 :
                                 rand = RandCounter(k, d.rand_counter, x)
  BY <1>2, <1>3, <1>5, Setting DEF RandCounter
<1>7. IsRead(k, rand) \in BOOLEAN
  BY DEF IsRead, WriteOrRead, Complement
<1>8. m \in Request /\ m.counter = k /\ m.read = IsRead(k, rand)
  BY <1>4, <1>5, <1>7 DEF Request
<1> QED
  BY ZenonT(60), <1>1, <1>2, <1>3, <1>4, <1>5, <1>6, <1>8 DEF Makes

(* Next, each request, answer and client taken apart *)

LEMMA MakesTyped ==
  ASSUME TypeOK, NEW c \in Clients, NEW t \in Threads, NEW d \in ClientStates,
         Makes(c, t, d)
  PROVE  /\ clients' \in [Clients -> ClientStates]
         /\ sending' \in [Clients -> [Threads -> Request \cup {NoRequest}]]
         /\ writes' \in [Clients -> SUBSET Nat]
<1>1. PICK k \in Nat, rand \in Nat, m \in Request :
        /\ k < MaxCounter
        /\ clients' = [clients EXCEPT
             ![c] = [d EXCEPT !.commit_counter = k + 1, !.rand_counter = rand]]
        /\ sending' = [sending EXCEPT ![c][t] = m]
        /\ writes' = IF m.read THEN writes
                             ELSE [writes EXCEPT ![c] = @ \cup {k}]
  BY DEF Makes
<1>2. [d EXCEPT !.commit_counter = k + 1, !.rand_counter = rand]
        \in ClientStates
  <2>1. k + 1 \in 0 .. MaxCounter
    BY <1>1, Setting
  <2> QED
    BY <2>1 DEF ClientStates
<1>3. clients' \in [Clients -> ClientStates]
  BY <1>1, <1>2 DEF TypeOK, ClientStates
<1>4. sending' \in [Clients -> [Threads -> Request \cup {NoRequest}]]
  BY <1>1 DEF TypeOK
<1>5. writes' \in [Clients -> SUBSET Nat]
  BY <1>1 DEF TypeOK
<1> QED
  BY <1>3, <1>4, <1>5

(* What the servers say of the master is a server. *)
LEMMA MasterIsNode ==
  ASSUME TypeOK, NEW n \in Node
  PROVE  MasterOf(n) \in Node
BY Setting DEF TypeOK, MasterOf

LEMMA TakeReplyTyped ==
  ASSUME TypeOK, NEW n \in Node, NEW c \in Clients,
         NEW type, TakeReply(n, c, type)
  PROVE  /\ Head(replies[n][c]) \in Answer
         /\ Head(replies[n][c]).type = type
         /\ replies[n][c] # <<>>
         /\ replies' \in [Node -> [Clients -> Seq(Answer)]]
<1>1. replies[n][c] \in Seq(Answer) /\ replies[n][c] # <<>>
  BY DEF TypeOK, TakeReply
<1>2. Head(replies[n][c]) \in Answer /\ Tail(replies[n][c]) \in Seq(Answer)
  BY <1>1, HeadTailProperties
<1> QED
  BY <1>1, <1>2 DEF TypeOK, TakeReply

LEMMA TakeRequestTyped ==
  ASSUME TypeOK, NEW n \in Node, NEW c \in Clients, TakeRequest(c, n)
  PROVE  /\ Head(requests[c][n]) \in Request
         /\ requests[c][n] # <<>>
         /\ requests' \in [Clients -> [Node -> Seq(Request)]]
<1>1. requests[c][n] \in Seq(Request) /\ requests[c][n] # <<>>
  BY DEF TypeOK, TakeRequest
<1>2. Head(requests[c][n]) \in Request /\ Tail(requests[c][n]) \in Seq(Request)
  BY <1>1, HeadTailProperties
<1> QED
  BY <1>1, <1>2 DEF TypeOK, TakeRequest

LEMMA TellTyped ==
  ASSUME TypeOK, NEW n \in Node, NEW c, NEW type \in {"RET", "MASTER_ID"},
         NEW k \in Nat, Tell(n, c, type, k)
  PROVE  replies' \in [Node -> [Clients -> Seq(Answer)]]
<1>1. PICK m : m = [type |-> type, counter |-> k, master |-> MasterOf(n)]
  OBVIOUS
<1>2. m \in Answer
  BY <1>1, MasterIsNode DEF Answer
<1>3. replies' = [replies EXCEPT ![n][c] = Append(@, m)]
  BY <1>1 DEF Tell
<1>4. ASSUME c \in Clients
      PROVE  Append(replies[n][c], m) \in Seq(Answer)
  BY <1>2, <1>4, AppendProperties DEF TypeOK
<1> QED
  BY <1>3, <1>4 DEF TypeOK

(* Requests are sent to servers. *)
LEMMA SentTyped ==
  ASSUME TypeOK, NEW n \in Node, NEW c \in Clients, NEW m \in Request,
         requests' = [requests EXCEPT ![c][n] = Append(@, m)]
  PROVE  requests' \in [Clients -> [Node -> Seq(Request)]]
<1>1. Append(requests[c][n], m) \in Seq(Request)
  BY AppendProperties DEF TypeOK
<1> QED
  BY <1>1 DEF TypeOK

LEMMA ValueIdNat ==
  ASSUME NEW c \in Nat, NEW k \in Nat
  PROVE  ValueId(c, k) \in Nat
BY Setting DEF ValueId

LEMMA CounterOfNat ==
  ASSUME NEW id \in Nat
  PROVE  CounterOf(id) \in Nat
BY Setting DEF CounterOf

LEMMA InitTyped == Init => TypeOK
<1> SUFFICES ASSUME Init PROVE TypeOK
  OBVIOUS
<1>1. \A S : <<>> \in Seq(S)
  BY EmptySeq
<1> QED
  BY <1>1, Setting DEF Init, TypeOK

LEMMA ClientTyped ==
  TypeOK => /\ clients \in [Clients -> ClientStates]
            /\ \A c \in Clients : clients[c] \in ClientStates
BY DEF TypeOK, ClientStates

LEMMA NextTyped == TypeOK /\ [Next]_vars => TypeOK'
<1> SUFFICES ASSUME TypeOK, [Next]_vars PROVE TypeOK'
  OBVIOUS
<1> DEFINE
      T1 == clients' \in [Clients -> ClientStates]
      T2 == sending' \in [Clients -> [Threads -> Request \cup {NoRequest}]]
      T3 == requests' \in [Clients -> [Node -> Seq(Request)]]
      T4 == views' \in [Node -> DOMAIN Masters]
      T5 == pending' \in [Node -> SUBSET Nat]
      T6 == replies' \in [Node -> [Clients -> Seq(Answer)]]
      T7 == writes' \in [Clients -> SUBSET Nat]
      T8 == committed' \in Seq(Clients \X Nat)
      T9 == answered' \in [Clients -> SUBSET Nat]
<1>1. T1 /\ T2 /\ T3 /\ T4 /\ T5 /\ T6 /\ T7 /\ T8 /\ T9 => TypeOK'
  BY DEF TypeOK, ClientStates
<1>2. /\ UNCHANGED clients => T1
      /\ UNCHANGED sending => T2
      /\ UNCHANGED requests => T3
      /\ UNCHANGED views => T4
      /\ UNCHANGED pending => T5
      /\ UNCHANGED replies => T6
      /\ UNCHANGED writes => T7
      /\ UNCHANGED committed => T8
      /\ UNCHANGED answered => T9
  BY DEF TypeOK, ClientStates
<1> HIDE DEF T1, T2, T3, T4, T5, T6, T7, T8, T9
<1>3. CASE UNCHANGED vars
  BY <1>1, <1>2, <1>3 DEF vars
<1>4. ASSUME NEW c \in Clients, Start(c) PROVE TypeOK'
  <2>1. PICK d : d = [clients[c] EXCEPT !.started = @ + 1]
    OBVIOUS
  <2>2. clients[c] \in ClientStates /\ clients[c].started + 1 \in 0 .. Window
    BY <1>4, Setting, ClientTyped DEF Start, ClientStates
  <2>3. d \in ClientStates
    BY <2>1, <2>2 DEF ClientStates
  <2>4. Make(c, "main", d)
    BY <1>4, <2>1 DEF Start
  <2>5. Makes(c, "main", d)
    BY <2>3, <2>4, MakeMakes
  <2>6. T1 /\ T2 /\ T7
    BY <2>3, <2>5, MakesTyped DEF T1, T2, T7, Threads
  <2> QED
    BY <1>1, <1>2, <1>4, <2>6 DEF Start
<1>5. ASSUME NEW c \in Clients, Finish(c) PROVE TypeOK'
  <2>1. [clients[c] EXCEPT !.done = TRUE] \in ClientStates
    BY ClientTyped DEF ClientStates
  <2>2. T1
    BY <1>5, <2>1, ClientTyped DEF Finish, T1
  <2> QED
    BY <1>1, <1>2, <1>5, <2>2 DEF Finish
<1>6. ASSUME NEW c \in Clients, NEW t \in Threads, Send(c, t) PROVE TypeOK'
  <2>1. PICK m, n : /\ m = sending[c][t]
                    /\ n = IF m.read THEN ReadNode ELSE clients[c].master_id
    OBVIOUS
  <2>2. m \in Request /\ n \in Node
    BY <1>6, <2>1, Setting, ClientTyped DEF Send, TypeOK, ClientStates
  <2>3. T3
    BY <1>6, <2>1, <2>2, SentTyped DEF Send, T3
  <2>4. T2
    BY <1>6 DEF Send, TypeOK, T2
  <2> QED
    BY <1>1, <1>2, <1>6, <2>3, <2>4 DEF Send
<1>7. ASSUME NEW c \in Clients, NEW n \in Node, Receive(c, n) PROVE TypeOK'
  <2>1. PICK m : m = Head(requests[c][n])
    OBVIOUS
  <2>2. /\ TakeRequest(c, n)
        /\ \/ HandleRead(c, n)
           \/ HandleWrite(c, n)
           \/ Redirect(c, n)
    BY <1>7 DEF Receive, HandleRead, HandleWrite, Redirect
  <2>3. m \in Request /\ m.counter \in Nat /\ T3
    BY <2>1, <2>2, TakeRequestTyped DEF Request, T3
  <2>4. T1 /\ T2 /\ T4 /\ T7 /\ T9
    BY <1>2, <2>2 DEF TakeRequest
  <2>5. CASE HandleRead(c, n)
    <3>1. T6
      BY <2>1, <2>3, <2>5, TellTyped DEF HandleRead, T6
    <3> QED
      BY <1>1, <1>2, <2>3, <2>4, <2>5, <3>1 DEF HandleRead
  <2>6. CASE HandleWrite(c, n)
    <3>1. ValueId(c, m.counter) \in Nat
      BY <2>3, Setting, ValueIdNat
    <3>2. T5
      BY <2>1, <2>6, <3>1 DEF HandleWrite, TypeOK, T5
    <3>3. <<c, m.counter>> \in Clients \X Nat
      BY <2>3
    <3>4. T8
      BY <2>1, <2>6, <3>3, AppendProperties DEF HandleWrite, TypeOK, T8
    <3> QED
      BY <1>1, <1>2, <2>3, <2>4, <2>6, <3>2, <3>4 DEF HandleWrite
  <2>7. CASE Redirect(c, n)
    <3>1. T6
      BY <2>1, <2>3, <2>7, TellTyped DEF Redirect, T6
    <3> QED
      BY <1>1, <1>2, <2>3, <2>4, <2>7, <3>1 DEF Redirect
  <2> QED
    BY <2>2, <2>5, <2>6, <2>7
<1>8. ASSUME NEW c \in Clients, NEW n \in Node, HandleRet(n, c) PROVE TypeOK'
  <2>1. TakeReply(n, c, "RET") /\ UNCHANGED requests
    BY <1>8 DEF HandleRet
  <2>2. PICK m : m = Head(replies[n][c])
    OBVIOUS
  <2>3. m \in Answer /\ T6
    BY <2>1, <2>2, TakeReplyTyped DEF T6
  <2>4. T9
    <3>1. m.counter \in Nat
      BY <2>3 DEF Answer
    <3>2. answered' = [answered EXCEPT ![c] = @ \cup {m.counter}]
      BY <1>8, <2>2 DEF HandleRet
    <3> QED
      BY <3>1, <3>2 DEF TypeOK, T9
  <2>5. T1 /\ T2 /\ T7
    <3>1. CASE Make(c, "listener", clients[c])
      <4>1. Makes(c, "listener", clients[c])
        BY <3>1, ClientTyped, MakeMakes
      <4> QED
        BY <4>1, ClientTyped, MakesTyped DEF T1, T2, T7, Threads
    <3>2. CASE UNCHANGED <<clients, sending, writes>>
      BY <1>2, <3>2
    <3> QED
      BY <1>8, <3>1, <3>2 DEF HandleRet
  <2> QED
    BY <1>1, <1>2, <2>1, <2>3, <2>4, <2>5 DEF TakeReply
<1>9. ASSUME NEW c \in Clients, NEW n \in Node, HandleMasterId(n, c)
      PROVE  TypeOK'
  <2>1. TakeReply(n, c, "MASTER_ID")
    BY <1>9 DEF HandleMasterId
  <2>2. PICK m, r : /\ m = Head(replies[n][c])
                    /\ r = [counter |-> m.counter, read |-> FALSE]
    OBVIOUS
  <2>3. m \in Answer /\ T6
    BY <2>1, <2>2, TakeReplyTyped DEF T6
  <2>4. m.master \in Node /\ r \in Request
    BY <2>2, <2>3 DEF Answer, Request
  <2>5. requests' = [requests EXCEPT ![c][m.master] = Append(@, r)]
    BY <1>9, <2>2 DEF HandleMasterId
  <2>6. T3
    BY <2>4, <2>5, SentTyped DEF T3
  <2>7. T1
    <3>1. [clients[c] EXCEPT !.master_id = m.master] \in ClientStates
      BY <2>4, ClientTyped DEF ClientStates
    <3>2. clients' =
            [clients EXCEPT ![c] = [clients[c] EXCEPT !.master_id = m.master]]
      BY <1>9, <2>2, ClientTyped DEF HandleMasterId
    <3> QED
      BY <3>1, <3>2, ClientTyped DEF T1
  <2> QED
    BY <1>1, <1>2, <1>9, <2>3, <2>6, <2>7 DEF HandleMasterId, TakeReply
<1>10. ASSUME NEW n \in Node, Committed(n) PROVE TypeOK'
  <2>1. PICK id \in pending[n] :
          /\ pending' = [pending EXCEPT ![n] = @ \ {id}]
          /\ Tell(n, ClientOf(id), "RET", CounterOf(id))
    BY <1>10 DEF Committed
  <2>2. CounterOf(id) \in Nat
    BY CounterOfNat DEF TypeOK
  <2>3. T6
    BY <2>1, <2>2, TellTyped DEF T6
  <2>4. T5
    BY <2>1 DEF TypeOK, T5
  <2> QED
    BY <1>1, <1>2, <1>10, <2>3, <2>4 DEF Committed
<1>11. ASSUME NEW n \in Node, SetMaster(n) PROVE TypeOK'
  <2>1. views[n] + 1 \in DOMAIN Masters
    BY SMTT(30), <1>11, Setting DEF SetMaster, TypeOK
  <2>2. T4
    BY <1>11, <2>1 DEF SetMaster, TypeOK, T4
  <2> QED
    BY <1>1, <1>2, <1>11, <2>2 DEF SetMaster
<1> QED
  BY <1>3, <1>4, <1>5, <1>6, <1>7, <1>8, <1>9, <1>10, <1>11
  DEF Next, HandleReply

(* A client, its queues and what servers and captains hold for it keep     *)
(* their types: no counter exceeds its bound and nobody is redirected to   *)
(* a node that is no server.                                               *)
THEOREM ClientTypeCorrect == Spec => []TypeOK
BY InitTyped, NextTyped, PTL DEF Spec

-----------------------------------------------------------------------------
(* Counting the places of a request *)

(* A set gains i elements. *)
Grows(S, T, i) ==
  IsFiniteSet(S) => IsFiniteSet(T) /\ Cardinality(T) = Cardinality(S) + i

LEMMA SameGrows == \A S : Grows(S, S, 0)
BY FS_CardinalityType DEF Grows

LEMMA AddGrows ==
  ASSUME NEW S, NEW x, x \notin S
  PROVE  Grows(S, S \cup {x}, 1)
BY FS_AddElement DEF Grows

LEMMA RemoveGrows ==
  ASSUME NEW S, NEW x \in S
  PROVE  Grows(S, S \ {x}, -1)
<1> SUFFICES ASSUME IsFiniteSet(S)
             PROVE  /\ IsFiniteSet(S \ {x})
                    /\ Cardinality(S \ {x}) = Cardinality(S) + -1
  BY DEF Grows
<1>1. Cardinality(S) \in Nat
  BY FS_CardinalityType
<1> QED
  BY <1>1, FS_RemoveElement

LEMMA SpotsIn ==
  ASSUME NEW queues, NEW k, NEW x
  PROVE  x \in Spots(queues, k) <=>
           \E n \in Node : \E i \in DOMAIN queues[n] :
             x = <<n, i>> /\ queues[n][i].counter = k
BY DEF Spots

(* One message is added to a queue. *)
LEMMA SpotsAdded ==
  ASSUME NEW X, NEW old \in [Node -> Seq(X)], NEW new \in [Node -> Seq(X)],
         NEW n \in Node, NEW m \in X, new[n] = Append(old[n], m),
         \A a \in Node \ {n} : new[a] = old[a], NEW k
  PROVE  Grows(Spots(old, k), Spots(new, k), IF m.counter = k THEN 1 ELSE 0)
<1>1. PICK S, T, q, r : /\ S = Spots(old, k) /\ T = Spots(new, k)
                        /\ q = old[n] /\ r = new[n]
  OBVIOUS
<1>2. PICK l : l = Len(q)
  OBVIOUS
<1>3. /\ q \in Seq(X) /\ l \in Nat /\ DOMAIN q = 1 .. l
      /\ DOMAIN r = 1 .. l + 1
      /\ \A i \in 1 .. l : r[i] = q[i]
      /\ r[l + 1] = m
  <2>1. q \in Seq(X) /\ r = Append(q, m)
    BY <1>1
  <2>2. r \in Seq(X) /\ Len(r) = l + 1
        /\ (\A i \in 1 .. l : r[i] = q[i]) /\ r[l + 1] = m
    BY <1>2, <2>1, AppendProperties
  <2> QED
    BY <1>2, <2>1, <2>2, LenProperties
<1>4. \A i : i \in 1 .. l + 1 <=> i \in 1 .. l \/ i = l + 1
  BY <1>3
<1>5. <<n, l + 1>> \notin S
  <2>1. ~(l + 1 \in 1 .. l)
    BY <1>3
  <2> QED
    BY <1>1, <1>3, <2>1, SpotsIn
<1>6. ASSUME NEW x
      PROVE  x \in T <=> x \in S \/ (m.counter = k /\ x = <<n, l + 1>>)
  <2>1. ASSUME NEW a \in Node, NEW i
        PROVE  i \in DOMAIN new[a] /\ new[a][i].counter = k
               <=> \/ i \in DOMAIN old[a] /\ old[a][i].counter = k
                   \/ a = n /\ i = l + 1 /\ m.counter = k
    <3>1. CASE a # n
      BY <3>1
    <3>2. CASE a = n
      <4>1. ASSUME i \in 1 .. l PROVE r[i] = q[i] /\ i # l + 1
        BY <1>3, <4>1
      <4> QED
        BY <1>1, <1>3, <1>4, <3>2, <4>1
    <3> QED
      BY <3>1, <3>2
  <2> QED
    BY <1>1, <2>1, SpotsIn
<1>7. Grows(S, T, IF m.counter = k THEN 1 ELSE 0)
  <2>1. CASE m.counter = k
    <3>1. T = S \cup {<<n, l + 1>>}
      BY <1>6, <2>1
    <3> QED
      BY <1>5, <2>1, <3>1, AddGrows
  <2>2. CASE m.counter # k
    <3>1. T = S
      BY <1>6, <2>2
    <3> QED
      BY <2>2, <3>1, SameGrows
  <2> QED
    BY <2>1, <2>2
<1> QED
  BY <1>1, <1>7

(* The first message is taken from a queue: all others move up. *)
LEMMA SpotsTaken ==
  ASSUME NEW X, NEW old \in [Node -> Seq(X)], NEW new \in [Node -> Seq(X)],
         NEW n \in Node, old[n] # <<>>, new[n] = Tail(old[n]),
         \A a \in Node \ {n} : new[a] = old[a], NEW k
  PROVE  Grows(Spots(old, k), Spots(new, k),
               IF Head(old[n]).counter = k THEN -1 ELSE 0)
<1>1. PICK S, T, U, q, r, m : /\ S = Spots(old, k) /\ T = Spots(new, k)
                              /\ U = S \ {<<n, 1>>}
                              /\ q = old[n] /\ r = new[n] /\ m = Head(q)
  OBVIOUS
<1>2. PICK l : l = Len(r)
  OBVIOUS
<1>3. /\ q \in Seq(X) /\ l \in Nat /\ DOMAIN q = 1 .. l + 1
      /\ DOMAIN r = 1 .. l
      /\ \A i \in 1 .. l : r[i] = q[i + 1]
      /\ q[1] = m
  <2>1. q \in Seq(X) /\ r = Tail(q) /\ q # <<>>
    BY <1>1
  <2>2. /\ r \in Seq(X) /\ Len(r) = Len(q) - 1
        /\ \A i \in 1 .. Len(r) : r[i] = q[i + 1]
    BY <2>1, HeadTailProperties
  <2>3. Len(q) \in Nat /\ l \in Nat /\ DOMAIN q = 1 .. Len(q)
        /\ DOMAIN r = 1 .. l
    BY <1>2, <2>1, <2>2, LenProperties
  <2>4. Len(q) = l + 1
    BY <1>2, <2>2, <2>3
  <2>5. q[1] = m
    BY <1>1
  <2> QED
    BY <1>2, <2>1, <2>2, <2>3, <2>4, <2>5
<1>4. \A i \in 1 .. l + 1 : i = 1 \/ (i - 1 \in 1 .. l /\ (i - 1) + 1 = i)
  BY <1>3
<1>5. \A i \in 1 .. l : i + 1 \in 1 .. l + 1 /\ i + 1 # 1 /\ (i + 1) - 1 = i
  BY <1>3
<1>6. <<n, 1>> \in S <=> m.counter = k
  <2>1. 1 \in 1 .. l + 1
    BY <1>3
  <2> QED
    BY <1>1, <1>3, <2>1, SpotsIn
<1>7. Grows(S, U, IF m.counter = k THEN -1 ELSE 0)
  <2>1. CASE m.counter = k
    BY <1>1, <1>6, <2>1, RemoveGrows
  <2>2. CASE m.counter # k
    <3>1. U = S
      BY <1>1, <1>6, <2>2
    <3> QED
      BY <2>2, <3>1, SameGrows
  <2> QED
    BY <2>1, <2>2
<1>8. ExistsBijection(U, T)
  <2>1. PICK f : f = [x \in U |-> IF x[1] = n THEN <<n, x[2] - 1>> ELSE x]
    OBVIOUS
  <2>2. ASSUME NEW x \in U
        PROVE  \E a \in Node : \E i \in DOMAIN old[a] :
                 /\ x = <<a, i>> /\ old[a][i].counter = k
                 /\ a = n => i # 1
    BY <1>1, SpotsIn
  <2>3. ASSUME NEW x \in U PROVE f[x] \in T
    <3>1a. PICK a \in Node : \E i \in DOMAIN old[a] :
             x = <<a, i>> /\ old[a][i].counter = k /\ (a = n => i # 1)
      BY <2>2
    <3>1. PICK i \in DOMAIN old[a] :
            x = <<a, i>> /\ old[a][i].counter = k /\ (a = n => i # 1)
      BY <3>1a
    <3>2. CASE a # n
      <4>1. f[x] = <<a, i>> /\ new[a] = old[a]
        BY <2>1, <3>1, <3>2
      <4> QED
        BY <1>1, <3>1, <4>1, SpotsIn
    <3>3. CASE a = n
      <4>1. f[x] = <<n, i - 1>>
        BY <2>1, <3>1, <3>3
      <4>2. i - 1 \in 1 .. l /\ (i - 1) + 1 = i
        BY <1>1, <1>3, <1>4, <3>1, <3>3
      <4>3. r[i - 1].counter = k
        BY <1>1, <1>3, <3>1, <3>3, <4>2
      <4> QED
        BY <1>1, <1>3, <4>1, <4>2, <4>3, SpotsIn
    <3> QED
      BY <3>2, <3>3
  <2>4. ASSUME NEW x \in U, NEW y \in U, f[x] = f[y] PROVE x = y
    <3>1a. PICK a \in Node : \E i \in DOMAIN old[a] :
             x = <<a, i>> /\ old[a][i].counter = k /\ (a = n => i # 1)
      BY <2>2
    <3>1. PICK i \in DOMAIN old[a] :
            x = <<a, i>> /\ old[a][i].counter = k /\ (a = n => i # 1)
      BY <3>1a
    <3>2b. PICK b \in Node : \E j \in DOMAIN old[b] :
             y = <<b, j>> /\ old[b][j].counter = k /\ (b = n => j # 1)
      BY <2>2
    <3>2. PICK j \in DOMAIN old[b] :
            y = <<b, j>> /\ old[b][j].counter = k /\ (b = n => j # 1)
      BY <3>2b
    <3>3. /\ f[x] = IF a = n THEN <<n, i - 1>> ELSE <<a, i>>
          /\ f[y] = IF b = n THEN <<n, j - 1>> ELSE <<b, j>>
      BY <2>1, <3>1, <3>2
    <3>4. a = b
      <4>1. f[x][1] = a /\ f[y][1] = b
        BY <3>3
      <4> QED
        BY <2>4, <4>1
    <3>5. CASE a # n
      BY <2>4, <3>1, <3>2, <3>3, <3>4, <3>5
    <3>6. CASE a = n
      <4>1. i \in 1 .. l + 1 /\ j \in 1 .. l + 1
        BY <1>1, <1>3, <3>1, <3>2, <3>4, <3>6
      <4>2. f[x][2] = i - 1 /\ f[y][2] = j - 1
        BY <3>3, <3>4, <3>6
      <4>3. i - 1 = j - 1
        BY <2>4, <4>2
      <4>4. i = j
        BY <1>3, <4>1, <4>3
      <4> QED
        BY <3>1, <3>2, <3>4, <4>4
    <3> QED
      BY <3>5, <3>6
  <2>5. ASSUME NEW y \in T PROVE \E x \in U : f[x] = y
    <3>1a. PICK a \in Node : \E i \in DOMAIN new[a] :
             y = <<a, i>> /\ new[a][i].counter = k
      BY <1>1, SpotsIn
    <3>1. PICK i \in DOMAIN new[a] : y = <<a, i>> /\ new[a][i].counter = k
      BY <3>1a
    <3>2. CASE a # n
      <4>1. y \in U
        BY <1>1, <3>1, <3>2, SpotsIn
      <4> QED
        BY <2>1, <3>1, <3>2, <4>1
    <3>3. CASE a = n
      <4>1. i \in 1 .. l /\ q[i + 1].counter = k
        BY <1>1, <1>3, <3>1, <3>3
      <4>2. i + 1 \in 1 .. l + 1 /\ i + 1 # 1 /\ (i + 1) - 1 = i
        BY <1>5, <4>1
      <4>3. <<n, i + 1>> \in S
        BY <1>1, <1>3, <4>1, <4>2, SpotsIn
      <4>4. <<n, i + 1>> \in U
        BY <1>1, <4>2, <4>3
      <4> QED
        BY <2>1, <3>1, <3>3, <4>2, <4>4
    <3> QED
      BY <3>2, <3>3
  <2>6. f \in [U -> T]
    BY <2>1, <2>3
  <2>7. f \in Injection(U, T) /\ f \in Surjection(U, T)
    BY <2>4, <2>5, <2>6 DEF Injection, IsInjective, Surjection
  <2> QED
    BY <2>7 DEF ExistsBijection, Bijection
<1>9. IsFiniteSet(U) => IsFiniteSet(T) /\ Cardinality(T) = Cardinality(U)
  BY <1>8, FS_Bijection
<1> QED
  BY <1>1, <1>7, <1>9 DEF Grows

-----------------------------------------------------------------------------
(* What each part of a step does to the places of a request *)

Hit(d, k, c, l, i) == IF d = c /\ k = l THEN i ELSE 0

LEMMA SendingMade ==
  ASSUME TypeOK, NEW c \in Clients, NEW t \in Threads, NEW m \in Request,
         sending[c][t] = NoRequest,
         sending' = [sending EXCEPT ![c][t] = m],
         NEW d \in Clients, NEW k \in Nat
  PROVE  Grows(InSending(d, k), InSending(d, k)', Hit(d, k, c, m.counter, 1))
<1>1. PICK S, T : S = InSending(d, k) /\ T = InSending(d, k)'
  OBVIOUS
<1>2. \A u \in Threads : u \in S <=> sending[d][u].counter = k
  BY <1>1 DEF InSending
<1>3. \A u \in Threads : u \in T <=> sending'[d][u].counter = k
  BY <1>1 DEF InSending
<1>4. \A u \in Threads :
        sending'[d][u] = IF d = c /\ u = t THEN m ELSE sending[d][u]
  BY DEF TypeOK
<1>5. S \subseteq Threads /\ T \subseteq Threads
  BY <1>1 DEF InSending
<1>6. sending[c][t].counter # k
  BY NoRequestOK
<1>7. CASE d = c /\ k = m.counter
  <2>1. T = S \cup {t} /\ t \notin S
    BY <1>2, <1>3, <1>4, <1>5, <1>6, <1>7
  <2> QED
    BY <1>1, <1>7, <2>1, AddGrows DEF Hit
<1>8. CASE ~(d = c /\ k = m.counter)
  <2>1. \A u \in Threads : u \in T <=> u \in S
    BY <1>2, <1>3, <1>4, <1>6, <1>8
  <2>2. T = S
    BY <1>5, <2>1
  <2> QED
    BY <1>1, <1>8, <2>2, SameGrows DEF Hit
<1> QED
  BY <1>7, <1>8

LEMMA SendingSent ==
  ASSUME TypeOK, NEW c \in Clients, NEW t \in Threads, NEW m,
         m = sending[c][t],
         sending' = [sending EXCEPT ![c][t] = NoRequest],
         NEW d \in Clients, NEW k \in Nat
  PROVE  Grows(InSending(d, k), InSending(d, k)', Hit(d, k, c, m.counter, -1))
<1>1. PICK S, T : S = InSending(d, k) /\ T = InSending(d, k)'
  OBVIOUS
<1>2. \A u \in Threads : u \in S <=> sending[d][u].counter = k
  BY <1>1 DEF InSending
<1>3. \A u \in Threads : u \in T <=> sending'[d][u].counter = k
  BY <1>1 DEF InSending
<1>4. \A u \in Threads :
        sending'[d][u] = IF d = c /\ u = t THEN NoRequest ELSE sending[d][u]
  BY DEF TypeOK
<1>5. S \subseteq Threads /\ T \subseteq Threads
  BY <1>1 DEF InSending
<1>6. NoRequest.counter # k
  BY NoRequestOK
<1>7. CASE d = c /\ k = m.counter
  <2>1. T = S \ {t} /\ t \in S
    BY <1>2, <1>3, <1>4, <1>5, <1>6, <1>7
  <2> QED
    BY <1>1, <1>7, <2>1, RemoveGrows DEF Hit
<1>8. CASE ~(d = c /\ k = m.counter)
  <2>1. \A u \in Threads : u \in T <=> u \in S
    BY <1>2, <1>3, <1>4, <1>6, <1>8
  <2>2. T = S
    BY <1>5, <2>1
  <2> QED
    BY <1>1, <1>8, <2>2, SameGrows DEF Hit
<1> QED
  BY <1>7, <1>8

LEMMA RequestsAdded ==
  ASSUME TypeOK, TypeOK', NEW c \in Clients, NEW n \in Node,
         NEW m \in Request,
         requests' = [requests EXCEPT ![c][n] = Append(@, m)],
         NEW d \in Clients, NEW k
  PROVE  Grows(InRequests(d, k), InRequests(d, k)', Hit(d, k, c, m.counter, 1))
<1>1. PICK old, new : old = requests[d] /\ new = requests'[d]
  OBVIOUS
<1>2. old \in [Node -> Seq(Request)] /\ new \in [Node -> Seq(Request)]
  BY <1>1 DEF TypeOK
<1>3. InRequests(d, k) = Spots(old, k) /\ InRequests(d, k)' = Spots(new, k)
  BY <1>1 DEF InRequests, Spots
<1>4. CASE d = c
  <2>1. new[n] = Append(old[n], m) /\ \A a \in Node \ {n} : new[a] = old[a]
    BY <1>1, <1>4 DEF TypeOK
  <2>2. Grows(Spots(old, k), Spots(new, k), IF m.counter = k THEN 1 ELSE 0)
    BY ZenonT(60), <1>2, <2>1, SpotsAdded
  <2>3. Hit(d, k, c, m.counter, 1) = IF m.counter = k THEN 1 ELSE 0
    BY <1>4 DEF Hit
  <2> QED
    BY <1>3, <2>2, <2>3
<1>5. CASE d # c
  <2>1. new = old
    BY <1>1, <1>5 DEF TypeOK
  <2> QED
    BY <1>3, <1>5, <2>1, SameGrows DEF Hit
<1> QED
  BY <1>4, <1>5

LEMMA RequestsTaken ==
  ASSUME TypeOK, TypeOK', NEW c \in Clients, NEW n \in Node,
         NEW m, m = Head(requests[c][n]), TakeRequest(c, n),
         NEW d \in Clients, NEW k
  PROVE  Grows(InRequests(d, k), InRequests(d, k)', Hit(d, k, c, m.counter, -1))
<1>1. PICK old, new : old = requests[d] /\ new = requests'[d]
  OBVIOUS
<1>2. old \in [Node -> Seq(Request)] /\ new \in [Node -> Seq(Request)]
  BY <1>1 DEF TypeOK
<1>3. InRequests(d, k) = Spots(old, k) /\ InRequests(d, k)' = Spots(new, k)
  BY <1>1 DEF InRequests, Spots
<1>4. CASE d = c
  <2>1. /\ old[n] # <<>> /\ new[n] = Tail(old[n]) /\ m = Head(old[n])
        /\ \A a \in Node \ {n} : new[a] = old[a]
    BY <1>1, <1>4 DEF TakeRequest, TypeOK
  <2>2. Grows(Spots(old, k), Spots(new, k), IF m.counter = k THEN -1 ELSE 0)
    <3>1. Grows(Spots(old, k), Spots(new, k),
                IF Head(old[n]).counter = k THEN -1 ELSE 0)
      BY <1>2, <2>1, SpotsTaken
    <3> QED
      BY <2>1, <3>1
  <2>3. Hit(d, k, c, m.counter, -1) = IF m.counter = k THEN -1 ELSE 0
    BY <1>4 DEF Hit
  <2> QED
    BY <1>3, <2>2, <2>3
<1>5. CASE d # c
  <2>1. new = old
    BY <1>1, <1>5 DEF TakeRequest, TypeOK
  <2> QED
    BY <1>3, <1>5, <2>1, SameGrows DEF Hit
<1> QED
  BY <1>4, <1>5

LEMMA RepliesAdded ==
  ASSUME TypeOK, TypeOK', NEW c \in Clients, NEW n \in Node, NEW m \in Answer,
         replies' = [replies EXCEPT ![n][c] = Append(@, m)],
         NEW d \in Clients, NEW k
  PROVE  Grows(InReplies(d, k), InReplies(d, k)', Hit(d, k, c, m.counter, 1))
<1>1. PICK old, new : /\ old = [a \in Node |-> replies[a][d]]
                      /\ new = [a \in Node |-> replies'[a][d]]
  OBVIOUS
<1>2. old \in [Node -> Seq(Answer)] /\ new \in [Node -> Seq(Answer)]
  <2>1. \A a \in Node : replies[a][d] \in Seq(Answer)
    BY DEF TypeOK
  <2>2. \A a \in Node : replies'[a][d] \in Seq(Answer)
    BY DEF TypeOK
  <2> QED
    BY <1>1, <2>1, <2>2
<1>3. InReplies(d, k) = Spots(old, k) /\ InReplies(d, k)' = Spots(new, k)
  BY <1>1 DEF InReplies, Spots
<1>4. CASE d = c
  <2>1. new[n] = Append(old[n], m) /\ \A a \in Node \ {n} : new[a] = old[a]
    BY <1>1, <1>4 DEF TypeOK
  <2>2. Grows(Spots(old, k), Spots(new, k), IF m.counter = k THEN 1 ELSE 0)
    BY ZenonT(60), <1>2, <2>1, SpotsAdded
  <2>3. Hit(d, k, c, m.counter, 1) = IF m.counter = k THEN 1 ELSE 0
    BY <1>4 DEF Hit
  <2> QED
    BY <1>3, <2>2, <2>3
<1>5. CASE d # c
  <2>1. new = old
    BY <1>1, <1>5 DEF TypeOK
  <2> QED
    BY <1>3, <1>5, <2>1, SameGrows DEF Hit
<1> QED
  BY <1>4, <1>5

LEMMA RepliesTaken ==
  ASSUME TypeOK, TypeOK', NEW c \in Clients, NEW n \in Node,
         NEW m, m = Head(replies[n][c]), NEW type, TakeReply(n, c, type),
         NEW d \in Clients, NEW k
  PROVE  Grows(InReplies(d, k), InReplies(d, k)', Hit(d, k, c, m.counter, -1))
<1>1. PICK old, new : /\ old = [a \in Node |-> replies[a][d]]
                      /\ new = [a \in Node |-> replies'[a][d]]
  OBVIOUS
<1>2. old \in [Node -> Seq(Answer)] /\ new \in [Node -> Seq(Answer)]
  <2>1. \A a \in Node : replies[a][d] \in Seq(Answer)
    BY DEF TypeOK
  <2>2. \A a \in Node : replies'[a][d] \in Seq(Answer)
    BY DEF TypeOK
  <2> QED
    BY <1>1, <2>1, <2>2
<1>3. InReplies(d, k) = Spots(old, k) /\ InReplies(d, k)' = Spots(new, k)
  BY <1>1 DEF InReplies, Spots
<1>4. CASE d = c
  <2>1. /\ old[n] # <<>> /\ new[n] = Tail(old[n]) /\ m = Head(old[n])
        /\ \A a \in Node \ {n} : new[a] = old[a]
    BY <1>1, <1>4 DEF TakeReply, TypeOK
  <2>2. Grows(Spots(old, k), Spots(new, k), IF m.counter = k THEN -1 ELSE 0)
    <3>1. Grows(Spots(old, k), Spots(new, k),
                IF Head(old[n]).counter = k THEN -1 ELSE 0)
      BY <1>2, <2>1, SpotsTaken
    <3> QED
      BY <2>1, <3>1
  <2>3. Hit(d, k, c, m.counter, -1) = IF m.counter = k THEN -1 ELSE 0
    BY <1>4 DEF Hit
  <2> QED
    BY <1>3, <2>2, <2>3
<1>5. CASE d # c
  <2>1. new = old
    BY <1>1, <1>5 DEF TakeReply, TypeOK
  <2> QED
    BY <1>3, <1>5, <2>1, SameGrows DEF Hit
<1> QED
  BY <1>4, <1>5

(* The value ids have room for all the counters. *)
CountersFit == MaxCounter =< CounterSpan

LEMMA ValueIdInverse ==
  ASSUME CountersFit, NEW c \in Clients, NEW k \in 0 .. MaxCounter - 1
  PROVE  ClientOf(ValueId(c, k)) = c /\ CounterOf(ValueId(c, k)) = k
<1>1. PICK s \in Nat : s = CounterSpan
  BY Setting
<1>2. c \in Nat /\ c < NodeIds /\ k \in Nat /\ k < s
  BY <1>1, Setting DEF CountersFit
<1>3. (c * s + k) \div s = c /\ (c * s + k) % s = k
  BY <1>2
<1>4. c % NodeIds = c
  BY <1>2 DEF NodeIds
<1> QED
  BY <1>1, <1>3, <1>4 DEF ClientOf, CounterOf, ValueId

LEMMA ValueIdsDiffer ==
  ASSUME CountersFit, NEW c \in Clients, NEW d \in Clients,
         NEW k \in 0 .. MaxCounter - 1, NEW l \in 0 .. MaxCounter - 1,
         ValueId(c, k) = ValueId(d, l)
  PROVE  c = d /\ k = l
<1>1. ClientOf(ValueId(c, k)) = c /\ CounterOf(ValueId(c, k)) = k
  BY ValueIdInverse
<1>2. ClientOf(ValueId(d, l)) = d /\ CounterOf(ValueId(d, l)) = l
  BY ValueIdInverse
<1> QED
  BY <1>1, <1>2

Counter == 0 .. MaxCounter - 1

LEMMA CounterNat == \A k \in Counter : k \in Nat
BY Setting DEF Counter

LEMMA PendingAdded ==
  ASSUME TypeOK, CountersFit, NEW c \in Clients, NEW n \in Node,
         NEW l \in Counter, ValueId(c, l) \notin pending[n],
         pending' = [pending EXCEPT ![n] = @ \cup {ValueId(c, l)}],
         NEW d \in Clients, NEW k \in Counter
  PROVE  Grows(InPending(d, k), InPending(d, k)', Hit(d, k, c, l, 1))
<1>1. PICK S, T, id, x : /\ S = InPending(d, k) /\ T = InPending(d, k)'
                         /\ id = ValueId(c, l) /\ x = ValueId(d, k)
  OBVIOUS
<1>2. \A a \in Node : a \in S <=> x \in pending[a]
  BY <1>1 DEF InPending
<1>3. \A a \in Node : a \in T <=> x \in pending'[a]
  BY <1>1 DEF InPending, ValueId
<1>4. \A a \in Node : x \in pending'[a] <=>
                         x \in pending[a] \/ (a = n /\ x = id)
  BY <1>1 DEF TypeOK
<1>5. S \subseteq Node /\ T \subseteq Node
  BY <1>1 DEF InPending
<1>6. x = id <=> d = c /\ k = l
  BY <1>1, ValueIdsDiffer DEF Counter
<1>7. CASE d = c /\ k = l
  <2>1. T = S \cup {n} /\ n \notin S
    BY <1>1, <1>2, <1>3, <1>4, <1>5, <1>6, <1>7
  <2> QED
    BY <1>1, <1>7, <2>1, AddGrows DEF Hit
<1>8. CASE ~(d = c /\ k = l)
  <2>1. ASSUME NEW a \in Node PROVE a \in T <=> a \in S
    <3>1. x \in pending'[a] <=> x \in pending[a]
      BY <1>4, <1>6, <1>8
    <3> QED
      BY <1>2, <1>3, <2>1, <3>1
  <2>2. T = S
    BY <1>5, <2>1
  <2> QED
    BY <1>1, <1>8, <2>2, SameGrows DEF Hit
<1> QED
  BY <1>7, <1>8

LEMMA PendingTaken ==
  ASSUME TypeOK, CountersFit, NEW c \in Clients, NEW n \in Node,
         NEW l \in Counter, ValueId(c, l) \in pending[n],
         pending' = [pending EXCEPT ![n] = @ \ {ValueId(c, l)}],
         NEW d \in Clients, NEW k \in Counter
  PROVE  Grows(InPending(d, k), InPending(d, k)', Hit(d, k, c, l, -1))
<1>1. PICK S, T, id, x : /\ S = InPending(d, k) /\ T = InPending(d, k)'
                         /\ id = ValueId(c, l) /\ x = ValueId(d, k)
  OBVIOUS
<1>2. \A a \in Node : a \in S <=> x \in pending[a]
  BY <1>1 DEF InPending
<1>3. \A a \in Node : a \in T <=> x \in pending'[a]
  BY <1>1 DEF InPending, ValueId
<1>4. \A a \in Node : x \in pending'[a] <=>
                         x \in pending[a] /\ ~(a = n /\ x = id)
  BY <1>1 DEF TypeOK
<1>5. S \subseteq Node /\ T \subseteq Node
  BY <1>1 DEF InPending
<1>6. x = id <=> d = c /\ k = l
  BY <1>1, ValueIdsDiffer DEF Counter
<1>7. CASE d = c /\ k = l
  <2>1. T = S \ {n} /\ n \in S
    BY <1>1, <1>2, <1>3, <1>4, <1>5, <1>6, <1>7
  <2> QED
    BY <1>1, <1>7, <2>1, RemoveGrows DEF Hit
<1>8. CASE ~(d = c /\ k = l)
  <2>1. ASSUME NEW a \in Node PROVE a \in T <=> a \in S
    <3>1. x \in pending'[a] <=> x \in pending[a]
      BY <1>4, <1>6, <1>8
    <3> QED
      BY <1>2, <1>3, <2>1, <3>1
  <2>2. T = S
    BY <1>5, <2>1
  <2> QED
    BY <1>1, <1>8, <2>2, SameGrows DEF Hit
<1> QED
  BY <1>7, <1>8

InAnswered(c, k) == {k} \cap answered[c]

LEMMA AnsweredAdded ==
  ASSUME TypeOK, NEW c \in Clients, NEW l, l \notin answered[c],
         answered' = [answered EXCEPT ![c] = @ \cup {l}],
         NEW d \in Clients, NEW k
  PROVE  Grows(InAnswered(d, k), InAnswered(d, k)', Hit(d, k, c, l, 1))
<1>1. answered'[d] = IF d = c THEN answered[d] \cup {l} ELSE answered[d]
  BY DEF TypeOK
<1>2. CASE d = c /\ k = l
  <2>1. InAnswered(d, k)' = InAnswered(d, k) \cup {k} /\ k \notin InAnswered(d, k)
    BY <1>1, <1>2 DEF InAnswered
  <2> QED
    BY <1>2, <2>1, AddGrows DEF Hit
<1>3. CASE ~(d = c /\ k = l)
  <2>1. InAnswered(d, k)' = InAnswered(d, k)
    BY <1>1, <1>3 DEF InAnswered
  <2> QED
    BY <1>3, <2>1, SameGrows DEF Hit
<1> QED
  BY <1>2, <1>3

(* What a step leaves alone *)
LEMMA PartsKept ==
  ASSUME NEW d, NEW k
  PROVE  /\ UNCHANGED sending => Grows(InSending(d, k), InSending(d, k)', 0)
         /\ UNCHANGED requests => Grows(InRequests(d, k), InRequests(d, k)', 0)
         /\ UNCHANGED replies => Grows(InReplies(d, k), InReplies(d, k)', 0)
         /\ UNCHANGED pending => Grows(InPending(d, k), InPending(d, k)', 0)
         /\ UNCHANGED answered => Grows(InAnswered(d, k), InAnswered(d, k)', 0)
<1>1. UNCHANGED sending => InSending(d, k)' = InSending(d, k)
  BY DEF InSending
<1>2. UNCHANGED requests => InRequests(d, k)' = InRequests(d, k)
  BY DEF InRequests, Spots
<1>3. UNCHANGED replies => InReplies(d, k)' = InReplies(d, k)
  BY DEF InReplies, Spots
<1>4. UNCHANGED pending => InPending(d, k)' = InPending(d, k)
  BY DEF InPending, ValueId
<1>5. UNCHANGED answered => InAnswered(d, k)' = InAnswered(d, k)
  BY DEF InAnswered
<1> QED
  BY <1>1, <1>2, <1>3, <1>4, <1>5, SameGrows

-----------------------------------------------------------------------------
(* The invariant *)

Due(c, k) == IF k < clients[c].commit_counter THEN 1 ELSE 0

Countable(c, k) ==
  /\ IsFiniteSet(InSending(c, k)) /\ IsFiniteSet(InRequests(c, k))
  /\ IsFiniteSet(InReplies(c, k)) /\ IsFiniteSet(InPending(c, k))
  /\ IsFiniteSet(InAnswered(c, k))

Counted == \A c \in Clients : \A k \in Counter :
  Countable(c, k) /\ Copies(c, k) = Due(c, k)

(* The changes of the parts add up to what is due. *)
Balanced(d, k) == \E s, q, r, p, a \in Int :
  /\ Grows(InSending(d, k), InSending(d, k)', s)
  /\ Grows(InRequests(d, k), InRequests(d, k)', q)
  /\ Grows(InReplies(d, k), InReplies(d, k)', r)
  /\ Grows(InPending(d, k), InPending(d, k)', p)
  /\ Grows(InAnswered(d, k), InAnswered(d, k)', a)
  /\ Due(d, k)' = Due(d, k) + s + q + r + p + a

LEMMA BalancedCounted ==
  ASSUME Counted, \A d \in Clients : \A k \in Counter : Balanced(d, k)
  PROVE  Counted'
<1>1. ASSUME NEW c \in Clients, NEW k \in Counter
      PROVE  Countable(c, k)' /\ Copies(c, k)' = Due(c, k)'
  <2>1. PICK s, q, r, p, a \in Int :
          /\ Grows(InSending(c, k), InSending(c, k)', s)
          /\ Grows(InRequests(c, k), InRequests(c, k)', q)
          /\ Grows(InReplies(c, k), InReplies(c, k)', r)
          /\ Grows(InPending(c, k), InPending(c, k)', p)
          /\ Grows(InAnswered(c, k), InAnswered(c, k)', a)
          /\ Due(c, k)' = Due(c, k) + s + q + r + p + a
    BY DEF Balanced
  <2>2. Countable(c, k) /\ Copies(c, k) = Due(c, k)
    BY DEF Counted
  <2>3. Countable(c, k)'
    BY <2>1, <2>2 DEF Countable, Grows
  <2>4. PICK s1, q1, r1, p1, a1 \in Nat :
          /\ s1 = Cardinality(InSending(c, k))
          /\ q1 = Cardinality(InRequests(c, k))
          /\ r1 = Cardinality(InReplies(c, k))
          /\ p1 = Cardinality(InPending(c, k))
          /\ a1 = Cardinality(InAnswered(c, k))
    BY <2>2, FS_CardinalityType DEF Countable
  <2>5. /\ Cardinality(InSending(c, k)') = s1 + s
        /\ Cardinality(InRequests(c, k)') = q1 + q
        /\ Cardinality(InReplies(c, k)') = r1 + r
        /\ Cardinality(InPending(c, k)') = p1 + p
        /\ Cardinality(InAnswered(c, k)') = a1 + a
    BY <2>1, <2>2, <2>4 DEF Countable, Grows
  <2>6. Copies(c, k) = s1 + q1 + r1 + p1 + a1
    BY <2>4 DEF Copies, InAnswered
  <2>7. Copies(c, k)' = (s1 + s) + (q1 + q) + (r1 + r) + (p1 + p) + (a1 + a)
    BY <2>5 DEF Copies, InAnswered
  <2>8. Due(c, k) \in Int
    BY DEF Due
  <2> QED
    BY <2>1, <2>2, <2>3, <2>6, <2>7, <2>8
<1> QED
  BY <1>1, SMT DEF Counted, Counter

(* Of five numbers that make at most one, at most one is not zero. *)
LEMMA OneOfFive ==
  ASSUME NEW s \in Nat, NEW q \in Nat, NEW r \in Nat, NEW p \in Nat,
         NEW a \in Nat, s + q + r + p + a =< 1
  PROVE  /\ s = 0 \/ s = 1
         /\ q = 0 \/ q = 1
         /\ r = 0 \/ r = 1
         /\ p = 0 \/ p = 1
         /\ s # 0 => q = 0 /\ r = 0 /\ p = 0 /\ a = 0
         /\ q # 0 => s = 0 /\ r = 0 /\ p = 0 /\ a = 0
         /\ r # 0 => s = 0 /\ q = 0 /\ p = 0 /\ a = 0
         /\ p # 0 => s = 0 /\ q = 0 /\ r = 0 /\ a = 0
         /\ a # 0 => s = 0 /\ q = 0 /\ r = 0 /\ p = 0
         /\ s + q + r + p + a = 0 =>
              s = 0 /\ q = 0 /\ r = 0 /\ p = 0 /\ a = 0
<1>1. s =< 1 /\ q =< 1 /\ r =< 1 /\ p =< 1 /\ a =< 1
  OBVIOUS
<1>2. s # 0 => q = 0 /\ r = 0 /\ p = 0 /\ a = 0
  OBVIOUS
<1>3. q # 0 => s = 0 /\ r = 0 /\ p = 0 /\ a = 0
  OBVIOUS
<1>4. r # 0 => s = 0 /\ q = 0 /\ p = 0 /\ a = 0
  OBVIOUS
<1>5. p # 0 => s = 0 /\ q = 0 /\ r = 0 /\ a = 0
  OBVIOUS
<1>6. a # 0 => s = 0 /\ q = 0 /\ r = 0 /\ p = 0
  OBVIOUS
<1>7. s + q + r + p + a = 0 => s = 0 /\ q = 0 /\ r = 0 /\ p = 0 /\ a = 0
  OBVIOUS
<1> QED
  BY <1>1, <1>2, <1>3, <1>4, <1>5, <1>6, <1>7

(* A request is in one place, and one that was not made is nowhere. *)
LEMMA OnePlace ==
  ASSUME TypeOK, Counted, NEW c \in Clients, NEW k \in Counter
  PROVE  LET S == InSending(c, k)   Q == InRequests(c, k)
             R == InReplies(c, k)   P == InPending(c, k)
             A == InAnswered(c, k)
         IN  /\ S # {} => Q = {} /\ R = {} /\ P = {} /\ A = {}
             /\ Q # {} => S = {} /\ R = {} /\ P = {} /\ A = {}
             /\ R # {} => S = {} /\ Q = {} /\ P = {} /\ A = {}
             /\ P # {} => S = {} /\ Q = {} /\ R = {} /\ A = {}
             /\ A # {} => S = {} /\ Q = {} /\ R = {} /\ P = {}
             /\ \A x, y \in S : x = y
             /\ \A x, y \in Q : x = y
             /\ \A x, y \in R : x = y
             /\ \A x, y \in P : x = y
             /\ ~(k < clients[c].commit_counter) =>
                  S = {} /\ Q = {} /\ R = {} /\ P = {} /\ A = {}
<1>1. PICK S, Q, R, P, A :
        /\ S = InSending(c, k) /\ Q = InRequests(c, k) /\ R = InReplies(c, k)
        /\ P = InPending(c, k) /\ A = InAnswered(c, k)
  OBVIOUS
<1>2. /\ IsFiniteSet(S) /\ IsFiniteSet(Q) /\ IsFiniteSet(R)
      /\ IsFiniteSet(P) /\ IsFiniteSet(A) /\ Copies(c, k) = Due(c, k)
  BY <1>1 DEF Counted, Countable
<1>3. PICK s, q, r, p, a \in Nat :
        /\ s = Cardinality(S) /\ q = Cardinality(Q) /\ r = Cardinality(R)
        /\ p = Cardinality(P) /\ a = Cardinality(A)
  BY <1>2, FS_CardinalityType
<1>4. s + q + r + p + a = Due(c, k)
  BY <1>1, <1>2, <1>3 DEF Copies, InAnswered
<1>5. /\ s + q + r + p + a =< 1
      /\ ~(k < clients[c].commit_counter) => s + q + r + p + a = 0
  BY <1>3, <1>4 DEF Due
<1>6. /\ S = {} <=> s = 0
      /\ Q = {} <=> q = 0
      /\ R = {} <=> r = 0
      /\ P = {} <=> p = 0
      /\ A = {} <=> a = 0
  BY <1>2, <1>3, FS_EmptySet
<1>7. /\ s = 1 => \A x, y \in S : x = y
      /\ q = 1 => \A x, y \in Q : x = y
      /\ r = 1 => \A x, y \in R : x = y
      /\ p = 1 => \A x, y \in P : x = y
  BY <1>2, <1>3, FS_Singleton
<1>8. /\ s = 0 \/ s = 1
      /\ q = 0 \/ q = 1
      /\ r = 0 \/ r = 1
      /\ p = 0 \/ p = 1
  <2>1. s + q + r + p + a =< 1
    BY <1>5
  <2> QED
    BY <2>1, OneOfFive
<1>9. /\ \A x, y \in S : x = y
      /\ \A x, y \in Q : x = y
      /\ \A x, y \in R : x = y
      /\ \A x, y \in P : x = y
  BY <1>6, <1>7, <1>8
<1>10. /\ s # 0 => q = 0 /\ r = 0 /\ p = 0 /\ a = 0
       /\ q # 0 => s = 0 /\ r = 0 /\ p = 0 /\ a = 0
       /\ r # 0 => s = 0 /\ q = 0 /\ p = 0 /\ a = 0
       /\ p # 0 => s = 0 /\ q = 0 /\ r = 0 /\ a = 0
       /\ a # 0 => s = 0 /\ q = 0 /\ r = 0 /\ p = 0
       /\ ~(k < clients[c].commit_counter) =>
            s = 0 /\ q = 0 /\ r = 0 /\ p = 0 /\ a = 0
  <2>1. s + q + r + p + a =< 1
    BY <1>5
  <2>2. ~(k < clients[c].commit_counter) => s + q + r + p + a = 0
    BY <1>5
  <2> QED
    BY <2>1, <2>2, OneOfFive
<1> QED
  BY <1>1, <1>6, <1>9, <1>10

-----------------------------------------------------------------------------
(* The messages under way, without their places *)

AllIn(queues) == UNION
  {{queues[n][i] : i \in DOMAIN queues[n]} : n \in Node}

Asked(c) == AllIn(requests[c])
Told(c) == AllIn([n \in Node |-> replies[n][c]])

OnlyFor(d, c, m) == IF d = c THEN {m} ELSE {}

Gains(S, T, m) == T = S \cup {m}

Holds(q, m) == \E i \in DOMAIN q : m = q[i]

LEMMA AllInIs ==
  ASSUME NEW queues, NEW m
  PROVE  m \in AllIn(queues) <=> \E n \in Node : Holds(queues[n], m)
BY DEF AllIn, Holds

LEMMA AllAdded ==
  ASSUME NEW X, NEW old \in [Node -> Seq(X)], NEW new \in [Node -> Seq(X)],
         NEW n \in Node, NEW m \in X, new[n] = Append(old[n], m),
         \A a \in Node \ {n} : new[a] = old[a]
  PROVE  Gains(AllIn(old), AllIn(new), m)
<1>1. PICK q, r, l : q = old[n] /\ r = new[n] /\ l = Len(q)
  OBVIOUS
<1>2. /\ l \in Nat /\ DOMAIN q = 1 .. l /\ DOMAIN r = 1 .. l + 1
      /\ \A i \in 1 .. l : r[i] = q[i]
      /\ r[l + 1] = m
  <2>1. q \in Seq(X) /\ r = Append(q, m)
    BY <1>1
  <2>2. r \in Seq(X) /\ Len(r) = l + 1
        /\ (\A i \in 1 .. l : r[i] = q[i]) /\ r[l + 1] = m
    BY <1>1, <2>1, AppendProperties
  <2> QED
    BY <1>1, <2>1, <2>2, LenProperties
<1>3. \A i : i \in 1 .. l + 1 <=> i \in 1 .. l \/ i = l + 1
  BY <1>2
<1>4. ASSUME NEW x
      PROVE  Holds(r, x) <=> Holds(q, x) \/ x = m
  BY <1>2, <1>3 DEF Holds
<1>5. ASSUME NEW x
      PROVE  x \in AllIn(new) <=> x \in AllIn(old) \/ x = m
  <2>1. /\ x \in AllIn(new) <=> \E a \in Node : Holds(new[a], x)
        /\ x \in AllIn(old) <=> \E a \in Node : Holds(old[a], x)
    BY AllInIs
  <2> QED
    BY <1>1, <1>4, <2>1
<1> QED
  BY <1>5 DEF Gains

LEMMA AllTaken ==
  ASSUME NEW X, NEW old \in [Node -> Seq(X)], NEW new \in [Node -> Seq(X)],
         NEW n \in Node, old[n] # <<>>, new[n] = Tail(old[n]),
         \A a \in Node \ {n} : new[a] = old[a]
  PROVE  Gains(AllIn(new), AllIn(old), Head(old[n]))
<1>1. PICK q, r, m, l : q = old[n] /\ r = new[n] /\ m = Head(q) /\ l = Len(r)
  OBVIOUS
<1>2. /\ l \in Nat /\ DOMAIN q = 1 .. l + 1 /\ DOMAIN r = 1 .. l
      /\ \A i \in 1 .. l : r[i] = q[i + 1]
      /\ q[1] = m
  <2>1. q \in Seq(X) /\ r = Tail(q) /\ q # <<>>
    BY <1>1
  <2>2. /\ r \in Seq(X) /\ Len(r) = Len(q) - 1
        /\ \A i \in 1 .. Len(r) : r[i] = q[i + 1]
    BY <2>1, HeadTailProperties
  <2>3. Len(q) \in Nat /\ l \in Nat /\ DOMAIN q = 1 .. Len(q)
        /\ DOMAIN r = 1 .. l
    BY <1>1, <2>1, <2>2, LenProperties
  <2>4. Len(q) = l + 1
    BY <1>1, <2>2, <2>3
  <2>5. q[1] = m
    BY <1>1
  <2> QED
    BY <1>1, <2>1, <2>2, <2>3, <2>4, <2>5
<1>3. ASSUME NEW x
      PROVE  Holds(q, x) <=> Holds(r, x) \/ x = m
  <2>1. \A i \in 1 .. l + 1 : i = 1 \/ (i - 1 \in 1 .. l /\ (i - 1) + 1 = i)
    BY <1>2
  <2>2. \A i \in 1 .. l : i + 1 \in 1 .. l + 1
    BY <1>2
  <2>3. 1 \in 1 .. l + 1
    BY <1>2
  <2>4. ASSUME NEW i \in 1 .. l + 1, x = q[i]
        PROVE  (\E j \in 1 .. l : x = r[j]) \/ x = m
    <3>1. CASE i = 1
      BY <1>2, <2>4, <3>1
    <3>2. CASE i - 1 \in 1 .. l /\ (i - 1) + 1 = i
      <4>1. r[i - 1] = x
        BY <1>2, <2>4, <3>2
      <4> QED
        BY <3>2, <4>1
    <3> QED
      BY <2>1, <3>1, <3>2
  <2>5. ASSUME NEW i \in 1 .. l, x = r[i] PROVE \E j \in 1 .. l + 1 : x = q[j]
    BY <1>2, <2>2, <2>5
  <2> QED
    BY <1>2, <2>3, <2>4, <2>5 DEF Holds
<1>4. ASSUME NEW x
      PROVE  x \in AllIn(old) <=> x \in AllIn(new) \/ x = m
  <2>1. /\ x \in AllIn(new) <=> \E a \in Node : Holds(new[a], x)
        /\ x \in AllIn(old) <=> \E a \in Node : Holds(old[a], x)
    BY AllInIs
  <2> QED
    BY <1>1, <1>3, <2>1
<1> QED
  BY <1>1, <1>4 DEF Gains

(* A queue holds a request in some place, or not at all. *)
LEMMA SpotsAndMessages ==
  ASSUME NEW queues, NEW k
  PROVE  Spots(queues, k) # {} <=> \E m \in AllIn(queues) : m.counter = k
<1>1. ASSUME NEW x \in Spots(queues, k)
      PROVE  \E m \in AllIn(queues) : m.counter = k
  BY SpotsIn, AllInIs DEF Holds
<1>2. ASSUME NEW m \in AllIn(queues), m.counter = k
      PROVE  Spots(queues, k) # {}
  <2>1a. PICK n \in Node : \E i \in DOMAIN queues[n] : m = queues[n][i]
    BY <1>2, AllInIs DEF Holds
  <2>1. PICK i \in DOMAIN queues[n] : m = queues[n][i]
    BY <2>1a
  <2>2. <<n, i>> \in Spots(queues, k)
    BY <1>2, <2>1, SpotsIn
  <2> QED
    BY <2>2
<1> QED
  BY <1>1, <1>2

LEMMA PlacesAndMessages ==
  ASSUME NEW c, NEW k
  PROVE  /\ InRequests(c, k) # {} <=> \E m \in Asked(c) : m.counter = k
         /\ InReplies(c, k) # {} <=> \E m \in Told(c) : m.counter = k
BY SpotsAndMessages DEF InRequests, InReplies, Asked, Told

LEMMA MessagesTyped ==
  ASSUME TypeOK, NEW c \in Clients
  PROVE  Asked(c) \subseteq Request /\ Told(c) \subseteq Answer
<1>1. ASSUME NEW m \in Asked(c) PROVE m \in Request
  <2>1a. PICK n \in Node : \E i \in DOMAIN requests[c][n] : m = requests[c][n][i]
    BY AllInIs DEF Asked, Holds
  <2>1. PICK i \in DOMAIN requests[c][n] : m = requests[c][n][i]
    BY <2>1a
  <2>2. requests[c][n] \in Seq(Request)
    BY DEF TypeOK
  <2> QED
    BY <2>1, <2>2, LenProperties, ElementOfSeq
<1>2. ASSUME NEW m \in Told(c) PROVE m \in Answer
  <2>1a. PICK n \in Node : \E i \in DOMAIN replies[n][c] : m = replies[n][c][i]
    BY AllInIs DEF Told, Holds
  <2>1. PICK i \in DOMAIN replies[n][c] : m = replies[n][c][i]
    BY <2>1a
  <2>2. replies[n][c] \in Seq(Answer)
    BY DEF TypeOK
  <2> QED
    BY <2>1, <2>2, LenProperties, ElementOfSeq
<1> QED
  BY <1>1, <1>2

LEMMA AskedAdded ==
  ASSUME TypeOK, TypeOK', NEW c \in Clients, NEW n \in Node, NEW m \in Request,
         requests' = [requests EXCEPT ![c][n] = Append(@, m)],
         NEW d \in Clients
  PROVE  Asked(d)' = Asked(d) \cup OnlyFor(d, c, m)
<1>1. PICK old, new : old = requests[d] /\ new = requests'[d]
  OBVIOUS
<1>2. old \in [Node -> Seq(Request)] /\ new \in [Node -> Seq(Request)]
  BY <1>1 DEF TypeOK
<1>3. Asked(d) = AllIn(old) /\ Asked(d)' = AllIn(new)
  BY <1>1 DEF Asked, AllIn
<1>4. CASE d = c
  <2>1. new[n] = Append(old[n], m) /\ \A a \in Node \ {n} : new[a] = old[a]
    BY <1>1, <1>4 DEF TypeOK
  <2>2. Gains(AllIn(old), AllIn(new), m)
    BY <1>2, <2>1, AllAdded
  <2> QED
    BY <1>3, <1>4, <2>2 DEF OnlyFor, Gains
<1>5. CASE d # c
  <2>1. new = old
    BY <1>1, <1>5 DEF TypeOK
  <2> QED
    BY <1>3, <1>5, <2>1 DEF OnlyFor
<1> QED
  BY <1>4, <1>5

LEMMA AskedTaken ==
  ASSUME TypeOK, TypeOK', NEW c \in Clients, NEW n \in Node,
         NEW m, m = Head(requests[c][n]), TakeRequest(c, n),
         NEW d \in Clients
  PROVE  Asked(d) = Asked(d)' \cup OnlyFor(d, c, m)
<1>1. PICK old, new : old = requests[d] /\ new = requests'[d]
  OBVIOUS
<1>2. old \in [Node -> Seq(Request)] /\ new \in [Node -> Seq(Request)]
  BY <1>1 DEF TypeOK
<1>3. Asked(d) = AllIn(old) /\ Asked(d)' = AllIn(new)
  BY <1>1 DEF Asked, AllIn
<1>4. CASE d = c
  <2>1. /\ old[n] # <<>> /\ new[n] = Tail(old[n]) /\ m = Head(old[n])
        /\ \A a \in Node \ {n} : new[a] = old[a]
    BY <1>1, <1>4 DEF TakeRequest, TypeOK
  <2>2. Gains(AllIn(new), AllIn(old), Head(old[n]))
    BY <1>2, <2>1, AllTaken
  <2> QED
    BY <1>3, <1>4, <2>1, <2>2 DEF OnlyFor, Gains
<1>5. CASE d # c
  <2>1. new = old
    BY <1>1, <1>5 DEF TakeRequest, TypeOK
  <2> QED
    BY <1>3, <1>5, <2>1 DEF OnlyFor
<1> QED
  BY <1>4, <1>5

LEMMA ToldAdded ==
  ASSUME TypeOK, TypeOK', NEW c \in Clients, NEW n \in Node, NEW m \in Answer,
         replies' = [replies EXCEPT ![n][c] = Append(@, m)],
         NEW d \in Clients
  PROVE  Told(d)' = Told(d) \cup OnlyFor(d, c, m)
<1>1. PICK old, new : /\ old = [a \in Node |-> replies[a][d]]
                      /\ new = [a \in Node |-> replies'[a][d]]
  OBVIOUS
<1>2. old \in [Node -> Seq(Answer)] /\ new \in [Node -> Seq(Answer)]
  <2>1. \A a \in Node : replies[a][d] \in Seq(Answer)
    BY DEF TypeOK
  <2>2. \A a \in Node : replies'[a][d] \in Seq(Answer)
    BY DEF TypeOK
  <2> QED
    BY <1>1, <2>1, <2>2
<1>3. Told(d) = AllIn(old) /\ Told(d)' = AllIn(new)
  BY <1>1 DEF Told, AllIn
<1>4. CASE d = c
  <2>1. new[n] = Append(old[n], m) /\ \A a \in Node \ {n} : new[a] = old[a]
    BY <1>1, <1>4 DEF TypeOK
  <2>2. Gains(AllIn(old), AllIn(new), m)
    BY <1>2, <2>1, AllAdded
  <2> QED
    BY <1>3, <1>4, <2>2 DEF OnlyFor, Gains
<1>5. CASE d # c
  <2>1. new = old
    BY <1>1, <1>5 DEF TypeOK
  <2> QED
    BY <1>3, <1>5, <2>1 DEF OnlyFor
<1> QED
  BY <1>4, <1>5

LEMMA ToldTaken ==
  ASSUME TypeOK, TypeOK', NEW c \in Clients, NEW n \in Node,
         NEW m, m = Head(replies[n][c]), NEW type, TakeReply(n, c, type),
         NEW d \in Clients
  PROVE  Told(d) = Told(d)' \cup OnlyFor(d, c, m)
<1>1. PICK old, new : /\ old = [a \in Node |-> replies[a][d]]
                      /\ new = [a \in Node |-> replies'[a][d]]
  OBVIOUS
<1>2. old \in [Node -> Seq(Answer)] /\ new \in [Node -> Seq(Answer)]
  <2>1. \A a \in Node : replies[a][d] \in Seq(Answer)
    BY DEF TypeOK
  <2>2. \A a \in Node : replies'[a][d] \in Seq(Answer)
    BY DEF TypeOK
  <2> QED
    BY <1>1, <2>1, <2>2
<1>3. Told(d) = AllIn(old) /\ Told(d)' = AllIn(new)
  BY <1>1 DEF Told, AllIn
<1>4. CASE d = c
  <2>1. /\ old[n] # <<>> /\ new[n] = Tail(old[n]) /\ m = Head(old[n])
        /\ \A a \in Node \ {n} : new[a] = old[a]
    BY <1>1, <1>4 DEF TakeReply, TypeOK
  <2>2. Gains(AllIn(new), AllIn(old), Head(old[n]))
    BY <1>2, <2>1, AllTaken
  <2> QED
    BY <1>3, <1>4, <2>1, <2>2 DEF OnlyFor, Gains
<1>5. CASE d # c
  <2>1. new = old
    BY <1>1, <1>5 DEF TakeReply, TypeOK
  <2> QED
    BY <1>3, <1>5, <2>1 DEF OnlyFor
<1> QED
  BY <1>4, <1>5

LEMMA MessagesKept ==
  ASSUME NEW d
  PROVE  /\ UNCHANGED requests => Asked(d)' = Asked(d)
         /\ UNCHANGED replies => Told(d)' = Told(d)
BY DEF Asked, Told, AllIn

-----------------------------------------------------------------------------
(* What requests and answers say *)

(* A request reads, or it is among the writes. *)
RequestOK(c, m) ==
  m.counter \in Counter /\ (m.read <=> m.counter \notin writes[c])

(* Only writes are redirected. *)
AnswerOK(c, m) ==
  m.counter \in Counter /\ (m.type = "MASTER_ID" => m.counter \in writes[c])

SoundInv == \A c \in Clients :
  /\ \A t \in Threads :
       sending[c][t] # NoRequest => RequestOK(c, sending[c][t])
  /\ \A m \in Asked(c) : RequestOK(c, m)
  /\ \A m \in Told(c) : AnswerOK(c, m)
  /\ answered[c] \subseteq Counter
  /\ \A k \in writes[c] : k \in Counter /\ k < clients[c].commit_counter

(* Captains have nothing but writes of the clients. *)
PendingInv == \A n \in Node : \A id \in pending[n] :
  \E c \in Clients : \E k \in Counter : id = ValueId(c, k) /\ k \in writes[c]

(* A captain has the request, or has had it. *)
Handed(c, k) ==
  \/ InPending(c, k) # {}
  \/ k \in answered[c]
  \/ \E m \in Told(c) : m.type = "RET" /\ m.counter = k

HistoryInv ==
  /\ \A i \in DOMAIN committed : \E c \in Clients : \E k \in Counter :
       committed[i] = <<c, k>> /\ Handed(c, k)
  /\ \A i, j \in DOMAIN committed : committed[i] = committed[j] => i = j
  /\ \A c \in Clients : \A k \in writes[c] :
       Handed(c, k) => \E i \in DOMAIN committed : committed[i] = <<c, k>>

ClientInv == TypeOK /\ Counted /\ SoundInv /\ PendingInv /\ HistoryInv

LEMMA HitIs ==
  ASSUME NEW d, NEW k, NEW c, NEW l
  PROVE  /\ Hit(d, k, c, l, 1) \in Int /\ Hit(d, k, c, l, -1) \in Int
         /\ Hit(d, k, c, l, 1) + Hit(d, k, c, l, -1) = 0
BY DEF Hit

(* A request in one place is in no other. *)
LEMMA AskedOnly ==
  ASSUME ClientInv, NEW c \in Clients, NEW m \in Asked(c)
  PROVE  /\ m.counter \in Counter
         /\ ~Handed(c, m.counter)
         /\ \A n \in Node : ValueId(c, m.counter) \notin pending[n]
<1>1. m.counter \in Counter /\ InRequests(c, m.counter) # {}
  BY PlacesAndMessages DEF ClientInv, SoundInv, RequestOK
<1>2. /\ InReplies(c, m.counter) = {} /\ InPending(c, m.counter) = {}
      /\ InAnswered(c, m.counter) = {}
  BY <1>1, OnePlace DEF ClientInv
<1>3. m.counter \notin answered[c]
  BY <1>2 DEF InAnswered
<1>4. \A n \in Node : ValueId(c, m.counter) \notin pending[n]
  BY <1>2 DEF InPending
<1> QED
  BY <1>1, <1>2, <1>3, <1>4, PlacesAndMessages DEF Handed

LEMMA ToldOnly ==
  ASSUME ClientInv, NEW c \in Clients, NEW m \in Told(c)
  PROVE  m.counter \in Counter /\ m.counter \notin answered[c]
<1>1. m.counter \in Counter /\ InReplies(c, m.counter) # {}
  BY PlacesAndMessages DEF ClientInv, SoundInv, AnswerOK
<1>2. InAnswered(c, m.counter) = {}
  BY <1>1, OnePlace DEF ClientInv
<1> QED
  BY <1>1, <1>2 DEF InAnswered

(* The first message of a queue is one of those under way. *)
LEMMA FirstIsAsked ==
  ASSUME TypeOK, NEW c \in Clients, NEW n \in Node, TakeRequest(c, n)
  PROVE  Head(requests[c][n]) \in Asked(c)
<1>1. requests[c][n] \in Seq(Request) /\ requests[c][n] # <<>>
  BY DEF TypeOK, TakeRequest
<1>2. 1 \in DOMAIN requests[c][n]
  BY <1>1, EmptySeq, LenProperties
<1>3. Holds(requests[c][n], Head(requests[c][n]))
  BY <1>1, <1>2 DEF Holds
<1> QED
  BY <1>3, AllInIs DEF Asked

LEMMA FirstIsTold ==
  ASSUME TypeOK, NEW c \in Clients, NEW n \in Node,
         NEW type, TakeReply(n, c, type)
  PROVE  Head(replies[n][c]) \in Told(c)
<1>1. replies[n][c] \in Seq(Answer) /\ replies[n][c] # <<>>
  BY DEF TypeOK, TakeReply
<1>2. 1 \in DOMAIN replies[n][c]
  BY <1>1, EmptySeq, LenProperties
<1>3. PICK queues : queues = [a \in Node |-> replies[a][c]]
  OBVIOUS
<1>4. Holds(queues[n], Head(replies[n][c]))
  BY <1>1, <1>2, <1>3 DEF Holds
<1> QED
  BY <1>3, <1>4, AllInIs DEF Told

-----------------------------------------------------------------------------
(* A new request *)

NewRequest(c, t, m) ==
  /\ m.counter = clients[c].commit_counter /\ m.counter \in Counter
  /\ sending[c][t] = NoRequest
  /\ sending' = [sending EXCEPT ![c][t] = m]
  /\ \A d \in Clients : clients'[d].commit_counter =
       IF d = c THEN m.counter + 1 ELSE clients[d].commit_counter
  /\ writes' = IF m.read THEN writes
                       ELSE [writes EXCEPT ![c] = @ \cup {m.counter}]

NoNewRequest ==
  /\ UNCHANGED <<sending, writes>>
  /\ \A d \in Clients : clients'[d].commit_counter = clients[d].commit_counter

LEMMA MakesNew ==
  ASSUME TypeOK, NEW c \in Clients, NEW t \in Threads, NEW d \in ClientStates,
         d.commit_counter = clients[c].commit_counter,
         sending[c][t] = NoRequest, Makes(c, t, d)
  PROVE  \E m \in Request : NewRequest(c, t, m)
<1>1. PICK k \in Nat, rand \in Nat, m \in Request :
        /\ k = d.commit_counter /\ k < MaxCounter /\ m.counter = k
        /\ clients' = [clients EXCEPT
             ![c] = [d EXCEPT !.commit_counter = k + 1, !.rand_counter = rand]]
        /\ sending' = [sending EXCEPT ![c][t] = m]
        /\ writes' = IF m.read THEN writes
                             ELSE [writes EXCEPT ![c] = @ \cup {k}]
  BY DEF Makes
<1>2. k \in Counter
  BY <1>1, Setting DEF Counter
<1>3. [d EXCEPT !.commit_counter = k + 1, !.rand_counter = rand].commit_counter
        = k + 1
  BY DEF ClientStates
<1>4. \A x \in Clients : clients'[x].commit_counter =
        IF x = c THEN k + 1 ELSE clients[x].commit_counter
  BY <1>1, <1>3, ClientTyped
<1> QED
  BY <1>1, <1>2, <1>4 DEF NewRequest

(* A new request is due, and it is in the hands of the thread. *)
LEMMA NewGrows ==
  ASSUME TypeOK, NEW c \in Clients, NEW t \in Threads, NEW m \in Request,
         NewRequest(c, t, m), NEW d \in Clients, NEW k \in Counter
  PROVE  /\ Grows(InSending(d, k), InSending(d, k)', Hit(d, k, c, m.counter, 1))
         /\ Due(d, k)' = Due(d, k) + Hit(d, k, c, m.counter, 1)
<1>1. Grows(InSending(d, k), InSending(d, k)', Hit(d, k, c, m.counter, 1))
  BY CounterNat, SendingMade DEF NewRequest
<1>2. clients'[d].commit_counter =
        IF d = c THEN m.counter + 1 ELSE clients[d].commit_counter
  BY DEF NewRequest
<1>3. m.counter = clients[c].commit_counter /\ m.counter \in Nat /\ k \in Nat
  BY CounterNat DEF NewRequest
<1>4. Due(d, k)' = Due(d, k) + Hit(d, k, c, m.counter, 1)
  BY <1>2, <1>3 DEF Due, Hit
<1> QED
  BY <1>1, <1>4

LEMMA NothingNewGrows ==
  ASSUME NoNewRequest, NEW d \in Clients, NEW k \in Counter
  PROVE  /\ Grows(InSending(d, k), InSending(d, k)', 0)
         /\ Due(d, k)' = Due(d, k)
BY PartsKept DEF NoNewRequest, Due

(* The number of a new request is nowhere yet. *)
LEMMA NewIsNowhere ==
  ASSUME ClientInv, NEW c \in Clients, NEW t \in Threads, NEW m \in Request,
         NewRequest(c, t, m)
  PROVE  /\ \A u \in Threads : sending[c][u].counter # m.counter
         /\ \A x \in Asked(c) : x.counter # m.counter
         /\ \A x \in Told(c) : x.counter # m.counter
         /\ m.counter \notin writes[c]
         /\ ~Handed(c, m.counter)
<1>1. /\ m.counter \in Counter
      /\ ~(m.counter < clients[c].commit_counter)
  <2>1. m.counter = clients[c].commit_counter /\ m.counter \in Nat
    BY CounterNat DEF NewRequest
  <2> QED
    BY <2>1 DEF NewRequest
<1>2. /\ InSending(c, m.counter) = {} /\ InRequests(c, m.counter) = {}
      /\ InReplies(c, m.counter) = {} /\ InPending(c, m.counter) = {}
      /\ InAnswered(c, m.counter) = {}
  BY <1>1, OnePlace DEF ClientInv
<1>3. m.counter \notin writes[c]
  BY <1>1 DEF ClientInv, SoundInv
<1>4. m.counter \notin answered[c]
  BY <1>2 DEF InAnswered
<1>5. \A u \in Threads : sending[c][u].counter # m.counter
  BY <1>2 DEF InSending
<1> QED
  BY <1>2, <1>3, <1>4, <1>5, PlacesAndMessages DEF Handed

(* What was sound remains so. *)
LEMMA NewSound ==
  ASSUME ClientInv, NEW c \in Clients, NEW t \in Threads, NEW m \in Request,
         NewRequest(c, t, m), NEW d \in Clients
  PROVE  /\ \A u \in Threads :
              sending'[d][u] # NoRequest => RequestOK(d, sending[d][u])'
         /\ \A x \in Asked(d) : RequestOK(d, x)'
         /\ \A x \in Told(d) : AnswerOK(d, x)'
         /\ \A k \in writes'[d] : /\ k \in Counter
                                  /\ k < clients'[d].commit_counter
         /\ writes[d] \subseteq writes'[d]
<1>1. /\ \A u \in Threads :
           sending[d][u] # NoRequest => RequestOK(d, sending[d][u])
      /\ \A x \in Asked(d) : RequestOK(d, x)
      /\ \A x \in Told(d) : AnswerOK(d, x)
      /\ \A k \in writes[d] : k \in Counter /\ k < clients[d].commit_counter
  BY DEF ClientInv, SoundInv
<1>2. /\ m.counter = clients[c].commit_counter /\ m.counter \in Counter
      /\ m.counter \in Nat
      /\ clients'[d].commit_counter =
           IF d = c THEN m.counter + 1 ELSE clients[d].commit_counter
  BY CounterNat DEF NewRequest
<1>3. writes'[d] = IF d = c /\ ~m.read THEN writes[d] \cup {m.counter}
                                       ELSE writes[d]
  BY DEF NewRequest, ClientInv, TypeOK
<1>4. \A u \in Threads :
        sending'[d][u] = IF d = c /\ u = t THEN m ELSE sending[d][u]
  BY DEF NewRequest, ClientInv, TypeOK
<1>5. CASE d = c
  <2>1. /\ \A u \in Threads : sending[c][u].counter # m.counter
        /\ \A x \in Asked(c) : x.counter # m.counter
        /\ \A x \in Told(c) : x.counter # m.counter
        /\ m.counter \notin writes[c]
    BY NewIsNowhere
  <2>2. m.read \in BOOLEAN
    BY DEF Request
  <2>3. RequestOK(c, m)'
    BY <1>2, <1>3, <1>5, <2>1, <2>2 DEF RequestOK
  <2>4. \A x : x.counter # m.counter =>
          /\ RequestOK(c, x) => RequestOK(c, x)'
          /\ AnswerOK(c, x) => AnswerOK(c, x)'
    BY <1>3, <1>5 DEF RequestOK, AnswerOK
  <2>5. \A u \in Threads :
          sending'[c][u] # NoRequest => RequestOK(c, sending[c][u])'
    <3> SUFFICES ASSUME NEW u \in Threads, sending'[c][u] # NoRequest
                 PROVE  RequestOK(c, sending[c][u])'
      OBVIOUS
    <3>1. CASE u = t
      <4>1. sending'[c][u] = m
        BY <1>4, <1>5, <3>1
      <4>2. writes'[c] = writes'[d]
        BY <1>5
      <4> QED
        BY <2>3, <4>1 DEF RequestOK
    <3>2. CASE u # t
      <4>1. PICK x : x = sending[c][u]
        OBVIOUS
      <4>2. sending'[c][u] = x
        BY <1>4, <1>5, <3>2, <4>1
      <4>3. RequestOK(c, x)'
        BY <1>1, <1>5, <2>1, <2>4, <4>1, <4>2
      <4> QED
        BY <4>2, <4>3 DEF RequestOK
    <3> QED
      BY <3>1, <3>2
  <2>6. \A k \in writes'[c] : k \in Counter /\ k < clients'[c].commit_counter
    <3>1. ASSUME NEW k \in writes'[c]
          PROVE  k \in Counter /\ k < clients'[c].commit_counter
      <4>1. clients'[c].commit_counter = m.counter + 1
        BY <1>2, <1>5
      <4>2. CASE k = m.counter
        BY <1>2, <4>1, <4>2
      <4>3. CASE k # m.counter
        <5>1. k \in writes[c]
          BY <1>3, <1>5, <3>1, <4>3
        <5>2. k \in Counter /\ k < m.counter /\ k \in Nat
          BY <1>1, <1>2, <1>5, <5>1, CounterNat
        <5> QED
          BY <1>2, <4>1, <5>2
      <4> QED
        BY <4>2, <4>3
    <3> QED
      BY <3>1
  <2> QED
    BY <1>1, <1>3, <1>5, <2>1, <2>4, <2>5, <2>6
<1>6. CASE d # c
  <2>1. \A u \in Threads : sending'[d][u] = sending[d][u]
    BY <1>4, <1>6
  <2>2. writes'[d] = writes[d]
    BY <1>3, <1>6
  <2>3. clients'[d].commit_counter = clients[d].commit_counter
    BY <1>2, <1>6
  <2> QED
    BY <1>1, <2>1, <2>2, <2>3 DEF RequestOK, AnswerOK
<1> QED
  BY <1>5, <1>6

LEMMA NothingNewSound ==
  ASSUME ClientInv, NoNewRequest, NEW d \in Clients
  PROVE  /\ \A u \in Threads :
              sending'[d][u] # NoRequest => RequestOK(d, sending[d][u])'
         /\ \A x \in Asked(d) : RequestOK(d, x)'
         /\ \A x \in Told(d) : AnswerOK(d, x)'
         /\ \A k \in writes'[d] : /\ k \in Counter
                                  /\ k < clients'[d].commit_counter
         /\ writes[d] \subseteq writes'[d]
<1>1. /\ \A u \in Threads :
           sending[d][u] # NoRequest => RequestOK(d, sending[d][u])
      /\ \A x \in Asked(d) : RequestOK(d, x)
      /\ \A x \in Told(d) : AnswerOK(d, x)
      /\ \A k \in writes[d] : k \in Counter /\ k < clients[d].commit_counter
  BY DEF ClientInv, SoundInv
<1>2. /\ \A x : RequestOK(d, x) <=> RequestOK(d, x)'
      /\ \A x : AnswerOK(d, x) <=> AnswerOK(d, x)'
  BY DEF RequestOK, AnswerOK, NoNewRequest
<1>3. sending' = sending
  BY DEF NoNewRequest
<1>4. \A u \in Threads :
        sending'[d][u] # NoRequest => RequestOK(d, sending[d][u])'
  BY <1>1, <1>3 DEF RequestOK, NoNewRequest
<1> QED
  BY <1>1, <1>2, <1>4 DEF NoNewRequest

Changes ==
  \/ NoNewRequest
  \/ \E c \in Clients : \E t \in Threads : \E m \in Request :
       NewRequest(c, t, m)

LEMMA ChangesGrow ==
  ASSUME TypeOK, Changes, NEW d \in Clients, NEW k \in Counter
  PROVE  \E i \in Int : /\ Grows(InSending(d, k), InSending(d, k)', i)
                        /\ Due(d, k)' = Due(d, k) + i
<1>1. CASE NoNewRequest
  <2>1. Due(d, k)' = Due(d, k) + 0
    BY <1>1, NothingNewGrows DEF Due
  <2> QED
    BY <1>1, <2>1, NothingNewGrows
<1>2. ASSUME NEW c \in Clients, NEW t \in Threads, NEW m \in Request,
             NewRequest(c, t, m)
      PROVE  \E i \in Int : /\ Grows(InSending(d, k), InSending(d, k)', i)
                            /\ Due(d, k)' = Due(d, k) + i
  BY <1>2, NewGrows, HitIs
<1> QED
  BY <1>1, <1>2 DEF Changes

LEMMA ChangesSound ==
  ASSUME ClientInv, Changes, NEW d \in Clients
  PROVE  /\ \A u \in Threads :
              (sending[d][u] # NoRequest => RequestOK(d, sending[d][u]))'
         /\ \A x \in Asked(d) : RequestOK(d, x)'
         /\ \A x \in Told(d) : AnswerOK(d, x)'
         /\ \A k \in writes'[d] : /\ k \in Counter
                                  /\ k < clients'[d].commit_counter
         /\ writes[d] \subseteq writes'[d]
BY NewSound, NothingNewSound DEF Changes

LEMMA ChangesNew ==
  ASSUME ClientInv, Changes, NEW d \in Clients,
         NEW k \in writes'[d], k \notin writes[d]
  PROVE  ~Handed(d, k) /\ \A x \in Told(d) : x.counter # k
<1>1. CASE NoNewRequest
  BY <1>1 DEF NoNewRequest
<1>2. ASSUME NEW c \in Clients, NEW t \in Threads, NEW m \in Request,
             NewRequest(c, t, m)
      PROVE  ~Handed(d, k) /\ \A x \in Told(d) : x.counter # k
  <2>1. writes'[d] = IF d = c /\ ~m.read THEN writes[d] \cup {m.counter}
                                         ELSE writes[d]
    BY <1>2 DEF NewRequest, ClientInv, TypeOK
  <2>2. d = c /\ k = m.counter
    BY <2>1
  <2> QED
    BY <1>2, <2>2, NewIsNowhere
<1> QED
  BY <1>1, <1>2 DEF Changes

-----------------------------------------------------------------------------
(* Every step keeps the invariant. *)

(* A request is made, or nothing that matters happens. *)
LEMMA StartKeeps ==
  ASSUME ClientInv, TypeOK', Changes,
         UNCHANGED <<requests, pending, replies, committed, answered>>
  PROVE  ClientInv'
<1>1. Counted'
  <2>1. ASSUME NEW d \in Clients, NEW k \in Counter PROVE Balanced(d, k)
    <3>1. PICK i \in Int : /\ Grows(InSending(d, k), InSending(d, k)', i)
                           /\ Due(d, k)' = Due(d, k) + i
      BY <2>1, ChangesGrow DEF ClientInv
    <3>2. /\ Grows(InRequests(d, k), InRequests(d, k)', 0)
          /\ Grows(InReplies(d, k), InReplies(d, k)', 0)
          /\ Grows(InPending(d, k), InPending(d, k)', 0)
          /\ Grows(InAnswered(d, k), InAnswered(d, k)', 0)
      BY PartsKept
    <3>3. Due(d, k)' = Due(d, k) + i + 0 + 0 + 0 + 0
      BY <3>1 DEF Due
    <3> QED
      BY <3>1, <3>2, <3>3 DEF Balanced
  <2> QED
    BY <2>1, BalancedCounted DEF ClientInv
<1>2. \A d \in Clients : Asked(d)' = Asked(d) /\ Told(d)' = Told(d)
  BY MessagesKept
<1>3. SoundInv'
  <2>1. ASSUME NEW d \in Clients
        PROVE  /\ \A u \in Threads : (sending[d][u] # NoRequest =>
                                        RequestOK(d, sending[d][u]))'
               /\ \A m \in Asked(d)' : RequestOK(d, m)'
               /\ \A m \in Told(d)' : AnswerOK(d, m)'
               /\ answered'[d] \subseteq Counter
               /\ \A k \in writes'[d] : /\ k \in Counter
                                        /\ k < clients'[d].commit_counter
    <3>1. answered'[d] \subseteq Counter
      BY <2>1 DEF ClientInv, SoundInv
    <3> QED
      BY <1>2, <2>1, <3>1, ChangesSound
  <2> QED
    BY <2>1 DEF SoundInv, Counter
<1>4. PendingInv'
  <2>1. \A d \in Clients : writes[d] \subseteq writes'[d]
    BY ChangesSound
  <2> QED
    BY <2>1 DEF ClientInv, PendingInv, ValueId, Counter
<1>5. \A d, k : Handed(d, k)' <=> Handed(d, k)
  BY <1>2 DEF Handed, InPending, ValueId, Told, AllIn
<1>6. HistoryInv'
  <2>1. /\ \A i \in DOMAIN committed : \E c \in Clients : \E k \in Counter :
             committed[i] = <<c, k>> /\ Handed(c, k)'
        /\ \A i, j \in DOMAIN committed : committed[i] = committed[j] => i = j
    BY <1>5 DEF ClientInv, HistoryInv
  <2>2. ASSUME NEW c \in Clients, NEW k \in writes'[c], Handed(c, k)'
        PROVE  \E i \in DOMAIN committed : committed[i] = <<c, k>>
    <3>1. Handed(c, k)
      BY <1>5, <2>2
    <3>2. k \in writes[c]
      BY <2>2, <3>1, ChangesNew
    <3> QED
      BY <3>1, <3>2 DEF ClientInv, HistoryInv
  <2> QED
    BY <2>1, <2>2 DEF HistoryInv, Counter
<1> QED
  BY <1>1, <1>3, <1>4, <1>6 DEF ClientInv

(* A request is sent. *)
LEMMA SendKeeps ==
  ASSUME ClientInv, TypeOK', NEW c \in Clients, NEW t \in Threads, Send(c, t)
  PROVE  ClientInv'
<1>1. PICK m, n : /\ m = sending[c][t]
                  /\ n = IF m.read THEN ReadNode ELSE clients[c].master_id
  OBVIOUS
<1>2. m \in Request /\ m # NoRequest /\ n \in Node
  BY <1>1, Setting DEF Send, ClientInv, TypeOK
<1>3. /\ sending' = [sending EXCEPT ![c][t] = NoRequest]
      /\ requests' = [requests EXCEPT ![c][n] = Append(@, m)]
      /\ UNCHANGED <<clients, pending, replies, writes, committed, answered>>
  BY <1>1 DEF Send
<1>4. RequestOK(c, m)
  BY <1>1, <1>2 DEF ClientInv, SoundInv
<1>5. Counted'
  <2>1. ASSUME NEW d \in Clients, NEW k \in Counter PROVE Balanced(d, k)
    <3>1. PICK i, j \in Int : /\ i = Hit(d, k, c, m.counter, -1)
                              /\ j = Hit(d, k, c, m.counter, 1)
                              /\ j + i = 0
      BY HitIs
    <3>2. Grows(InSending(d, k), InSending(d, k)', i)
      BY <1>1, <1>3, <2>1, <3>1, CounterNat, SendingSent DEF ClientInv
    <3>3. Grows(InRequests(d, k), InRequests(d, k)', j)
      BY <1>2, <1>3, <2>1, <3>1, RequestsAdded DEF ClientInv
    <3>4. /\ Grows(InReplies(d, k), InReplies(d, k)', 0)
          /\ Grows(InPending(d, k), InPending(d, k)', 0)
          /\ Grows(InAnswered(d, k), InAnswered(d, k)', 0)
      BY <1>3, PartsKept
    <3>5. Due(d, k)' = Due(d, k) + i + j + 0 + 0 + 0
      BY <1>3, <3>1 DEF Due
    <3> QED
      BY <3>2, <3>3, <3>4, <3>5 DEF Balanced
  <2> QED
    BY <2>1, BalancedCounted DEF ClientInv
<1>6. \A d \in Clients : /\ Told(d)' = Told(d)
                         /\ Asked(d)' = Asked(d) \cup OnlyFor(d, c, m)
  BY <1>2, <1>3, MessagesKept, AskedAdded DEF ClientInv
<1>7. SoundInv'
  <2>1. ASSUME NEW d \in Clients
        PROVE  /\ \A u \in Threads : (sending[d][u] # NoRequest =>
                                        RequestOK(d, sending[d][u]))'
               /\ \A x \in Asked(d)' : RequestOK(d, x)'
               /\ \A x \in Told(d)' : AnswerOK(d, x)'
               /\ answered'[d] \subseteq Counter
               /\ \A k \in writes'[d] : /\ k \in Counter
                                        /\ k < clients'[d].commit_counter
    <3>1. /\ \A x : RequestOK(d, x)' <=> RequestOK(d, x)
          /\ \A x : AnswerOK(d, x)' <=> AnswerOK(d, x)
      BY <1>3 DEF RequestOK, AnswerOK
    <3>2. \A u \in Threads :
            sending'[d][u] = IF d = c /\ u = t THEN NoRequest ELSE sending[d][u]
      <4>1. sending \in [Clients -> [Threads -> Request \cup {NoRequest}]]
        BY DEF ClientInv, TypeOK
      <4> QED
        BY <1>3, <2>1, <4>1
    <3>3. \A u \in Threads : (sending[d][u] # NoRequest =>
                                RequestOK(d, sending[d][u]))'
      <4> SUFFICES ASSUME NEW u \in Threads, sending'[d][u] # NoRequest
                   PROVE  RequestOK(d, sending[d][u])'
        OBVIOUS
      <4>1. PICK x : x = sending'[d][u]
        OBVIOUS
      <4>2. x = sending[d][u] /\ x # NoRequest
        BY <3>2, <4>1
      <4>3. RequestOK(d, x)
        BY <2>1, <4>2 DEF ClientInv, SoundInv
      <4> QED
        BY <1>3, <4>1, <4>3 DEF RequestOK
    <3>4. \A x \in Asked(d)' : RequestOK(d, x)
      BY <1>4, <1>6, <2>1 DEF ClientInv, SoundInv, OnlyFor
    <3>5. /\ \A x \in Told(d)' : AnswerOK(d, x)
          /\ answered'[d] \subseteq Counter
          /\ \A k \in writes'[d] : /\ k \in Counter
                                   /\ k < clients'[d].commit_counter
      BY <1>3, <1>6, <2>1 DEF ClientInv, SoundInv
    <3> QED
      BY <3>1, <3>3, <3>4, <3>5
  <2> QED
    BY <2>1 DEF SoundInv, Counter
<1>8. PendingInv' /\ HistoryInv'
  <2>1. \A d \in Clients : \A k : Handed(d, k)' <=> Handed(d, k)
    BY <1>3, <1>6 DEF Handed, InPending, ValueId
  <2> QED
    BY <1>3, <2>1 DEF ClientInv, PendingInv, HistoryInv, ValueId, Counter
<1> QED
  BY <1>5, <1>7, <1>8 DEF ClientInv

(* A server answers at once: reads and redirections. *)
LEMMA AnswerKeeps ==
  ASSUME ClientInv, TypeOK', NEW c \in Clients, NEW n \in Node,
         HandleRead(c, n) \/ Redirect(c, n)
  PROVE  ClientInv'
<1>1. PICK m, r : /\ m = Head(requests[c][n])
                  /\ r = [type |-> IF m.read THEN "RET" ELSE "MASTER_ID",
                          counter |-> m.counter, master |-> MasterOf(n)]
  OBVIOUS
<1>2. /\ TakeRequest(c, n)
      /\ UNCHANGED <<clients, sending, pending, writes, committed, answered>>
  BY DEF HandleRead, Redirect, TakeRequest
<1>3. m \in Request /\ m \in Asked(c)
  BY <1>1, <1>2, TakeRequestTyped, FirstIsAsked DEF ClientInv
<1>4. r \in Answer /\ r.counter = m.counter
      /\ r.type = IF m.read THEN "RET" ELSE "MASTER_ID"
  BY <1>1, <1>3, MasterIsNode DEF ClientInv, Answer, Request
<1>5. replies' = [replies EXCEPT ![n][c] = Append(@, r)]
  <2>1. CASE HandleRead(c, n)
    BY <1>1, <2>1 DEF HandleRead, Tell
  <2>2. CASE Redirect(c, n)
    BY <1>1, <2>2 DEF Redirect, Tell
  <2> QED
    BY <2>1, <2>2
<1>6. /\ RequestOK(c, m) /\ m.counter \in Counter
      /\ ~Handed(c, m.counter)
  BY <1>3, AskedOnly DEF ClientInv, SoundInv
<1>7. Counted'
  <2>1. ASSUME NEW d \in Clients, NEW k \in Counter PROVE Balanced(d, k)
    <3>1. PICK i, j \in Int : /\ i = Hit(d, k, c, m.counter, -1)
                              /\ j = Hit(d, k, c, m.counter, 1)
                              /\ j + i = 0
      BY HitIs
    <3>2. Grows(InRequests(d, k), InRequests(d, k)', i)
      BY <1>1, <1>2, <2>1, <3>1, RequestsTaken DEF ClientInv
    <3>3. Grows(InReplies(d, k), InReplies(d, k)', j)
      BY <1>4, <1>5, <2>1, <3>1, RepliesAdded DEF ClientInv
    <3>4. /\ Grows(InSending(d, k), InSending(d, k)', 0)
          /\ Grows(InPending(d, k), InPending(d, k)', 0)
          /\ Grows(InAnswered(d, k), InAnswered(d, k)', 0)
      BY <1>2, PartsKept
    <3>5. Due(d, k)' = Due(d, k) + 0 + i + j + 0 + 0
      BY <1>2, <3>1 DEF Due
    <3> QED
      BY <3>2, <3>3, <3>4, <3>5 DEF Balanced
  <2> QED
    BY <2>1, BalancedCounted DEF ClientInv
<1>8. \A d \in Clients : /\ Asked(d)' \subseteq Asked(d)
                         /\ Told(d)' = Told(d) \cup OnlyFor(d, c, r)
  <2>1. ASSUME NEW d \in Clients
        PROVE  /\ Asked(d) = Asked(d)' \cup OnlyFor(d, c, m)
               /\ Told(d)' = Told(d) \cup OnlyFor(d, c, r)
    <3>1. Asked(d) = Asked(d)' \cup OnlyFor(d, c, m)
      BY <1>1, <1>2, <2>1, AskedTaken DEF ClientInv
    <3>2. Told(d)' = Told(d) \cup OnlyFor(d, c, r)
      BY <1>4, <1>5, <2>1, ToldAdded DEF ClientInv
    <3> QED
      BY <3>1, <3>2
  <2> QED
    BY <2>1
<1>9. SoundInv'
  <2>1. ASSUME NEW d \in Clients
        PROVE  /\ \A u \in Threads : (sending[d][u] # NoRequest =>
                                        RequestOK(d, sending[d][u]))'
               /\ \A x \in Asked(d)' : RequestOK(d, x)'
               /\ \A x \in Told(d)' : AnswerOK(d, x)'
               /\ answered'[d] \subseteq Counter
               /\ \A k \in writes'[d] : /\ k \in Counter
                                        /\ k < clients'[d].commit_counter
    <3>1. /\ \A x : RequestOK(d, x)' <=> RequestOK(d, x)
          /\ \A x : AnswerOK(d, x)' <=> AnswerOK(d, x)
      BY <1>2 DEF RequestOK, AnswerOK
    <3>2. \A u \in Threads : (sending[d][u] # NoRequest =>
                                RequestOK(d, sending[d][u]))'
      BY <1>2, <2>1 DEF ClientInv, SoundInv, RequestOK
    <3>3. AnswerOK(c, r)
      BY <1>4, <1>6 DEF AnswerOK, RequestOK
    <3>4. \A x \in Told(d)' : AnswerOK(d, x)
      BY <1>8, <2>1, <3>3 DEF ClientInv, SoundInv, OnlyFor
    <3>5. /\ \A x \in Asked(d)' : RequestOK(d, x)
          /\ answered'[d] \subseteq Counter
          /\ \A k \in writes'[d] : /\ k \in Counter
                                   /\ k < clients'[d].commit_counter
      BY <1>2, <1>8, <2>1 DEF ClientInv, SoundInv
    <3> QED
      BY <3>1, <3>2, <3>4, <3>5
  <2> QED
    BY <2>1 DEF SoundInv, Counter
<1>10. ASSUME NEW d \in Clients, NEW k
       PROVE  /\ Handed(d, k) => Handed(d, k)'
              /\ Handed(d, k)' =>
                   Handed(d, k) \/ (d = c /\ k = m.counter /\ m.read)
  <2>1. InPending(d, k)' = InPending(d, k) /\ answered' = answered
    BY <1>2 DEF InPending, ValueId
  <2>2. Told(d)' = Told(d) \cup OnlyFor(d, c, r)
    BY <1>8, <1>10
  <2>3. ASSUME NEW x \in OnlyFor(d, c, r), x.type = "RET"
        PROVE  d = c /\ x.counter = m.counter /\ m.read
    BY <1>4, <2>3 DEF OnlyFor
  <2> QED
    BY <2>1, <2>2, <2>3 DEF Handed
<1>11. PendingInv' /\ HistoryInv'
  <2>1. PendingInv'
    BY <1>2 DEF ClientInv, PendingInv, ValueId, Counter
  <2>2. ASSUME NEW d \in Clients, NEW k \in writes[d], Handed(d, k)'
        PROVE  Handed(d, k)
    <3>1. ~(d = c /\ k = m.counter /\ m.read)
      BY <1>6, <2>2 DEF RequestOK
    <3> QED
      BY <1>10, <2>2, <3>1
  <2>3. HistoryInv'
    BY <1>2, <1>10, <2>2 DEF ClientInv, HistoryInv, Counter
  <2> QED
    BY <2>1, <2>3
<1> QED
  BY <1>7, <1>9, <1>11 DEF ClientInv

(* A captain gets a write. *)
LEMMA WriteKeeps ==
  ASSUME ClientInv, CountersFit, TypeOK', NEW c \in Clients, NEW n \in Node,
         HandleWrite(c, n)
  PROVE  ClientInv'
<1>1. PICK m, id : m = Head(requests[c][n]) /\ id = ValueId(c, m.counter)
  OBVIOUS
<1>2. /\ TakeRequest(c, n) /\ ~m.read
      /\ pending' = [pending EXCEPT ![n] = @ \cup {id}]
      /\ committed' = Append(committed, <<c, m.counter>>)
      /\ UNCHANGED <<clients, sending, writes, replies, answered>>
  BY <1>1 DEF HandleWrite, TakeRequest
<1>3. m \in Request /\ m \in Asked(c)
  BY <1>1, <1>2, TakeRequestTyped, FirstIsAsked DEF ClientInv
<1>4. /\ RequestOK(c, m) /\ m.counter \in Counter
      /\ ~Handed(c, m.counter)
      /\ id \notin pending[n]
      /\ m.counter \in writes[c]
  <2>1. RequestOK(c, m)
    BY <1>3 DEF ClientInv, SoundInv
  <2> QED
    BY <1>1, <1>2, <1>3, <2>1, AskedOnly DEF RequestOK
<1>5. ASSUME NEW d \in Clients, NEW k \in Counter
      PROVE  Grows(InPending(d, k), InPending(d, k)', Hit(d, k, c, m.counter, 1))
  BY <1>1, <1>2, <1>4, <1>5, PendingAdded DEF ClientInv
<1>6. Counted'
  <2>1. ASSUME NEW d \in Clients, NEW k \in Counter PROVE Balanced(d, k)
    <3>1. PICK i, j \in Int : /\ i = Hit(d, k, c, m.counter, -1)
                              /\ j = Hit(d, k, c, m.counter, 1)
                              /\ j + i = 0
      BY HitIs
    <3>2. Grows(InRequests(d, k), InRequests(d, k)', i)
      BY <1>1, <1>2, <2>1, <3>1, RequestsTaken DEF ClientInv
    <3>3. Grows(InPending(d, k), InPending(d, k)', j)
      BY <1>5, <2>1, <3>1
    <3>4. /\ Grows(InSending(d, k), InSending(d, k)', 0)
          /\ Grows(InReplies(d, k), InReplies(d, k)', 0)
          /\ Grows(InAnswered(d, k), InAnswered(d, k)', 0)
      BY <1>2, PartsKept
    <3>5. Due(d, k)' = Due(d, k) + 0 + i + 0 + j + 0
      BY <1>2, <3>1 DEF Due
    <3> QED
      BY <3>2, <3>3, <3>4, <3>5 DEF Balanced
  <2> QED
    BY <2>1, BalancedCounted DEF ClientInv
<1>7. \A d \in Clients : Asked(d)' \subseteq Asked(d) /\ Told(d)' = Told(d)
  <2>1. ASSUME NEW d \in Clients
        PROVE  Asked(d) = Asked(d)' \cup OnlyFor(d, c, m) /\ Told(d)' = Told(d)
    BY <1>1, <1>2, <2>1, AskedTaken, MessagesKept DEF ClientInv
  <2> QED
    BY <2>1
<1>8. SoundInv'
  <2>1. ASSUME NEW d \in Clients
        PROVE  /\ \A u \in Threads : (sending[d][u] # NoRequest =>
                                        RequestOK(d, sending[d][u]))'
               /\ \A x \in Asked(d)' : RequestOK(d, x)'
               /\ \A x \in Told(d)' : AnswerOK(d, x)'
               /\ answered'[d] \subseteq Counter
               /\ \A k \in writes'[d] : /\ k \in Counter
                                        /\ k < clients'[d].commit_counter
    <3>1. /\ \A x : RequestOK(d, x)' <=> RequestOK(d, x)
          /\ \A x : AnswerOK(d, x)' <=> AnswerOK(d, x)
      BY <1>2 DEF RequestOK, AnswerOK
    <3>2. \A u \in Threads : (sending[d][u] # NoRequest =>
                                RequestOK(d, sending[d][u]))'
      BY <1>2, <2>1 DEF ClientInv, SoundInv, RequestOK
    <3>3. /\ \A x \in Asked(d)' : RequestOK(d, x)
          /\ \A x \in Told(d)' : AnswerOK(d, x)
          /\ answered'[d] \subseteq Counter
          /\ \A k \in writes'[d] : /\ k \in Counter
                                   /\ k < clients'[d].commit_counter
      BY <1>2, <1>7, <2>1 DEF ClientInv, SoundInv
    <3> QED
      BY <3>1, <3>2, <3>3
  <2> QED
    BY <2>1 DEF SoundInv, Counter
<1>9. PendingInv'
  <2>1. ASSUME NEW a \in Node, NEW x \in pending'[a]
        PROVE  \E d \in Clients : \E k \in Counter :
                 x = ValueId(d, k) /\ k \in writes[d]
    <3>1. x \in pending[a] \/ x = id
      BY <1>2, <2>1 DEF ClientInv, TypeOK
    <3> QED
      BY <1>1, <1>4, <2>1, <3>1 DEF ClientInv, PendingInv
  <2> QED
    BY <1>2, <2>1 DEF PendingInv, ValueId, Counter
<1>10. ASSUME NEW d \in Clients, NEW k \in Counter
       PROVE  Handed(d, k)' <=> Handed(d, k) \/ (d = c /\ k = m.counter)
  <2>1. Told(d)' = Told(d) /\ answered' = answered
    BY <1>2, <1>7, <1>10
  <2>2. InPending(d, k)' # {} <=>
          InPending(d, k) # {} \/ (d = c /\ k = m.counter)
    <3>1. \A a \in Node : ValueId(d, k) \in pending'[a] <=>
            ValueId(d, k) \in pending[a] \/ (a = n /\ ValueId(d, k) = id)
      BY <1>2 DEF ClientInv, TypeOK
    <3>2. ValueId(d, k) = id <=> d = c /\ k = m.counter
      BY <1>1, <1>4, <1>10, ValueIdsDiffer DEF Counter
    <3>3. InPending(d, k) # {} <=> \E a \in Node : ValueId(d, k) \in pending[a]
      BY DEF InPending
    <3>4. InPending(d, k)' # {} <=>
            \E a \in Node : ValueId(d, k) \in pending'[a]
      BY DEF InPending, ValueId
    <3> QED
      BY <3>1, <3>2, <3>3, <3>4
  <2> QED
    BY <2>1, <2>2 DEF Handed
<1>11. HistoryInv'
  <2>1. PICK l, new, e : /\ l = Len(committed) /\ new = committed'
                         /\ e = <<c, m.counter>>
    OBVIOUS
  <2>2. /\ committed \in Seq(Clients \X Nat) /\ e \in Clients \X Nat
        /\ l \in Nat /\ DOMAIN committed = 1 .. l
    BY <1>3, <2>1, LenProperties DEF ClientInv, TypeOK, Request
  <2>3. /\ DOMAIN new = 1 .. l + 1 /\ new[l + 1] = e
        /\ \A i \in 1 .. l : new[i] = committed[i]
    <3>1. /\ new \in Seq(Clients \X Nat) /\ Len(new) = l + 1
          /\ new[l + 1] = e /\ \A i \in 1 .. l : new[i] = committed[i]
      BY <1>2, <2>1, <2>2, AppendProperties
    <3> QED
      BY <3>1, LenProperties
  <2>4. \A i : i \in 1 .. l + 1 <=> i \in 1 .. l \/ i = l + 1
    BY <2>2
  <2>5. ~(l + 1 \in 1 .. l)
    BY <2>2
  <2>6. \A i \in 1 .. l : committed[i] # e
    <3> SUFFICES ASSUME NEW i \in 1 .. l, committed[i] = e PROVE FALSE
      OBVIOUS
    <3>1. PICK d \in Clients, k \in Counter :
            committed[i] = <<d, k>> /\ Handed(d, k)
      BY <2>2 DEF ClientInv, HistoryInv
    <3>2. d = c /\ k = m.counter
      BY <2>1, <3>1
    <3> QED
      BY <1>4, <3>1, <3>2
  <2>7. \A i \in DOMAIN new : \E d \in Clients : \E k \in Counter :
          new[i] = <<d, k>> /\ Handed(d, k)'
    <3> SUFFICES ASSUME NEW i \in 1 .. l + 1
                 PROVE  \E d \in Clients : \E k \in Counter :
                          new[i] = <<d, k>> /\ Handed(d, k)'
      BY <2>3
    <3>1. CASE i = l + 1
      BY <1>4, <1>10, <2>1, <2>3, <3>1
    <3>2. CASE i \in 1 .. l
      <4>1. PICK d \in Clients, k \in Counter :
              committed[i] = <<d, k>> /\ Handed(d, k)
        BY <2>2, <3>2 DEF ClientInv, HistoryInv
      <4> QED
        BY <1>10, <2>3, <3>2, <4>1
    <3> QED
      BY <2>4, <3>1, <3>2
  <2>8. \A i, j \in DOMAIN new : new[i] = new[j] => i = j
    <3>1. \A i, j \in 1 .. l : committed[i] = committed[j] => i = j
      BY <2>2 DEF ClientInv, HistoryInv
    <3> QED
      BY <2>3, <2>4, <2>6, <3>1
  <2>9. ASSUME NEW d \in Clients, NEW k \in writes[d], Handed(d, k)'
        PROVE  \E i \in DOMAIN new : new[i] = <<d, k>>
    <3>1. k \in Counter
      BY <2>9 DEF ClientInv, SoundInv
    <3>2. CASE d = c /\ k = m.counter
      <4>1. l + 1 \in DOMAIN new /\ new[l + 1] = <<d, k>>
        BY <2>1, <2>3, <2>4, <3>2
      <4> QED
        BY <4>1
    <3>3. CASE Handed(d, k)
      <4>1. PICK i \in DOMAIN committed : committed[i] = <<d, k>>
        BY <2>9, <3>3 DEF ClientInv, HistoryInv
      <4>2. i \in DOMAIN new /\ new[i] = <<d, k>>
        BY <2>2, <2>3, <2>4, <4>1
      <4> QED
        BY <4>2
    <3> QED
      BY <1>10, <2>9, <3>1, <3>2, <3>3
  <2> QED
    BY <1>2, <2>1, <2>7, <2>8, <2>9 DEF HistoryInv, Counter
<1> QED
  BY <1>6, <1>8, <1>9, <1>11 DEF ClientInv

(* A redirected write is sent again. *)
LEMMA MasterIdKeeps ==
  ASSUME ClientInv, TypeOK', NEW c \in Clients, NEW n \in Node,
         HandleMasterId(n, c)
  PROVE  ClientInv'
<1>1. PICK m, r : /\ m = Head(replies[n][c])
                  /\ r = [counter |-> m.counter, read |-> FALSE]
  OBVIOUS
<1>2. /\ TakeReply(n, c, "MASTER_ID")
      /\ requests' = [requests EXCEPT ![c][m.master] = Append(@, r)]
      /\ UNCHANGED <<sending, pending, writes, committed, answered>>
  BY <1>1 DEF HandleMasterId, TakeReply
<1>3. /\ m \in Answer /\ m.type = "MASTER_ID" /\ m \in Told(c)
      /\ m.master \in Node /\ r \in Request /\ r.counter = m.counter
      /\ r.read = FALSE
  <2>1. m \in Answer /\ m.type = "MASTER_ID" /\ m \in Told(c)
    BY <1>1, <1>2, TakeReplyTyped, FirstIsTold DEF ClientInv
  <2> QED
    BY <1>1, <2>1 DEF Answer, Request
<1>4. RequestOK(c, r)
  BY <1>3 DEF ClientInv, SoundInv, AnswerOK, RequestOK
<1>5. \A d \in Clients : clients'[d].commit_counter = clients[d].commit_counter
  BY SMTT(30) DEF HandleMasterId, ClientInv, TypeOK
<1>6. Counted'
  <2>1. ASSUME NEW d \in Clients, NEW k \in Counter PROVE Balanced(d, k)
    <3>1. PICK i, j \in Int : /\ i = Hit(d, k, c, m.counter, -1)
                              /\ j = Hit(d, k, c, m.counter, 1)
                              /\ j + i = 0
      BY HitIs
    <3>2. Grows(InReplies(d, k), InReplies(d, k)', i)
      BY <1>1, <1>2, <2>1, <3>1, RepliesTaken DEF ClientInv
    <3>3. Grows(InRequests(d, k), InRequests(d, k)', j)
      <4>1. Grows(InRequests(d, k), InRequests(d, k)', Hit(d, k, c, r.counter, 1))
        BY <1>2, <1>3, <2>1, RequestsAdded DEF ClientInv
      <4> QED
        BY <1>3, <3>1, <4>1
    <3>4. /\ Grows(InSending(d, k), InSending(d, k)', 0)
          /\ Grows(InPending(d, k), InPending(d, k)', 0)
          /\ Grows(InAnswered(d, k), InAnswered(d, k)', 0)
      BY <1>2, PartsKept
    <3>5. Due(d, k)' = Due(d, k) /\ Due(d, k) \in Int
      BY <1>5, <2>1 DEF Due
    <3>6. Due(d, k)' = Due(d, k) + 0 + j + i + 0 + 0
      BY <3>1, <3>5
    <3> QED
      BY <3>2, <3>3, <3>4, <3>6 DEF Balanced
  <2> QED
    BY <2>1, BalancedCounted DEF ClientInv
<1>7. \A d \in Clients : /\ Told(d) = Told(d)' \cup OnlyFor(d, c, m)
                         /\ Asked(d)' = Asked(d) \cup OnlyFor(d, c, r)
  <2>1. ASSUME NEW d \in Clients
        PROVE  /\ Told(d) = Told(d)' \cup OnlyFor(d, c, m)
               /\ Asked(d)' = Asked(d) \cup OnlyFor(d, c, r)
    <3>1. Told(d) = Told(d)' \cup OnlyFor(d, c, m)
      BY <1>1, <1>2, <2>1, ToldTaken DEF ClientInv
    <3>2. Asked(d)' = Asked(d) \cup OnlyFor(d, c, r)
      BY <1>2, <1>3, <2>1, AskedAdded DEF ClientInv
    <3> QED
      BY <3>1, <3>2
  <2> QED
    BY <2>1
<1>8. SoundInv'
  <2>1. ASSUME NEW d \in Clients
        PROVE  /\ \A u \in Threads : (sending[d][u] # NoRequest =>
                                        RequestOK(d, sending[d][u]))'
               /\ \A x \in Asked(d)' : RequestOK(d, x)'
               /\ \A x \in Told(d)' : AnswerOK(d, x)'
               /\ answered'[d] \subseteq Counter
               /\ \A k \in writes'[d] : /\ k \in Counter
                                        /\ k < clients'[d].commit_counter
    <3>1. /\ \A x : RequestOK(d, x)' <=> RequestOK(d, x)
          /\ \A x : AnswerOK(d, x)' <=> AnswerOK(d, x)
      BY <1>2 DEF RequestOK, AnswerOK
    <3>2. \A u \in Threads : (sending[d][u] # NoRequest =>
                                RequestOK(d, sending[d][u]))'
      BY <1>2, <2>1 DEF ClientInv, SoundInv, RequestOK
    <3>3. \A x \in Asked(d)' : RequestOK(d, x)
      BY <1>4, <1>7, <2>1 DEF ClientInv, SoundInv, OnlyFor
    <3>4. /\ \A x \in Told(d)' : AnswerOK(d, x)
          /\ answered'[d] \subseteq Counter
          /\ \A k \in writes'[d] : /\ k \in Counter
                                   /\ k < clients'[d].commit_counter
      BY <1>2, <1>5, <1>7, <2>1 DEF ClientInv, SoundInv
    <3> QED
      BY <3>1, <3>2, <3>3, <3>4
  <2> QED
    BY <2>1 DEF SoundInv, Counter
<1>9. \A d \in Clients : \A k : Handed(d, k)' <=> Handed(d, k)
  <2> SUFFICES ASSUME NEW d \in Clients, NEW k
               PROVE  Handed(d, k)' <=> Handed(d, k)
    OBVIOUS
  <2>1. InPending(d, k)' = InPending(d, k) /\ answered' = answered
    BY <1>2 DEF InPending, ValueId
  <2>2. \A x : x.type = "RET" => (x \in Told(d)' <=> x \in Told(d))
    BY <1>3, <1>7 DEF OnlyFor
  <2> QED
    BY <2>1, <2>2 DEF Handed
<1>10. PendingInv' /\ HistoryInv'
  <2>1. PendingInv'
    BY <1>2 DEF ClientInv, PendingInv, ValueId, Counter
  <2>2. HistoryInv'
    BY <1>2, <1>9 DEF ClientInv, HistoryInv, Counter
  <2> QED
    BY <2>1, <2>2
<1> QED
  BY <1>6, <1>8, <1>10 DEF ClientInv

(* An answer is taken, and perhaps another request made. *)
LEMMA RetKeeps ==
  ASSUME ClientInv, TypeOK', NEW c \in Clients, NEW n \in Node, Changes,
         HandleRet(n, c)
  PROVE  ClientInv'
<1>1. PICK m : m = Head(replies[n][c])
  OBVIOUS
<1>2. /\ TakeReply(n, c, "RET")
      /\ answered' = [answered EXCEPT ![c] = @ \cup {m.counter}]
      /\ UNCHANGED <<requests, pending, committed>>
  BY <1>1 DEF HandleRet, TakeReply
<1>3. /\ m \in Answer /\ m.type = "RET" /\ m \in Told(c)
      /\ m.counter \in Counter /\ m.counter \notin answered[c]
  <2>1. m \in Answer /\ m.type = "RET" /\ m \in Told(c)
    BY <1>1, <1>2, TakeReplyTyped, FirstIsTold DEF ClientInv
  <2> QED
    BY <2>1, ToldOnly
<1>4. Counted'
  <2>1. ASSUME NEW d \in Clients, NEW k \in Counter PROVE Balanced(d, k)
    <3>1. PICK i, j \in Int : /\ i = Hit(d, k, c, m.counter, -1)
                              /\ j = Hit(d, k, c, m.counter, 1)
                              /\ j + i = 0
      BY HitIs
    <3>2. Grows(InReplies(d, k), InReplies(d, k)', i)
      BY <1>1, <1>2, <2>1, <3>1, RepliesTaken DEF ClientInv
    <3>3. Grows(InAnswered(d, k), InAnswered(d, k)', j)
      BY <1>2, <1>3, <2>1, <3>1, AnsweredAdded DEF ClientInv
    <3>4. /\ Grows(InRequests(d, k), InRequests(d, k)', 0)
          /\ Grows(InPending(d, k), InPending(d, k)', 0)
      BY <1>2, PartsKept
    <3>5. PICK s \in Int : /\ Grows(InSending(d, k), InSending(d, k)', s)
                           /\ Due(d, k)' = Due(d, k) + s
      BY <2>1, ChangesGrow DEF ClientInv
    <3>6. Due(d, k)' = Due(d, k) + s + 0 + i + 0 + j
      BY <3>1, <3>5 DEF Due
    <3> QED
      BY <3>2, <3>3, <3>4, <3>5, <3>6 DEF Balanced
  <2> QED
    BY <2>1, BalancedCounted DEF ClientInv
<1>5. \A d \in Clients : /\ Told(d) = Told(d)' \cup OnlyFor(d, c, m)
                         /\ Asked(d)' = Asked(d)
  <2>1. ASSUME NEW d \in Clients
        PROVE  Told(d) = Told(d)' \cup OnlyFor(d, c, m)
    BY <1>1, <1>2, <2>1, ToldTaken DEF ClientInv
  <2> QED
    BY <1>2, <2>1, MessagesKept
<1>6. \A d \in Clients : answered'[d] = answered[d]
                           \cup (IF d = c THEN {m.counter} ELSE {})
  BY <1>2 DEF ClientInv, TypeOK
<1>7. SoundInv'
  <2>1. ASSUME NEW d \in Clients
        PROVE  /\ \A u \in Threads : (sending[d][u] # NoRequest =>
                                        RequestOK(d, sending[d][u]))'
               /\ \A x \in Asked(d)' : RequestOK(d, x)'
               /\ \A x \in Told(d)' : AnswerOK(d, x)'
               /\ answered'[d] \subseteq Counter
               /\ \A k \in writes'[d] : /\ k \in Counter
                                        /\ k < clients'[d].commit_counter
    <3>1. /\ \A u \in Threads : (sending[d][u] # NoRequest =>
                                   RequestOK(d, sending[d][u]))'
          /\ \A x \in Asked(d) : RequestOK(d, x)'
          /\ \A x \in Told(d) : AnswerOK(d, x)'
          /\ \A k \in writes'[d] : /\ k \in Counter
                                   /\ k < clients'[d].commit_counter
      BY <2>1, ChangesSound
    <3>2. answered'[d] \subseteq Counter
      BY <1>3, <1>6, <2>1 DEF ClientInv, SoundInv
    <3> QED
      BY <1>5, <2>1, <3>1, <3>2
  <2> QED
    BY <2>1 DEF SoundInv, Counter
<1>8. \A d \in Clients : writes[d] \subseteq writes'[d]
  BY ChangesSound
<1>9. PendingInv'
  BY <1>2, <1>8 DEF ClientInv, PendingInv, ValueId, Counter
<1>10. \A d \in Clients : \A k : Handed(d, k)' <=> Handed(d, k)
  <2> SUFFICES ASSUME NEW d \in Clients, NEW k
               PROVE  Handed(d, k)' <=> Handed(d, k)
    OBVIOUS
  <2>1. InPending(d, k)' = InPending(d, k)
    BY <1>2 DEF InPending, ValueId
  <2>2. k \in answered'[d] <=> k \in answered[d] \/ (d = c /\ k = m.counter)
    BY <1>6
  <2>3. (\E x \in Told(d) : x.type = "RET" /\ x.counter = k)
        <=> \/ \E x \in Told(d)' : x.type = "RET" /\ x.counter = k
            \/ d = c /\ k = m.counter
    BY <1>3, <1>5 DEF OnlyFor
  <2> QED
    BY <2>1, <2>2, <2>3 DEF Handed
<1>11. HistoryInv'
  <2>1. /\ \A i \in DOMAIN committed : \E d \in Clients : \E k \in Counter :
             committed[i] = <<d, k>> /\ Handed(d, k)'
        /\ \A i, j \in DOMAIN committed : committed[i] = committed[j] => i = j
    BY <1>10 DEF ClientInv, HistoryInv
  <2>2. ASSUME NEW d \in Clients, NEW k \in writes'[d], Handed(d, k)'
        PROVE  \E i \in DOMAIN committed : committed[i] = <<d, k>>
    <3>1. Handed(d, k)
      BY <1>10, <2>2
    <3>2. k \in writes[d]
      BY <2>2, <3>1, ChangesNew
    <3> QED
      BY <3>1, <3>2 DEF ClientInv, HistoryInv
  <2> QED
    BY <1>2, <2>1, <2>2 DEF HistoryInv, Counter
<1> QED
  BY <1>4, <1>7, <1>9, <1>11 DEF ClientInv

(* A captain answers. *)
LEMMA CommittedKeeps ==
  ASSUME ClientInv, CountersFit, TypeOK', NEW n \in Node, Committed(n)
  PROVE  ClientInv'
<1>1. PICK id \in pending[n] :
        /\ pending' = [pending EXCEPT ![n] = @ \ {id}]
        /\ Tell(n, ClientOf(id), "RET", CounterOf(id))
        /\ UNCHANGED <<clients, sending, requests, views, writes,
                       committed, answered>>
  BY DEF Committed
<1>2. PICK c \in Clients, l \in Counter : id = ValueId(c, l) /\ l \in writes[c]
  BY <1>1 DEF ClientInv, PendingInv
<1>3. ClientOf(id) = c /\ CounterOf(id) = l
  BY <1>2, ValueIdInverse DEF Counter
<1>4. PICK m : m = [type |-> "RET", counter |-> l, master |-> MasterOf(n)]
  OBVIOUS
<1>5. m \in Answer /\ m.counter = l /\ m.type = "RET"
  BY <1>4, MasterIsNode, CounterNat DEF ClientInv, Answer
<1>6. replies' = [replies EXCEPT ![n][c] = Append(@, m)]
  BY <1>1, <1>3, <1>4 DEF Tell
<1>7. /\ ValueId(c, l) \in pending[n]
      /\ pending' = [pending EXCEPT ![n] = @ \ {ValueId(c, l)}]
  BY <1>1, <1>2
<1>8. Counted'
  <2>1. ASSUME NEW d \in Clients, NEW k \in Counter PROVE Balanced(d, k)
    <3>1. PICK i, j \in Int : /\ i = Hit(d, k, c, l, -1)
                              /\ j = Hit(d, k, c, l, 1)
                              /\ j + i = 0
      BY HitIs
    <3>2. Grows(InPending(d, k), InPending(d, k)', i)
      BY <1>7, <2>1, <3>1, PendingTaken DEF ClientInv
    <3>3. Grows(InReplies(d, k), InReplies(d, k)', j)
      <4>1. Grows(InReplies(d, k), InReplies(d, k)', Hit(d, k, c, m.counter, 1))
        BY <1>5, <1>6, <2>1, RepliesAdded DEF ClientInv
      <4> QED
        BY <1>5, <3>1, <4>1
    <3>4. /\ Grows(InSending(d, k), InSending(d, k)', 0)
          /\ Grows(InRequests(d, k), InRequests(d, k)', 0)
          /\ Grows(InAnswered(d, k), InAnswered(d, k)', 0)
      BY <1>1, PartsKept
    <3>5. Due(d, k)' = Due(d, k) + 0 + 0 + j + i + 0
      BY <1>1, <3>1 DEF Due
    <3> QED
      BY <3>2, <3>3, <3>4, <3>5 DEF Balanced
  <2> QED
    BY <2>1, BalancedCounted DEF ClientInv
<1>9. \A d \in Clients : /\ Asked(d)' = Asked(d)
                         /\ Told(d)' = Told(d) \cup OnlyFor(d, c, m)
  <2>1. ASSUME NEW d \in Clients
        PROVE  Told(d)' = Told(d) \cup OnlyFor(d, c, m)
    BY <1>5, <1>6, <2>1, ToldAdded DEF ClientInv
  <2> QED
    BY <1>1, <2>1, MessagesKept
<1>10. SoundInv'
  <2>1. ASSUME NEW d \in Clients
        PROVE  /\ \A u \in Threads : (sending[d][u] # NoRequest =>
                                        RequestOK(d, sending[d][u]))'
               /\ \A x \in Asked(d)' : RequestOK(d, x)'
               /\ \A x \in Told(d)' : AnswerOK(d, x)'
               /\ answered'[d] \subseteq Counter
               /\ \A k \in writes'[d] : /\ k \in Counter
                                        /\ k < clients'[d].commit_counter
    <3>1. /\ \A x : RequestOK(d, x)' <=> RequestOK(d, x)
          /\ \A x : AnswerOK(d, x)' <=> AnswerOK(d, x)
      BY <1>1 DEF RequestOK, AnswerOK
    <3>2. \A u \in Threads : (sending[d][u] # NoRequest =>
                                RequestOK(d, sending[d][u]))'
      BY <1>1, <2>1 DEF ClientInv, SoundInv, RequestOK
    <3>3. AnswerOK(c, m)
      BY <1>5 DEF AnswerOK
    <3>4. \A x \in Told(d)' : AnswerOK(d, x)
      BY <1>9, <2>1, <3>3 DEF ClientInv, SoundInv, OnlyFor
    <3>5. /\ \A x \in Asked(d)' : RequestOK(d, x)
          /\ answered'[d] \subseteq Counter
          /\ \A k \in writes'[d] : /\ k \in Counter
                                   /\ k < clients'[d].commit_counter
      BY <1>1, <1>9, <2>1 DEF ClientInv, SoundInv
    <3> QED
      BY <3>1, <3>2, <3>4, <3>5
  <2> QED
    BY <2>1 DEF SoundInv, Counter
<1>11. PendingInv'
  <2>1. ASSUME NEW a \in Node, NEW x \in pending'[a]
        PROVE  \E d \in Clients : \E k \in Counter :
                 x = ValueId(d, k) /\ k \in writes[d]
    <3>1. x \in pending[a]
      BY <1>1, <2>1 DEF ClientInv, TypeOK
    <3> QED
      BY <2>1, <3>1 DEF ClientInv, PendingInv
  <2> QED
    BY <1>1, <2>1 DEF PendingInv, ValueId, Counter
<1>12. ASSUME NEW d \in Clients, NEW k \in Counter
       PROVE  Handed(d, k)' <=> Handed(d, k)
  <2>1. answered' = answered
    BY <1>1
  <2>2. (\E x \in Told(d)' : x.type = "RET" /\ x.counter = k)
        <=> \/ \E x \in Told(d) : x.type = "RET" /\ x.counter = k
            \/ d = c /\ k = l
    BY <1>5, <1>9, <1>12 DEF OnlyFor
  <2>3. InPending(d, k) # {} <=> \E a \in Node : ValueId(d, k) \in pending[a]
    BY DEF InPending
  <2>4. InPending(d, k)' # {} <=> \E a \in Node : ValueId(d, k) \in pending'[a]
    BY DEF InPending, ValueId
  <2>5. \A a \in Node : ValueId(d, k) \in pending'[a] <=>
          ValueId(d, k) \in pending[a] /\ ~(a = n /\ ValueId(d, k) = id)
    BY <1>1 DEF ClientInv, TypeOK
  <2>6. CASE d = c /\ k = l
    <3>1. InPending(d, k) # {}
      BY <1>7, <2>3, <2>6
    <3> QED
      BY <2>2, <2>6, <3>1 DEF Handed
  <2>7. CASE ~(d = c /\ k = l)
    <3>1. ValueId(d, k) # id
      BY <1>2, <1>12, <2>7, ValueIdsDiffer DEF Counter
    <3>2. InPending(d, k) # {} <=> InPending(d, k)' # {}
      BY <2>3, <2>4, <2>5, <3>1
    <3> QED
      BY <2>1, <2>2, <2>7, <3>2 DEF Handed
  <2> QED
    BY <2>6, <2>7
<1>13. HistoryInv'
  <2>1. /\ \A i \in DOMAIN committed : \E d \in Clients : \E k \in Counter :
             committed[i] = <<d, k>> /\ Handed(d, k)'
        /\ \A i, j \in DOMAIN committed : committed[i] = committed[j] => i = j
    BY <1>12 DEF ClientInv, HistoryInv
  <2>2. ASSUME NEW d \in Clients, NEW k \in writes[d], Handed(d, k)'
        PROVE  \E i \in DOMAIN committed : committed[i] = <<d, k>>
    <3>1. k \in Counter
      BY <2>2 DEF ClientInv, SoundInv
    <3>2. Handed(d, k)
      BY <1>12, <2>2, <3>1
    <3> QED
      BY <2>2, <3>2 DEF ClientInv, HistoryInv
  <2> QED
    BY <1>1, <2>1, <2>2 DEF HistoryInv, Counter
<1> QED
  BY <1>8, <1>10, <1>11, <1>13 DEF ClientInv

LEMMA InitInv == Init => ClientInv
<1> SUFFICES ASSUME Init PROVE ClientInv
  OBVIOUS
<1>1. TypeOK
  BY InitTyped
<1>2. \A c \in Clients : Asked(c) = {} /\ Told(c) = {}
  BY DEF Init, Asked, Told, AllIn
<1>3. Counted
  <2>1. ASSUME NEW c \in Clients, NEW k \in Counter
        PROVE  Countable(c, k) /\ Copies(c, k) = Due(c, k)
    <3>1. InRequests(c, k) = {} /\ InReplies(c, k) = {}
      BY <1>2, PlacesAndMessages
    <3>2. InSending(c, k) = {}
      <4>1. k # -1
        BY CounterNat
      <4>2. \A t \in Threads : sending[c][t].counter = -1
        BY NoRequestOK DEF Init
      <4> QED
        BY <4>1, <4>2 DEF InSending
    <3>3. InPending(c, k) = {} /\ InAnswered(c, k) = {}
      BY DEF Init, InPending, InAnswered
    <3>4. Due(c, k) = 0
      <4>1. clients[c].commit_counter = 0
        BY DEF Init
      <4> QED
        BY <4>1, CounterNat DEF Due
    <3>5. /\ IsFiniteSet({}) /\ Cardinality({}) = 0
      BY FS_EmptySet
    <3>6. Countable(c, k)
      BY <3>1, <3>2, <3>3, <3>5 DEF Countable
    <3>7. Copies(c, k) = 0
      BY <3>1, <3>2, <3>3, <3>5 DEF Copies, InAnswered
    <3> QED
      BY <3>4, <3>6, <3>7
  <2> QED
    BY <2>1 DEF Counted
<1>4. SoundInv
  BY <1>2 DEF Init, SoundInv
<1>5. PendingInv
  BY DEF Init, PendingInv
<1>6. HistoryInv
  <2>1. \A c \in Clients : writes[c] = {}
    BY DEF Init
  <2>2. DOMAIN committed = {}
    BY DEF Init
  <2> QED
    BY <2>1, <2>2 DEF HistoryInv
<1> QED
  BY <1>1, <1>3, <1>4, <1>5, <1>6 DEF ClientInv

LEMMA StartChanges ==
  ASSUME TypeOK, NEW c \in Clients, Start(c)
  PROVE  /\ Changes
         /\ UNCHANGED <<requests, pending, replies, committed, answered>>
<1>1. PICK d : d = [clients[c] EXCEPT !.started = @ + 1]
  OBVIOUS
<1>2. clients[c] \in ClientStates /\ clients[c].started + 1 \in 0 .. Window
  BY Setting, ClientTyped DEF Start, ClientStates
<1>3. d \in ClientStates /\ d.commit_counter = clients[c].commit_counter
  BY <1>1, <1>2 DEF ClientStates
<1>4. Make(c, "main", d) /\ sending[c]["main"] = NoRequest
  BY <1>1 DEF Start
<1>5. Makes(c, "main", d)
  BY <1>3, <1>4, MakeMakes
<1>6. \E m \in Request : NewRequest(c, "main", m)
  BY <1>3, <1>4, <1>5, MakesNew DEF Threads
<1> QED
  BY <1>6 DEF Start, Changes, Threads

LEMMA RetChanges ==
  ASSUME TypeOK, NEW c \in Clients, NEW n \in Node, HandleRet(n, c)
  PROVE  Changes
<1>1. CASE Make(c, "listener", clients[c])
  <2>1. Makes(c, "listener", clients[c])
    BY <1>1, ClientTyped, MakeMakes
  <2>2. sending[c]["listener"] = NoRequest
    BY DEF HandleRet, TakeReply
  <2>3. \E m \in Request : NewRequest(c, "listener", m)
    BY <2>1, <2>2, ClientTyped, MakesNew DEF Threads
  <2> QED
    BY <2>3 DEF Changes, Threads
<1>2. CASE UNCHANGED <<clients, sending, writes>>
  BY <1>2 DEF Changes, NoNewRequest
<1> QED
  BY <1>1, <1>2 DEF HandleRet

LEMMA NextInv == CountersFit /\ ClientInv /\ [Next]_vars => ClientInv'
<1> SUFFICES ASSUME CountersFit, ClientInv, [Next]_vars PROVE ClientInv'
  OBVIOUS
<1>1. TypeOK /\ TypeOK'
  BY NextTyped DEF ClientInv
<1>2. ASSUME NEW c \in Clients, Start(c) PROVE ClientInv'
  BY <1>1, <1>2, StartChanges, StartKeeps
<1>3. ASSUME NEW c \in Clients, Finish(c) PROVE ClientInv'
  <2>1. NoNewRequest
    BY <1>1, <1>3 DEF Finish, NoNewRequest, TypeOK
  <2> QED
    BY <1>1, <1>3, <2>1, StartKeeps DEF Finish, Changes
<1>4. ASSUME NEW c \in Clients, NEW t \in Threads, Send(c, t)
      PROVE  ClientInv'
  BY <1>1, <1>4, SendKeeps
<1>5. ASSUME NEW c \in Clients, NEW n \in Node, Receive(c, n)
      PROVE  ClientInv'
  BY <1>1, <1>5, AnswerKeeps, WriteKeeps DEF Receive
<1>6. ASSUME NEW c \in Clients, NEW n \in Node, HandleReply(n, c)
      PROVE  ClientInv'
  BY <1>1, <1>6, RetChanges, RetKeeps, MasterIdKeeps DEF HandleReply
<1>7. ASSUME NEW n \in Node, Committed(n) PROVE ClientInv'
  BY <1>1, <1>7, CommittedKeeps
<1>8. CASE (\E n \in Node : SetMaster(n)) \/ UNCHANGED vars
  <2>1. UNCHANGED <<clients, sending, requests, pending, replies, writes,
                    committed, answered>>
    BY <1>8 DEF SetMaster, vars
  <2>2. NoNewRequest
    BY <2>1 DEF NoNewRequest
  <2> QED
    BY <1>1, <2>1, <2>2, StartKeeps DEF Changes
<1> QED
  BY <1>2, <1>3, <1>4, <1>5, <1>6, <1>7, <1>8 DEF Next

LEMMA InvConserved == ClientInv => Conserved
BY DEF ClientInv, Counted, Conserved, Counter, Due

LEMMA InvCommittedOnce == ClientInv => CommittedOnce
<1> SUFFICES ASSUME ClientInv PROVE CommittedOnce
  OBVIOUS
<1>1. ASSUME NEW c \in Clients, NEW k \in answered[c] \cap writes[c]
      PROVE  \E i \in DOMAIN committed : committed[i] = <<c, k>>
  BY <1>1 DEF ClientInv, HistoryInv, Handed
<1>2. \A i, j \in DOMAIN committed : committed[i] = committed[j] => i = j
  BY DEF ClientInv, HistoryInv
<1> QED
  BY <1>1, <1>2 DEF CommittedOnce

(* As long as the numbers fit into the ids of values: every request that   *)
(* was made is in exactly one place, thread, queue, captain or answer,     *)
(* whatever the servers think of the master (client.cpp 61-98, 199-260).   *)
THEOREM RequestsAreConserved == CountersFit => (Spec => []Conserved)
<1> SUFFICES ASSUME CountersFit PROVE Spec => []Conserved
  OBVIOUS
<1>1. ClientInv /\ [Next]_vars => ClientInv'
  BY NextInv
<1> QED
  BY <1>1, InitInv, InvConserved, PTL DEF Spec

(* No write is given to captains twice, and none is answered that was not  *)
(* given to one, however often it was redirected (captain.cpp 451-485).    *)
THEOREM WritesCommittedOnce == CountersFit => (Spec => []CommittedOnce)
<1> SUFFICES ASSUME CountersFit PROVE Spec => []CommittedOnce
  OBVIOUS
<1>1. ClientInv /\ [Next]_vars => ClientInv'
  BY NextInv
<1> QED
  BY <1>1, InitInv, InvCommittedOnce, PTL DEF Spec

-----------------------------------------------------------------------------
(* The window of a client *)

Progressed(c) ==
  LET k == clients[c].commit_counter
      s == clients[c].started
      a == Cardinality(answered[c])
  IN  /\ a \in Nat /\ k =< a + s
      /\ ~clients[c].done /\ k < MaxCounter => k = a + s

ProgressInv == \A c \in Clients : Progressed(c)

LEMMA ProgressKept ==
  ASSUME TypeOK, NEW c \in Clients, Progressed(c),
         answered'[c] = answered[c],
         clients'[c].commit_counter = clients[c].commit_counter,
         clients'[c].started = clients[c].started,
         clients[c].done => clients'[c].done
  PROVE  Progressed(c)'
<1>1. clients[c].done \in BOOLEAN
  BY DEF TypeOK
<1> QED
  BY <1>1 DEF Progressed

(* A new request, field by field *)
Advances(c, d) == \E k, rand \in Nat :
  /\ k = d.commit_counter /\ k < MaxCounter
  /\ Ratio \in {10, 90} => \E new \in 0 .. Block - 1 :
                             rand = RandCounter(k, d.rand_counter, new)
  /\ clients'[c].commit_counter = k + 1
  /\ clients'[c].rand_counter = rand
  /\ clients'[c].started = d.started
  /\ clients'[c].done = d.done
  /\ writes'[c] = IF IsRead(k, rand) THEN writes[c] ELSE writes[c] \cup {k}
  /\ \A x \in Clients \ {c} : clients'[x] = clients[x] /\ writes'[x] = writes[x]

LEMMA MakesAdvances ==
  ASSUME TypeOK, NEW c \in Clients, NEW t, NEW d \in ClientStates,
         Makes(c, t, d)
  PROVE  Advances(c, d)
<1>1. PICK k \in Nat, rand \in Nat, m \in Request :
        /\ k = d.commit_counter /\ k < MaxCounter
        /\ m.counter = k /\ m.read = IsRead(k, rand)
        /\ Ratio \in {10, 90} => \E new \in 0 .. Block - 1 :
                                   rand = RandCounter(k, d.rand_counter, new)
        /\ clients' = [clients EXCEPT
             ![c] = [d EXCEPT !.commit_counter = k + 1, !.rand_counter = rand]]
        /\ writes' = IF m.read THEN writes
                             ELSE [writes EXCEPT ![c] = @ \cup {k}]
  BY DEF Makes
<1>2. PICK e : e = [d EXCEPT !.commit_counter = k + 1, !.rand_counter = rand]
  OBVIOUS
<1>3. /\ e.commit_counter = k + 1 /\ e.rand_counter = rand
      /\ e.started = d.started /\ e.done = d.done
  BY <1>2 DEF ClientStates
<1>4. clients'[c] = e /\ \A x \in Clients \ {c} : clients'[x] = clients[x]
  BY <1>1, <1>2 DEF TypeOK
<1>5. /\ writes'[c] = IF IsRead(k, rand) THEN writes[c] ELSE writes[c] \cup {k}
      /\ \A x \in Clients \ {c} : writes'[x] = writes[x]
  BY <1>1 DEF TypeOK
<1> QED
  BY <1>1, <1>3, <1>4, <1>5 DEF Advances

LEMMA StartAdvances ==
  ASSUME TypeOK, NEW c \in Clients, Start(c)
  PROVE  \E d \in ClientStates :
           /\ Advances(c, d)
           /\ d.commit_counter = clients[c].commit_counter
           /\ d.rand_counter = clients[c].rand_counter
           /\ d.started = clients[c].started + 1
           /\ d.done = clients[c].done
<1>1. PICK d : d = [clients[c] EXCEPT !.started = @ + 1]
  OBVIOUS
<1>2. clients[c] \in ClientStates /\ clients[c].started + 1 \in 0 .. Window
  BY Setting, ClientTyped DEF Start, ClientStates
<1>3. d \in ClientStates
  BY <1>1, <1>2 DEF ClientStates
<1>4. /\ d.commit_counter = clients[c].commit_counter
      /\ d.rand_counter = clients[c].rand_counter
      /\ d.started = clients[c].started + 1 /\ d.done = clients[c].done
  BY <1>1, <1>2 DEF ClientStates
<1>5. Make(c, "main", d)
  BY <1>1 DEF Start
<1>6. Advances(c, d)
  BY <1>3, <1>5, MakeMakes, MakesAdvances
<1> QED
  BY <1>3, <1>4, <1>6

LEMMA RetAdvances ==
  ASSUME TypeOK, NEW c \in Clients, NEW n \in Node, HandleRet(n, c)
  PROVE  \/ Advances(c, clients[c])
         \/ /\ clients[c].done \/ clients[c].commit_counter = MaxCounter
            /\ UNCHANGED <<clients, writes>>
<1>1. CASE Make(c, "listener", clients[c])
  <2>1. clients[c] \in ClientStates
    BY ClientTyped
  <2> QED
    BY <1>1, <2>1, MakeMakes, MakesAdvances
<1> QED
  BY <1>1 DEF HandleRet

LEMMA StartProgress ==
  ASSUME ClientInv, ProgressInv, NEW c \in Clients, Start(c)
  PROVE  ProgressInv'
<1>1. PICK d \in ClientStates :
        /\ Advances(c, d)
        /\ d.commit_counter = clients[c].commit_counter
        /\ d.started = clients[c].started + 1
        /\ d.done = clients[c].done
  BY StartAdvances DEF ClientInv
<1>2. PICK k \in Nat :
        /\ k = d.commit_counter /\ clients'[c].commit_counter = k + 1
        /\ clients'[c].started = d.started /\ clients'[c].done = d.done
        /\ \A x \in Clients \ {c} : clients'[x] = clients[x]
  BY <1>1 DEF Advances
<1>3. answered' = answered
  BY DEF Start
<1>4. clients[c].started \in Nat /\ clients[c].done \in BOOLEAN
  BY Setting, ClientTyped DEF ClientInv, ClientStates
<1>5. Progressed(c)'
  <2>1. PICK s, a \in Nat :
          s = clients[c].started /\ a = Cardinality(answered[c])
    BY <1>4 DEF ProgressInv, Progressed
  <2>2. k =< a + s /\ (~clients[c].done /\ k < MaxCounter => k = a + s)
    BY <1>1, <1>2, <2>1 DEF ProgressInv, Progressed
  <2>3. /\ clients'[c].commit_counter = k + 1
        /\ clients'[c].started = s + 1
        /\ clients'[c].done = clients[c].done
        /\ Cardinality(answered'[c]) = a
    BY <1>1, <1>2, <1>3, <2>1
  <2>4. MaxCounter \in Nat
    BY Setting
  <2> QED
    BY <2>1, <2>2, <2>3, <2>4 DEF Progressed
<1>6. \A x \in Clients \ {c} : Progressed(x)'
  BY <1>2, <1>3, ProgressKept DEF ProgressInv, ClientInv
<1> QED
  BY <1>5, <1>6 DEF ProgressInv

LEMMA RetProgress ==
  ASSUME ClientInv, ProgressInv, NEW c \in Clients, NEW n \in Node,
         HandleRet(n, c)
  PROVE  ProgressInv'
<1>1. PICK m : m = Head(replies[n][c])
  OBVIOUS
<1>2. /\ TakeReply(n, c, "RET")
      /\ answered' = [answered EXCEPT ![c] = @ \cup {m.counter}]
  BY <1>1 DEF HandleRet
<1>3. m \in Told(c)
  BY <1>1, <1>2, FirstIsTold DEF ClientInv
<1>4. m.counter \notin answered[c]
  BY <1>3, ToldOnly
<1>5. /\ answered'[c] = answered[c] \cup {m.counter}
      /\ \A x \in Clients \ {c} : answered'[x] = answered[x]
  BY <1>2 DEF ClientInv, TypeOK
<1>6. Cardinality(answered'[c]) = Cardinality(answered[c]) + 1
  <2>1. IsFiniteSet(Counter)
    BY Setting, FS_Interval DEF Counter
  <2>2. IsFiniteSet(answered[c])
    BY <2>1, FS_Subset DEF ClientInv, SoundInv
  <2> QED
    BY <1>4, <1>5, <2>2, FS_AddElement
<1>7. PICK a, k, s \in Nat :
        /\ a = Cardinality(answered[c]) /\ k = clients[c].commit_counter
        /\ s = clients[c].started
  BY ClientTyped, Setting DEF ProgressInv, Progressed, ClientInv, ClientStates
<1>8. k =< a + s /\ (~clients[c].done /\ k < MaxCounter => k = a + s)
  BY <1>7 DEF ProgressInv, Progressed
<1>9. MaxCounter \in Nat /\ clients[c].done \in BOOLEAN
  BY Setting, ClientTyped DEF ClientInv, ClientStates
<1>10. CASE Advances(c, clients[c])
  <2>1. /\ clients'[c].commit_counter = k + 1 /\ k < MaxCounter
        /\ clients'[c].started = s /\ clients'[c].done = clients[c].done
        /\ \A x \in Clients \ {c} : clients'[x] = clients[x]
    BY <1>7, <1>10 DEF Advances
  <2>2. Progressed(c)'
    BY <1>6, <1>7, <1>8, <1>9, <2>1 DEF Progressed
  <2>3. \A x \in Clients \ {c} : Progressed(x)'
    BY <1>5, <2>1, ProgressKept DEF ProgressInv, ClientInv
  <2> QED
    BY <2>2, <2>3 DEF ProgressInv
<1>11. CASE /\ clients[c].done \/ clients[c].commit_counter = MaxCounter
            /\ UNCHANGED clients
  <2>1. Progressed(c)'
    BY <1>6, <1>7, <1>8, <1>9, <1>11 DEF Progressed
  <2>2. \A x \in Clients \ {c} : Progressed(x)'
    BY <1>5, <1>11, ProgressKept DEF ProgressInv, ClientInv
  <2> QED
    BY <2>1, <2>2 DEF ProgressInv
<1> QED
  BY <1>10, <1>11, RetAdvances DEF ClientInv

(* Nothing but a new request and an answer matters. *)
LEMMA NextProgress ==
  ClientInv /\ ProgressInv /\ [Next]_vars => ProgressInv'
<1> SUFFICES ASSUME ClientInv, ProgressInv, [Next]_vars PROVE ProgressInv'
  OBVIOUS
<1>1. ASSUME UNCHANGED answered,
             \A x \in Clients :
               /\ clients'[x].commit_counter = clients[x].commit_counter
               /\ clients'[x].started = clients[x].started
               /\ clients[x].done => clients'[x].done
      PROVE  ProgressInv'
  BY <1>1, ProgressKept DEF ProgressInv, ClientInv
<1>2. ASSUME NEW c \in Clients, Finish(c) PROVE ProgressInv'
  <2>1. PICK d : d = [clients[c] EXCEPT !.done = TRUE]
    OBVIOUS
  <2>2. /\ d.commit_counter = clients[c].commit_counter
        /\ d.started = clients[c].started /\ d.done
    BY <2>1, ClientTyped DEF ClientInv, ClientStates
  <2>3. /\ clients'[c] = d /\ \A x \in Clients \ {c} : clients'[x] = clients[x]
        /\ UNCHANGED answered
    BY <1>2, <2>1 DEF Finish, ClientInv, TypeOK
  <2> QED
    BY <1>1, <2>2, <2>3
<1>3. ASSUME NEW c \in Clients, NEW n \in Node, HandleMasterId(n, c)
      PROVE  ProgressInv'
  <2>1. PICK d : d = [clients[c] EXCEPT
                        !.master_id = Head(replies[n][c]).master]
    OBVIOUS
  <2>2. /\ d.commit_counter = clients[c].commit_counter
        /\ d.started = clients[c].started /\ d.done = clients[c].done
    BY <2>1, ClientTyped DEF ClientInv, ClientStates
  <2>3. /\ clients'[c] = d /\ \A x \in Clients \ {c} : clients'[x] = clients[x]
        /\ UNCHANGED answered
    BY <1>3, <2>1 DEF HandleMasterId, ClientInv, TypeOK
  <2> QED
    BY <1>1, <2>2, <2>3
<1>4. ASSUME UNCHANGED <<clients, answered>> PROVE ProgressInv'
  BY <1>1, <1>4
<1>5. ASSUME NEW c \in Clients, NEW t \in Threads, Send(c, t)
      PROVE  ProgressInv'
  BY <1>4, <1>5 DEF Send
<1>6. ASSUME NEW c \in Clients, NEW n \in Node, Receive(c, n)
      PROVE  ProgressInv'
  BY <1>4, <1>6 DEF Receive, HandleRead, HandleWrite, Redirect, TakeRequest
<1>7. ASSUME NEW n \in Node, Committed(n) \/ SetMaster(n) PROVE ProgressInv'
  BY <1>4, <1>7 DEF Committed, SetMaster
<1>8. CASE UNCHANGED vars
  BY <1>4, <1>8 DEF vars
<1> QED
  BY <1>2, <1>3, <1>5, <1>6, <1>7, <1>8, StartProgress, RetProgress
  DEF Next, HandleReply

LEMMA InitProgress == Init => ProgressInv
<1>1. Cardinality({}) = 0
  BY FS_EmptySet
<1> QED
  BY <1>1 DEF Init, ProgressInv, Progressed

LEMMA ProgressWindow == TypeOK /\ ProgressInv => WindowFull
<1> SUFFICES ASSUME TypeOK, ProgressInv, NEW c \in Clients
             PROVE  /\ Outstanding(c) <= Window
                    /\ (/\ clients[c].started = Window /\ ~clients[c].done
                        /\ clients[c].commit_counter < MaxCounter)
                       => Outstanding(c) = Window
  BY DEF WindowFull
<1>1. PICK a, k, s \in Nat :
        /\ a = Cardinality(answered[c]) /\ k = clients[c].commit_counter
        /\ s = clients[c].started /\ s =< Window
  BY ClientTyped, Setting DEF ProgressInv, Progressed, ClientStates
<1>2. k =< a + s /\ (~clients[c].done /\ k < MaxCounter => k = a + s)
  BY <1>1 DEF ProgressInv, Progressed
<1> QED
  BY <1>1, <1>2, Setting DEF Outstanding

(* A client has never more than com_win_ requests under way, and exactly   *)
(* as many from its start until it stops, whatever happens to its requests *)
(* at the servers (client.cpp 61, 219).                                    *)
THEOREM WindowIsFull == CountersFit => (Spec => []WindowFull)
<1> SUFFICES ASSUME CountersFit PROVE Spec => []WindowFull
  OBVIOUS
<1>1. /\ ClientInv /\ [Next]_vars => ClientInv'
      /\ ClientInv => TypeOK
  BY NextInv DEF ClientInv
<1> QED
  BY <1>1, InitInv, InitProgress, NextProgress, ProgressWindow, PTL DEF Spec

-----------------------------------------------------------------------------
(* The share of writes *)

Ratios == Ratio \in {0, 10, 90, 100}

(* No two multiples of Block are closer than Block. *)
LEMMA BlocksApart ==
  ASSUME NEW p \in Nat, NEW k \in Nat, p % Block = 0, p < k, k < p + Block
  PROVE  k % Block # 0
<1> SUFFICES ASSUME k % Block = 0 PROVE FALSE
  OBVIOUS
<1>1. Block \in Nat /\ Block > 0
  BY Setting
<1>2. PICK i \in Int : p = Block * i
  <2>1. PICK q \in Int : q = p \div Block
    BY <1>1
  <2>2. p = Block * q + (p % Block)
    BY <1>1, <2>1
  <2>3. p = Block * q
    BY <1>1, <2>1, <2>2
  <2> QED
    BY <2>3
<1>3. PICK j \in Int : k = Block * j
  <2>1. PICK q \in Int : q = k \div Block
    BY <1>1
  <2>2. k = Block * q + (k % Block)
    BY <1>1, <2>1
  <2>3. k = Block * q
    BY <1>1, <2>1, <2>2
  <2> QED
    BY <2>3
<1>4. i < j
  BY <1>1, <1>2, <1>3
<1>5. Block * (j - i - 1) >= 0
  BY <1>1, <1>4
<1> QED
  BY <1>1, <1>2, <1>3, <1>5

(* The blocks that are full *)
LEMMA FullBlock ==
  ASSUME NEW k \in Nat, NEW b \in 0 .. (k \div Block) - 1
  PROVE  /\ b * Block \in Nat /\ (b * Block) % Block = 0
         /\ b * Block + Block =< k
<1>1. Block \in Nat /\ Block > 0 /\ b \in Nat
  BY Setting
<1>2. PICK q \in Int : q = k \div Block /\ Block * q =< k /\ b =< q - 1
  BY <1>1
<1>3. Block * (q - 1 - b) >= 0
  BY <1>1, <1>2
<1>4. b * Block + Block =< k
  BY <1>1, <1>2, <1>3
<1>5. b * Block \in Nat
  BY <1>1
<1>6. (b * Block) % Block = 0
  BY <1>1, <1>5
<1> QED
  BY <1>4, <1>5, <1>6

(* In the block that starts at p all of the numbers below k but r are in w.*)
AllBut(w, p, k, r) == \A x \in Nat : p =< x /\ x < k => (x \in w <=> x # r)

OneRead(k, w, rand, p) ==
  /\ p + Block =< k =>
       \E r \in p .. p + Block - 1 : AllBut(w, p, p + Block, r)
  /\ p < k /\ k < p + Block =>
       rand \in p .. p + Block - 1 /\ AllBut(w, p, k, rand)

Shared(k, w, rand) ==
  /\ \A x \in w : x \in Nat /\ x < k
  /\ Ratio = 100 => \A x \in 0 .. k - 1 : x \in w
  /\ Ratio \in {0, 10} => w = {}
  /\ Ratio = 90 => \A p \in Nat : p % Block = 0 => OneRead(k, w, rand, p)

SharedInv == \A c \in Clients :
  Shared(clients[c].commit_counter, writes[c], clients[c].rand_counter)

(* One request more in a block of which one is a read *)
LEMMA SharedNine ==
  ASSUME NEW k \in Nat, NEW w, NEW old \in Nat, NEW rand \in Nat,
         NEW new \in 0 .. Block - 1, rand = RandCounter(k, old, new),
         Ratio = 90, Shared(k, w, old), NEW p \in Nat, p % Block = 0,
         NEW v, v = IF k = rand THEN w ELSE w \cup {k}
  PROVE  OneRead(k + 1, v, rand, p)
<1>1. Block \in Nat /\ Block > 0
  BY Setting
<1>2. k \notin w
  BY DEF Shared
<1>3. \A x : x # k => (x \in v <=> x \in w)
  OBVIOUS
<1>4. k \in v <=> k # rand
  BY <1>2
<1>5. /\ p + Block =< k =>
           \E r \in p .. p + Block - 1 : AllBut(w, p, p + Block, r)
      /\ p < k /\ k < p + Block =>
           old \in p .. p + Block - 1 /\ AllBut(w, p, k, old)
  BY DEF Shared, OneRead
<1>6. CASE p + Block =< k
  <2>1. PICK r \in p .. p + Block - 1 : AllBut(w, p, p + Block, r)
    BY <1>5, <1>6
  <2>2. AllBut(v, p, p + Block, r)
    BY <1>1, <1>3, <1>6, <2>1 DEF AllBut
  <2> QED
    BY <1>1, <1>6, <2>1, <2>2 DEF OneRead
<1>7. CASE p =< k /\ k < p + Block
  <2>1. rand \in p .. p + Block - 1 /\ AllBut(w, p, k, rand)
    <3>1. CASE p = k
      <4>1. rand = k + new
        BY <3>1 DEF RandCounter
      <4> QED
        BY <1>1, <3>1, <4>1 DEF AllBut
    <3>2. CASE p # k
      <4>1. k % Block # 0
        BY <1>1, <1>7, <3>2, BlocksApart
      <4>2. rand = old
        BY <4>1 DEF RandCounter
      <4> QED
        BY <1>1, <1>5, <1>7, <3>2, <4>2
    <3> QED
      BY <3>1, <3>2
  <2>2. AllBut(v, p, k + 1, rand)
    <3> SUFFICES ASSUME NEW x \in Nat, p =< x, x < k + 1
                 PROVE  x \in v <=> x # rand
      BY DEF AllBut
    <3>1. CASE x = k
      BY <1>4, <3>1
    <3>2. CASE x # k
      <4>1. x < k
        BY <3>2
      <4> QED
        BY <1>3, <2>1, <3>2, <4>1 DEF AllBut
    <3> QED
      BY <3>1, <3>2
  <2>3. p + Block =< k + 1 => p + Block = k + 1
    BY <1>1, <1>7
  <2> QED
    BY <2>1, <2>2, <2>3 DEF OneRead
<1>8. CASE k < p
  <2>1. ~(p + Block =< k + 1) /\ ~(p < k + 1)
    BY <1>1, <1>8
  <2> QED
    BY <2>1 DEF OneRead
<1>9. p + Block =< k \/ k < p \/ (p =< k /\ k < p + Block)
  BY <1>1
<1> QED
  BY <1>6, <1>7, <1>8, <1>9

LEMMA SharedAdvances ==
  ASSUME TypeOK, SharedInv, NEW c \in Clients, NEW d \in ClientStates,
         d.commit_counter = clients[c].commit_counter,
         d.rand_counter = clients[c].rand_counter,
         Advances(c, d)
  PROVE  SharedInv'
<1>1. PICK k \in Nat, rand \in Nat :
        /\ k = clients[c].commit_counter
        /\ Ratio \in {10, 90} => \E new \in 0 .. Block - 1 :
             rand = RandCounter(k, clients[c].rand_counter, new)
        /\ clients'[c].commit_counter = k + 1
        /\ clients'[c].rand_counter = rand
        /\ writes'[c] = IF IsRead(k, rand) THEN writes[c]
                                           ELSE writes[c] \cup {k}
        /\ \A x \in Clients \ {c} : /\ clients'[x] = clients[x]
                                    /\ writes'[x] = writes[x]
  BY DEF Advances
<1>2. PICK old, w, v : /\ old \in Nat /\ old = clients[c].rand_counter
                       /\ w = writes[c] /\ v = writes'[c]
  BY ClientTyped DEF ClientStates
<1>3. Shared(k, w, old)
  BY <1>1, <1>2 DEF SharedInv
<1>4. Ratios
  BY ClientAssumption DEF ClientAssumption, Ratios
<1>5. v = IF IsRead(k, rand) THEN w ELSE w \cup {k}
  BY <1>1, <1>2
<1>6. \A x \in v : x \in Nat /\ x < k + 1
  BY <1>3, <1>5 DEF Shared
<1>7. Ratio = 100 => \A x \in 0 .. k : x \in v
  <2> SUFFICES ASSUME Ratio = 100, NEW x \in 0 .. k PROVE x \in v
    OBVIOUS
  <2>1. v = w \cup {k}
    BY <1>5 DEF IsRead, WriteOrRead
  <2>2. x # k => x \in w
    BY <1>3 DEF Shared
  <2> QED
    BY <2>1, <2>2
<1>8. Ratio \in {0, 10} => v = {}
  <2> SUFFICES ASSUME Ratio \in {0, 10} PROVE v = {}
    OBVIOUS
  <2>1. IsRead(k, rand)
    BY DEF IsRead, WriteOrRead, Complement
  <2> QED
    BY <1>3, <1>5, <2>1 DEF Shared
<1>9. ASSUME Ratio = 90, NEW p \in Nat, p % Block = 0
      PROVE  OneRead(k + 1, v, rand, p)
  <2>1. PICK new \in 0 .. Block - 1 : rand = RandCounter(k, old, new)
    BY <1>1, <1>2, <1>9
  <2>2. v = IF k = rand THEN w ELSE w \cup {k}
    BY <1>5, <1>9 DEF IsRead, WriteOrRead, Complement
  <2>3. old \in Nat
    BY <1>2
  <2> QED
    BY <1>3, <1>9, <2>1, <2>2, <2>3, SharedNine
<1>10. Shared(k + 1, v, rand)
  BY <1>6, <1>7, <1>8, <1>9 DEF Shared
<1>11. SharedInv' <=> \A x \in Clients :
         Shared(clients'[x].commit_counter, writes'[x],
                clients'[x].rand_counter)
  BY DEF SharedInv, Shared, OneRead, AllBut
<1>12. \A x \in Clients \ {c} :
         Shared(clients'[x].commit_counter, writes'[x],
                clients'[x].rand_counter)
  BY <1>1 DEF SharedInv
<1>13. Shared(clients'[c].commit_counter, writes'[c],
              clients'[c].rand_counter)
  BY <1>1, <1>2, <1>10
<1> QED
  BY <1>11, <1>12, <1>13

LEMMA NextShared == TypeOK /\ SharedInv /\ [Next]_vars => SharedInv'
<1> SUFFICES ASSUME TypeOK, SharedInv, [Next]_vars PROVE SharedInv'
  OBVIOUS
<1>1. ASSUME UNCHANGED writes,
             \A x \in Clients :
               /\ clients'[x].commit_counter = clients[x].commit_counter
               /\ clients'[x].rand_counter = clients[x].rand_counter
      PROVE  SharedInv'
  BY <1>1 DEF SharedInv, Shared, OneRead, AllBut
<1>2. ASSUME NEW c \in Clients, Start(c) PROVE SharedInv'
  BY <1>2, StartAdvances, SharedAdvances
<1>3. ASSUME NEW c \in Clients, Finish(c) PROVE SharedInv'
  <2>1. PICK d : d = [clients[c] EXCEPT !.done = TRUE]
    OBVIOUS
  <2>2. /\ d.commit_counter = clients[c].commit_counter
        /\ d.rand_counter = clients[c].rand_counter
    BY <2>1, ClientTyped DEF ClientStates
  <2>3. /\ clients'[c] = d /\ \A x \in Clients \ {c} : clients'[x] = clients[x]
        /\ UNCHANGED writes
    BY <1>3, <2>1 DEF Finish, TypeOK
  <2> QED
    BY <1>1, <2>2, <2>3
<1>4. ASSUME NEW c \in Clients, NEW n \in Node, HandleMasterId(n, c)
      PROVE  SharedInv'
  <2>1. PICK d : d = [clients[c] EXCEPT
                        !.master_id = Head(replies[n][c]).master]
    OBVIOUS
  <2>2. /\ d.commit_counter = clients[c].commit_counter
        /\ d.rand_counter = clients[c].rand_counter
    BY <2>1, ClientTyped DEF ClientStates
  <2>3. /\ clients'[c] = d /\ \A x \in Clients \ {c} : clients'[x] = clients[x]
        /\ UNCHANGED writes
    BY <1>4, <2>1 DEF HandleMasterId, TypeOK
  <2> QED
    BY <1>1, <2>2, <2>3
<1>5. ASSUME UNCHANGED <<clients, writes>> PROVE SharedInv'
  BY <1>1, <1>5
<1>6. ASSUME NEW c \in Clients, NEW n \in Node, HandleRet(n, c)
      PROVE  SharedInv'
  <2>1. clients[c] \in ClientStates
    BY ClientTyped
  <2>2. CASE Advances(c, clients[c])
    BY <2>1, <2>2, SharedAdvances
  <2> QED
    BY <1>5, <1>6, <2>2, RetAdvances
<1>7. ASSUME NEW c \in Clients, NEW t \in Threads, Send(c, t)
      PROVE  SharedInv'
  BY <1>5, <1>7 DEF Send
<1>8. ASSUME NEW c \in Clients, NEW n \in Node, Receive(c, n)
      PROVE  SharedInv'
  BY <1>5, <1>8 DEF Receive, HandleRead, HandleWrite, Redirect, TakeRequest
<1>9. ASSUME NEW n \in Node, Committed(n) \/ SetMaster(n) PROVE SharedInv'
  BY <1>5, <1>9 DEF Committed, SetMaster
<1>10. CASE UNCHANGED vars
  BY <1>5, <1>10 DEF vars
<1> QED
  BY <1>2, <1>3, <1>4, <1>6, <1>7, <1>8, <1>9, <1>10 DEF Next, HandleReply

LEMMA InitShared == Init => SharedInv
<1> SUFFICES ASSUME Init, NEW c \in Clients
             PROVE  Shared(clients[c].commit_counter, writes[c],
                           clients[c].rand_counter)
  BY DEF SharedInv
<1>1. /\ clients[c].commit_counter = 0 /\ clients[c].rand_counter = 0
      /\ writes[c] = {}
  BY DEF Init
<1>2. Block \in Nat /\ Block > 0
  BY Setting
<1>3. \A p \in Nat : ~(p + Block =< 0) /\ ~(p < 0)
  BY <1>2
<1>4. Shared(0, {}, 0)
  BY <1>3 DEF Shared, OneRead
<1> QED
  BY <1>1, <1>4

(* How many writes a full block holds *)
LEMMA SharedKept ==
  ASSUME TypeOK, SharedInv, Ratio # 10
  PROVE  WriteRatioKept
<1> SUFFICES ASSUME NEW c \in Clients,
                    NEW b \in 0 .. (clients[c].commit_counter \div Block) - 1
             PROVE  Cardinality(writes[c]
                                  \cap (b * Block .. b * Block + Block - 1))
                      = WritesPerBlock
  BY DEF WriteRatioKept
<1>1. PICK k, w, old : /\ k \in Nat /\ k = clients[c].commit_counter
                       /\ w = writes[c]
                       /\ old = clients[c].rand_counter
  BY ClientTyped, Setting DEF ClientStates
<1>2. PICK p \in Nat : p = b * Block /\ p % Block = 0 /\ p + Block =< k
  BY <1>1, FullBlock
<1>3. PICK B : B = p .. p + Block - 1
  OBVIOUS
<1>4. Block \in Nat /\ Block > 0 /\ Ratios
  BY Setting, ClientAssumption DEF ClientAssumption, Ratios
<1>5. IsFiniteSet(B) /\ Cardinality(B) = Block
  <2>1. p + Block - 1 \in Int /\ p \in Int /\ p =< p + Block - 1
    BY <1>4
  <2> QED
    BY <1>3, <1>4, <2>1, FS_Interval
<1>6. Shared(k, w, old)
  BY <1>1 DEF SharedInv
<1>7. Cardinality(w \cap B) = WritesPerBlock
  <2>1. CASE Ratio = 100
    <3>1. w \cap B = B
      <4>1. \A x \in B : x \in 0 .. k - 1
        BY <1>1, <1>2, <1>3, <1>4
      <4>2. \A x \in 0 .. k - 1 : x \in w
        BY <1>6, <2>1 DEF Shared
      <4> QED
        BY <4>1, <4>2
    <3>2. WritesPerBlock = Block
      BY <2>1 DEF WritesPerBlock
    <3> QED
      BY <1>5, <3>1, <3>2
  <2>2. CASE Ratio = 0
    <3>1. w \cap B = {}
      BY <1>6, <2>2 DEF Shared
    <3>2. WritesPerBlock = 0
      BY <2>2 DEF WritesPerBlock
    <3>3. Cardinality({}) = 0
      BY FS_EmptySet
    <3> QED
      BY <3>1, <3>2, <3>3
  <2>3. CASE Ratio = 90
    <3>1. PICK r \in B : AllBut(w, p, p + Block, r)
      BY <1>1, <1>2, <1>3, <1>6, <2>3 DEF Shared, OneRead
    <3>2. \A x \in B : x \in Nat /\ p =< x /\ x < p + Block
      BY <1>3, <1>4
    <3>3. w \cap B = B \ {r}
      BY <3>1, <3>2 DEF AllBut
    <3>4. WritesPerBlock = Block - 1
      BY <2>3 DEF WritesPerBlock
    <3>5. Cardinality(B \ {r}) = Block - 1
      BY <1>5, <3>1, FS_RemoveElement
    <3> QED
      BY <3>3, <3>4, <3>5
  <2> QED
    BY <1>4, <2>1, <2>2, <2>3 DEF Ratios
<1> QED
  BY <1>1, <1>2, <1>3, <1>7

(* Every full block of requests holds the share of writes the ratio asks   *)
(* for, whichever thread made them (client.cpp 61-98, 199-246), for every  *)
(* ratio but 10.                                                           *)
THEOREM WriteShareKept == Ratio # 10 => (Spec => []WriteRatioKept)
<1> SUFFICES ASSUME Ratio # 10 PROVE Spec => []WriteRatioKept
  OBVIOUS
<1>1. TypeOK /\ SharedInv => WriteRatioKept
  BY SharedKept
<1> QED
  BY <1>1, InitTyped, NextTyped, InitShared, NextShared, PTL DEF Spec

(* With the ratio 10 a client never writes at all: the complement of a     *)
(* bool is taken with ~, which gives true (client.cpp 49, 79, 226).        *)
THEOREM RatioTenNeverWrites ==
  Ratio = 10 => (Spec => [](\A c \in Clients : writes[c] = {}))
<1> SUFFICES ASSUME Ratio = 10
             PROVE  Spec => [](\A c \in Clients : writes[c] = {})
  OBVIOUS
<1>1. SharedInv => \A c \in Clients : writes[c] = {}
  BY DEF SharedInv, Shared
<1> QED
  BY <1>1, InitTyped, NextTyped, InitShared, NextShared, PTL DEF Spec
===============================================================================
