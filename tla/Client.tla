-------------------------------- MODULE Client --------------------------------
(***************************************************************************)
(* The closed loop of a client and its way to the master.  A client keeps  *)
(* com_win_ requests under way, sends writes to the node it takes for the  *)
(* master and reads to a fixed node, and follows redirections.  A server   *)
(* answers a read at once, hands a write to its captain if it is the       *)
(* master, and otherwise tells the client whom it takes for the master.    *)
(*                                                                         *)
(* A client runs two threads.  start_commit sends the first requests; the  *)
(* listener (client_waiting_msg, handle_reply) sends one more for each     *)
(* answer.  Each draws a number and makes its request with counter_mut_    *)
(* held, and sends it after the unlock: two steps here.                    *)
(*                                                                         *)
(* Of a captain a client sees what it answers, in any order, if it answers *)
(* at all: module Captain shows that it does where one node commits.  Of   *)
(* the log it sees that each server delivers the SET_MASTER values in the  *)
(* same order, each at its own time.  The connections keep their order and *)
(* lose nothing here.                                                      *)
(***************************************************************************)
EXTENDS Integers, Sequences, FiniteSets

CONSTANTS
  Node,      \* the servers
  Clients,   \* the clients, by their node ids
  Masters,   \* the configured master and then those of the SET_MASTER values
  Window,    \* com_win_
  Ratio,     \* ratio_: writes in a hundred, one of 100, 90, 10, 0
  ReadNode,  \* read_node_
  Block,     \* 10 in the code: requests of which one is of the other kind
  CounterSpan, \* 2^32 in the code: value ids have so much room for a counter
  MaxCounter \* bound: no client makes more requests than this

NodeIds == 65536 \* node_id_t has 16 bits.

ASSUME ClientAssumption ==
  /\ 0 \in Node /\ ReadNode \in Node
  /\ Masters \in Seq(Node) /\ Masters # <<>>
  /\ Window \in Nat /\ Block \in Nat \ {0} /\ MaxCounter \in Nat
  /\ Ratio \in {0, 10, 90, 100}
  /\ Clients \subseteq 0 .. NodeIds - 1
  /\ CounterSpan \in Nat \ {0}

VARIABLES
  clients,  \* the state of each Client
  sending,  \* sending[c][t]: the request thread t of c has made but not sent
  requests, \* requests[c][n]: COMMIT from c to n
  views,    \* how many of the Masters each server has delivered
  pending,  \* pending[n]: ids of the values that the captain of n was given
            \* and has not answered
  replies,  \* replies[n][c]: COMMITTED from n to c
  writes,   \* history: the numbers each client made writes with
  committed,\* history: the writes given to captains, in this order
  answered  \* history: the requests of each client that were answered

vars == <<clients, sending, requests, views, pending, replies,
          writes, committed, answered>>

Threads == {"main", "listener"}

Request == [counter : Nat, read : BOOLEAN]
NoRequest == [counter |-> -1, read |-> FALSE]

Answer == [type : {"RET", "MASTER_ID"}, counter : Nat, master : Node]

MasterOf(n) == Masters[views[n]]

TypeOK ==
  /\ clients \in [Clients ->
       [master_id : Node, commit_counter : 0 .. MaxCounter, rand_counter : Nat,
        started : 0 .. Window, done : BOOLEAN]]
  /\ sending \in [Clients -> [Threads -> Request \cup {NoRequest}]]
  /\ requests \in [Clients -> [Node -> Seq(Request)]]
  /\ views \in [Node -> DOMAIN Masters]
  /\ pending \in [Node -> SUBSET Nat]
  /\ replies \in [Node -> [Clients -> Seq(Answer)]]
  /\ writes \in [Clients -> SUBSET Nat]
  /\ committed \in Seq(Clients \X Nat)
  /\ answered \in [Clients -> SUBSET Nat]

Init ==
  /\ clients = [c \in Clients |->
                  [master_id |-> 0, commit_counter |-> 0, rand_counter |-> 0,
                   started |-> 0, done |-> FALSE]]
  /\ sending = [c \in Clients |-> [t \in Threads |-> NoRequest]]
  /\ requests = [c \in Clients |-> [n \in Node |-> <<>>]]
  /\ views = [n \in Node |-> 1]
  /\ pending = [n \in Node |-> {}]
  /\ replies = [n \in Node |-> [c \in Clients |-> <<>>]]
  /\ writes = [c \in Clients |-> {}]
  /\ committed = <<>>
  /\ answered = [c \in Clients |-> {}]

-----------------------------------------------------------------------------
(* Making a request *)

(* write_or_read_: what most requests of the client are *)
WriteOrRead == Ratio = 10

(* ~ on a bool: the operand is promoted to int, and neither ~0 nor ~1 is 0.*)
Complement(b) == TRUE

(* Mutant: the offset of the block is left out. *)
SameInEveryBlock(k, old, new) == IF k % Block = 0 THEN new ELSE old

(* rand_counter_ is drawn anew at the start of each block. *)
RandCounter(k, old, new) == IF k % Block = 0 THEN k + new ELSE old

IsRead(k, rand) ==
  IF Ratio = 100 THEN WriteOrRead
  ELSE IF Ratio = 0 THEN TRUE
  ELSE IF k = rand THEN Complement(WriteOrRead) ELSE WriteOrRead

(* Client c, now in state d, makes its next request in thread t. *)
Make(c, t, d) ==
  LET k == d.commit_counter
  IN  \E new \in IF Ratio \in {10, 90} THEN 0 .. Block - 1 ELSE {0} :
        LET rand == IF Ratio \in {10, 90}
                    THEN RandCounter(k, d.rand_counter, new)
                    ELSE d.rand_counter
            read == IsRead(k, rand)
        IN  /\ k < MaxCounter
            /\ clients' = [clients EXCEPT
                 ![c] = [d EXCEPT !.commit_counter = k + 1,
                                  !.rand_counter = rand]]
            /\ sending' = [sending EXCEPT
                             ![c][t] = [counter |-> k, read |-> read]]
            /\ writes' = IF read THEN writes
                                 ELSE [writes EXCEPT ![c] = @ \cup {k}]

(* master_id_ is read when the request is sent, without master_mut_. *)
Send(c, t) ==
  LET m == sending[c][t]
      n == IF m.read THEN ReadNode ELSE clients[c].master_id
  IN  /\ m # NoRequest
      /\ sending' = [sending EXCEPT ![c][t] = NoRequest]
      /\ requests' = [requests EXCEPT ![c][n] = Append(@, m)]
      /\ UNCHANGED <<clients, views, pending, replies, writes,
                     committed, answered>>

(* Mutant: one turn too many. *)
StartOnceMore(c) ==
  LET d == clients[c]
  IN  /\ sending[c]["main"] = NoRequest
      /\ d.started <= Window
      /\ Make(c, "main", [d EXCEPT !.started = @ + 1])
      /\ UNCHANGED <<requests, views, pending, replies, committed, answered>>

(* One turn of the loop of start_commit *)
Start(c) ==
  LET d == clients[c]
  IN  /\ sending[c]["main"] = NoRequest
      /\ d.started < Window
      /\ Make(c, "main", [d EXCEPT !.started = @ + 1])
      /\ UNCHANGED <<requests, views, pending, replies, committed, answered>>

(* The measured time is over. *)
Finish(c) ==
  /\ clients[c].started = Window /\ sending[c]["main"] = NoRequest
  /\ ~clients[c].done
  /\ clients' = [clients EXCEPT ![c].done = TRUE]
  /\ UNCHANGED <<sending, requests, views, pending, replies, writes,
                 committed, answered>>

-----------------------------------------------------------------------------
(* handle_reply *)

TakeReply(n, c, type) ==
  /\ sending[c]["listener"] = NoRequest
  /\ replies[n][c] # <<>> /\ Head(replies[n][c]).type = type
  /\ replies' = [replies EXCEPT ![n][c] = Tail(@)]
  /\ UNCHANGED <<views, pending, committed>>

(* An answer makes room for the next request. *)
HandleRet(n, c) ==
  LET d == clients[c]
  IN  /\ TakeReply(n, c, "RET")
      /\ answered' = [answered EXCEPT
                        ![c] = @ \cup {Head(replies[n][c]).counter}]
      /\ UNCHANGED requests
      /\ \/ ~d.done /\ Make(c, "listener", d)
         \/ /\ d.done \/ d.commit_counter = MaxCounter
            /\ UNCHANGED <<clients, sending, writes>>

(* Mutant: a request that was redirected is forgotten. *)
OnlyRemembersMaster(n, c) ==
  LET m == Head(replies[n][c])
  IN  /\ TakeReply(n, c, "MASTER_ID")
      /\ clients' = [clients EXCEPT ![c].master_id = m.master]
      /\ UNCHANGED <<sending, requests, writes, answered>>

(* Mutant: every answer makes room for a request, a redirection too. *)
AnyAnswerMakesRoom(n, c) ==
  LET m == Head(replies[n][c])
      d == [clients[c] EXCEPT !.master_id = m.master]
  IN  /\ TakeReply(n, c, "MASTER_ID")
      /\ requests' = [requests EXCEPT
           ![c][m.master] = Append(@, [counter |-> m.counter, read |-> FALSE])]
      /\ UNCHANGED answered
      /\ \/ ~d.done /\ Make(c, "listener", d)
         \/ /\ d.done \/ d.commit_counter = MaxCounter
            /\ clients' = [clients EXCEPT ![c] = d]
            /\ UNCHANGED <<sending, writes>>

(* Mutant: the write goes back to where it came from. *)
SendsBack(n, c) ==
  LET m == Head(replies[n][c])
  IN  /\ TakeReply(n, c, "MASTER_ID")
      /\ clients' = [clients EXCEPT ![c].master_id = m.master]
      /\ requests' = [requests EXCEPT
           ![c][n] = Append(@, [counter |-> m.counter, read |-> FALSE])]
      /\ UNCHANGED <<sending, writes, answered>>

(* A redirection changes the master and sends the same write there.  *)
HandleMasterId(n, c) ==
  LET m == Head(replies[n][c])
  IN  /\ TakeReply(n, c, "MASTER_ID")
      /\ clients' = [clients EXCEPT ![c].master_id = m.master]
      /\ requests' = [requests EXCEPT
           ![c][m.master] = Append(@, [counter |-> m.counter, read |-> FALSE])]
      /\ UNCHANGED <<sending, writes, answered>>

-----------------------------------------------------------------------------
(* Servers: the COMMIT part of Captain::re_handle_msg, the answer after a   *)
(* value is chosen, and SET_MASTER in add_callback                          *)

Tell(n, c, type, k) ==
  replies' = [replies EXCEPT
    ![n][c] = Append(@, [type |-> type, counter |-> k, master |-> MasterOf(n)])]

TakeRequest(c, n) ==
  /\ requests[c][n] # <<>>
  /\ requests' = [requests EXCEPT ![c][n] = Tail(@)]
  /\ UNCHANGED <<clients, sending, views, writes, answered>>

HandleRead(c, n) ==
  /\ TakeRequest(c, n)
  /\ Head(requests[c][n]).read
  /\ Tell(n, c, "RET", Head(requests[c][n]).counter)
  /\ UNCHANGED <<pending, committed>>

(* The client and its counter, packed into the id of the value (64 bits)   *)
ValueId(c, k) == c * CounterSpan + k

ClientOf(id) == (id \div CounterSpan) % NodeIds

(* Mutant: the counter is cut to fewer bits than it was packed into. *)
ShortCounterOf(id) == id % (CounterSpan \div 2)

CounterOf(id) == id % CounterSpan

HandleWrite(c, n) ==
  LET m == Head(requests[c][n])
  IN  /\ TakeRequest(c, n)
      /\ ~m.read /\ MasterOf(n) = n
      /\ pending' = [pending EXCEPT ![n] = @ \cup {ValueId(c, m.counter)}]
      /\ committed' = Append(committed, <<c, m.counter>>)
      /\ UNCHANGED replies

(* Mutant: the write is committed here as well. *)
RedirectAndCommit(c, n) ==
  LET m == Head(requests[c][n])
  IN  /\ TakeRequest(c, n)
      /\ ~m.read /\ MasterOf(n) # n
      /\ Tell(n, c, "MASTER_ID", m.counter)
      /\ committed' = Append(committed, <<c, m.counter>>)
      /\ UNCHANGED pending

Redirect(c, n) ==
  LET m == Head(requests[c][n])
  IN  /\ TakeRequest(c, n)
      /\ ~m.read /\ MasterOf(n) # n
      /\ Tell(n, c, "MASTER_ID", m.counter)
      /\ UNCHANGED <<pending, committed>>

(* reply_client: the client id comes out of the value id. *)
Committed(n) == \E id \in pending[n] :
  /\ pending' = [pending EXCEPT ![n] = @ \ {id}]
  /\ Tell(n, ClientOf(id), "RET", CounterOf(id))
  /\ UNCHANGED <<clients, sending, requests, views, writes, committed, answered>>

SetMaster(n) ==
  /\ views[n] < Len(Masters)
  /\ views' = [views EXCEPT ![n] = @ + 1]
  /\ UNCHANGED <<clients, sending, requests, pending, replies, writes,
                 committed, answered>>

-----------------------------------------------------------------------------
Receive(c, n) == HandleRead(c, n) \/ HandleWrite(c, n) \/ Redirect(c, n)

HandleReply(n, c) == HandleRet(n, c) \/ HandleMasterId(n, c)

Next ==
  \/ \E c \in Clients : Start(c) \/ Finish(c)
  \/ \E c \in Clients, t \in Threads : Send(c, t)
  \/ \E c \in Clients, n \in Node : Receive(c, n)
  \/ \E c \in Clients, n \in Node : HandleReply(n, c)
  \/ \E n \in Node : Committed(n) \/ SetMaster(n)

Spec == Init /\ [][Next]_vars

(* The master of the configuration file remains the master: no server ever *)
(* learns of another one.                                                  *)
MasterStays == [](\A n \in Node : views[n] = 1)

(* Both threads of a client run, and the sockets of clients and servers    *)
(* are polled in turn.  If the master stays, its captain alone commits,    *)
(* and answers each of its values (EveryoneAnswered of module Captain,     *)
(* where nothing is lost).  Of captains between which the master moves     *)
(* nothing is assumed: one may keep a value for ever.                      *)
FairSpec ==
  /\ Spec
  /\ \A c \in Clients, t \in Threads : WF_vars(Send(c, t))
  /\ \A c \in Clients, n \in Node : WF_vars(Receive(c, n))
                                    /\ WF_vars(HandleReply(n, c))
  /\ MasterStays => WF_vars(Committed(Masters[1]))

-----------------------------------------------------------------------------
(* Properties *)

(* The places in the queues of all servers that hold request k *)
Spots(queues, k) == UNION
  {{<<n, i>> : i \in {i \in DOMAIN queues[n] : queues[n][i].counter = k}} :
     n \in Node}

InSending(c, k) == {t \in Threads : sending[c][t].counter = k}
InRequests(c, k) == Spots(requests[c], k)
InReplies(c, k) == Spots([n \in Node |-> replies[n][c]], k)
InPending(c, k) == {n \in Node : ValueId(c, k) \in pending[n]}

(* In how many places request k of client c is *)
Copies(c, k) ==
  Cardinality(InSending(c, k)) + Cardinality(InRequests(c, k))
  + Cardinality(InReplies(c, k)) + Cardinality(InPending(c, k))
  + Cardinality({k} \cap answered[c])

(* Every request that was made is in exactly one place until it is         *)
(* answered, and answered once: neither the two sending threads nor a      *)
(* change of master between sending and receiving loses or doubles one     *)
(* (client.cpp 61-98, 199-260; captain.cpp 431-487).                       *)
Conserved == \A c \in Clients, k \in 0 .. MaxCounter - 1 :
  Copies(c, k) = IF k < clients[c].commit_counter THEN 1 ELSE 0

Outstanding(c) == clients[c].commit_counter - Cardinality(answered[c])

(* A client has never more than com_win_ requests under way, however often *)
(* they are redirected, and once it has started it keeps that many as long *)
(* as it goes on (client.cpp 61, 219; a measurement depends on it).        *)
WindowFull == \A c \in Clients :
  /\ Outstanding(c) <= Window
  /\ (/\ clients[c].started = Window /\ ~clients[c].done
      /\ clients[c].commit_counter < MaxCounter)
     => Outstanding(c) = Window

(* No write is handed to two captains, or twice to one, whatever the       *)
(* servers believe of the master, and a write answered with RET was handed *)
(* to one (captain.cpp 451-485).                                           *)
CommittedOnce ==
  /\ \A i, j \in DOMAIN committed : committed[i] = committed[j] => i = j
  /\ \A c \in Clients : \A k \in answered[c] \cap writes[c] :
       \E i \in DOMAIN committed : committed[i] = <<c, k>>

(* How many of a block of requests are writes *)
WritesPerBlock ==
  CASE Ratio = 100 -> Block
    [] Ratio = 90  -> Block - 1
    [] Ratio = 10  -> 1
    [] Ratio = 0   -> 0

(* Each full block of requests, whichever of the two threads made them,    *)
(* has the share of writes that the ratio asks for: of ten, ten, nine, one *)
(* or none (test/clients.cpp 16: Write_Ratio(100/90/10/0); client.hpp 49). *)
WriteRatioKept == \A c \in Clients :
  \A b \in 0 .. (clients[c].commit_counter \div Block) - 1 :
    Cardinality(writes[c] \cap (b * Block .. b * Block + Block - 1))
      = WritesPerBlock

(* The requests that client c has made and that nobody has answered *)
Open(c) == {k \in 0 .. clients[c].commit_counter - 1 : k \notin answered[c]}

(* If the servers come to agree on the master, redirecting comes to an     *)
(* end: in spite of stale master ids in clients and servers, and of two    *)
(* servers that have sent a write back and forth, all that is still open   *)
(* was handed to the captain of a server that took itself for the master   *)
(* (client.cpp 247-258; captain.cpp 451-487).  Whether a captain answers   *)
(* once the master has moved is not claimed.                               *)
RedirectionsEnd ==
  <>[](\A m, n \in Node : views[m] = views[n])
    => <>[](\A c \in Clients : \A k \in Open(c) : InPending(c, k) # {})

(* While the configured master stays, be it the node that clients start    *)
(* with or another one that they have to be redirected to, every request   *)
(* is answered once the clients stop making new ones, in whatever order    *)
(* the captain answers (captain.cpp 207-222, 451-487; client.cpp 199-260). *)
AllAnswered ==
  MasterStays => <>[](\A c \in Clients : Open(c) = {})
=============================================================================
