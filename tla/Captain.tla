------------------------------- MODULE Captain -------------------------------
(***************************************************************************)
(* The captain: the replica's log of slots.  Each node runs one, with an   *)
(* acceptor per slot, a proposer for every slot it is trying to fill, a    *)
(* window that bounds those proposers, a queue of the values that wait for *)
(* the window, and the log of chosen values.  Nodes talk over the sockets  *)
(* of Commo.                                                               *)
(*                                                                         *)
(* Everything a node does runs in the poll loop of its Commo: an action is *)
(* one message handled, with all the calls it makes.  A broadcast runs the *)
(* sender's own acceptor and records its answer before it returns (two or  *)
(* more nodes make up the view, so that answer alone is never a quorum).   *)
(*                                                                         *)
(* requests[n][a] and replies[a][n] are the two directions of the          *)
(* connection from the DEALER socket of n to the ROUTER socket of a: each  *)
(* keeps its order.  From and to the nodes in Lossy messages may vanish:   *)
(* all sends are DONTWAIT and nothing is sent again.                       *)
(***************************************************************************)
EXTENDS Acceptor, Proposer, Sequences

CONSTANTS
  Committer,  \* the nodes on which commit is called
  WindowSize, \* window_size_
  Lossy,      \* the nodes whose connections may lose messages
  MaxSlot,    \* bound: no captain opens a slot above this one
  MaxBallot   \* bound: no proposer restarts above this ballot

(* With window_size_ = 0 the queue would take every value and keep it. *)
ASSUME CaptainAssumption ==
  /\ Committer \subseteq Node
  /\ WindowSize \in Nat \ {0}
  /\ Lossy \subseteq Node
  /\ MaxSlot \in Nat
  /\ MaxBallot \in Nat

Slot == 1 .. MaxSlot

VARIABLES
  captains,  \* the state of each node's Captain
  requests,  \* requests[n][a]: PREPARE and ACCEPT from n to a
  replies,   \* replies[a][n]: PROMISE and ACCEPTED from a to n
  submitted, \* history: the values commit was called with on each node
  answered   \* history: the values for which a client was told COMMITTED

vars == <<captains, requests, replies, submitted, answered>>

(* max_chosen_ is the length of chosen_values; the entry of a hole is Null.*)
(* A proposer is in the map proposers_ while it is active.                 *)
Captains == [acceptors                : [Slot -> Acceptors],
             proposers                : [Slot -> Proposers],
             max_slot                 : 0 .. MaxSlot,
             last_slot                : 0 .. MaxSlot,
             chosen_values            : Seq(Value \cup {Null}),
             max_chosen_without_hole  : 0 .. MaxSlot,
             tocommit_values          : Seq(Value)]

NewCaptain == [acceptors                |-> [s \in Slot |-> NewAcceptor],
               proposers                |-> [s \in Slot |-> NewProposer(Null)],
               max_slot                 |-> 0,
               last_slot                |-> 0,
               chosen_values            |-> <<>>,
               max_chosen_without_hole  |-> 0,
               tocommit_values          |-> <<>>]

Active(c) == {s \in Slot : c.proposers[s].status \in {"PHASEI", "PHASEII"}}

-----------------------------------------------------------------------------
(* Messages *)

PrepareMsg(s, b) == [type |-> "PREPARE", slot |-> s, ballot |-> b]

(* last_slot = 0: the request has no last_slot and no last_value. *)
AcceptMsg(s, b, v, last_slot, last_value) ==
  [type |-> "ACCEPT", slot |-> s, ballot |-> b, value |-> v,
   last_slot |-> last_slot, last_value |-> last_value]

PromiseMsg(s, b, ack) ==
  [type |-> "PROMISE", slot |-> s, ballot |-> b, ack |-> ack]

AcceptedMsg(s, b, r) ==
  [type |-> "ACCEPTED", slot |-> s, ballot |-> b, reply |-> r]

Requests ==
  [type : {"PREPARE"}, slot : Slot, ballot : Nat]
  \cup [type : {"ACCEPT"}, slot : Slot, ballot : Nat, value : Value,
        last_slot : {0} \cup Slot, last_value : Value \cup {Null}]

Answers ==
  [type : {"PROMISE"}, slot : Slot, ballot : Nat, ack : Promises]
  \cup [type : {"ACCEPTED"}, slot : Slot, ballot : Nat, reply : Replies]

Broadcast(n, m) ==
  requests' = [requests EXCEPT
             ![n] = [a \in Node |-> IF a = n THEN @[a] ELSE Append(@[a], m)]]

TypeOK ==
  /\ captains \in [Node -> Captains]
  /\ requests \in [Node -> [Node -> Seq(Requests)]]
  /\ replies \in [Node -> [Node -> Seq(Answers)]]
  /\ submitted \in [Node -> Seq(Value)]
  /\ answered \in Seq(Value)

Init ==
  /\ captains = [n \in Node |-> NewCaptain]
  /\ requests = [n \in Node |-> [a \in Node |-> <<>>]]
  /\ replies = [a \in Node |-> [n \in Node |-> <<>>]]
  /\ submitted = [n \in Node |-> <<>>]
  /\ answered = <<>>

-----------------------------------------------------------------------------
(* The log *)

ChosenIn(log, s) == IF s \in DOMAIN log THEN log[s] ELSE Null

(* Mutant: a value above the end is appended without the holes before it.  *)
LogAppended(log, s, v) ==
  IF s \in DOMAIN log
  THEN IF log[s] = Null THEN [log EXCEPT ![s] = v] ELSE log
  ELSE Append(log, v)

(* add_chosen_value: holes are left up to the slot; what is there stays. *)
LogWith(log, s, v) ==
  [i \in DOMAIN log \cup 1 .. s |->
     IF i = s /\ ChosenIn(log, s) = Null THEN v ELSE ChosenIn(log, i)]

(* Mutant: the callback runs over holes. *)
DeliverAll(log, k) == Len(log)

(* add_callback: deliver the log from the slot after k up to a hole. *)
DeliverFrom(log, k) ==
  CHOOSE j \in k .. Len(log) :
    /\ \A i \in k + 1 .. j : log[i] # Null
    /\ ChosenIn(log, j + 1) = Null

WithChosen(c, s, v) ==
  LET log == LogWith(c.chosen_values, s, v)
  IN  [c EXCEPT !.chosen_values = log,
                !.max_chosen_without_hole = DeliverFrom(log, @)]

(* What callback_ has been called with, in this order. *)
Delivered(c) == SubSeq(c.chosen_values, 1, c.max_chosen_without_hole)

-----------------------------------------------------------------------------
(* Proposing.  Captain c of node n becomes ... *)

(* ... after its proposer of slot s, now p, has broadcast PREPARE *)
WithPrepare(c, n, s, p) ==
  LET acc == c.acceptors[s]
      b   == p.curr_ballot
  IN  [c EXCEPT !.acceptors[s] = AfterPrepare(acc, b),
                !.proposers[s] = WithPromise(p, n, PromiseOf(acc, b))]

(* ... after its proposer of slot s, now p, has broadcast ACCEPT *)
WithAccept(c, n, s, p) ==
  LET acc == c.acceptors[s]
      b   == p.curr_ballot
  IN  [c EXCEPT !.acceptors[s] = AfterAccept(acc, b, p.curr_value),
                !.proposers[s] = WithAccepted(p, n, AcceptedReply(acc, b))]

(* Mutant: the end of the log is not told. *)
TellsAllButLast(c) == Len(c.chosen_values) > c.last_slot + 1
                      /\ ChosenIn(c.chosen_values, c.last_slot + 1) # Null

(* The decision of an earlier slot travels on the ACCEPT that opens a new  *)
(* one: one slot at a time, in order, if the next one is known.            *)
TellsLast(c) == ChosenIn(c.chosen_values, c.last_slot + 1) # Null

(* commit and the queue: v gets the next slot, without Phase I. *)
Open(n, c, v) ==
  LET s    == c.max_slot + 1
      last == IF TellsLast(c) THEN c.last_slot + 1 ELSE 0
      p    == OpenedInPhaseII(v, n)
      d    == [c EXCEPT !.max_slot = s,
                        !.last_slot = IF TellsLast(c) THEN @ + 1 ELSE @]
  IN  /\ s \in Slot
      /\ captains' = [captains EXCEPT ![n] = WithAccept(d, n, s, p)]
      /\ Broadcast(n, AcceptMsg(s, p.curr_ballot, v,
                                last, ChosenIn(c.chosen_values, last)))

(* v lost its slot: it gets the next one, with Phase I. *)
Recommit(n, c, v) ==
  LET s == c.max_slot + 1
      p == Restarted(NewProposer(v), n)
  IN  /\ s \in Slot
      /\ captains' = [captains EXCEPT
                        ![n] = WithPrepare([c EXCEPT !.max_slot = s], n, s, p)]
      /\ Broadcast(n, PrepareMsg(s, p.curr_ballot))

(* RESTART in either phase *)
Restart(n, c, s, p) ==
  LET q == Restarted(p, n)
  IN  /\ q.curr_ballot =< MaxBallot
      /\ captains' = [captains EXCEPT ![n] = WithPrepare(c, n, s, q)]
      /\ Broadcast(n, PrepareMsg(s, q.curr_ballot))

Become(n, c) == captains' = [captains EXCEPT ![n] = c] /\ UNCHANGED requests

-----------------------------------------------------------------------------
(* Captain::commit.  A value is committed once.  (The first test of the    *)
(* code, for more proposers than the window, never succeeds: WindowKept.)  *)

IsNew(v) == \A n \in Node : \A i \in DOMAIN submitted[n] : submitted[n][i] # v

(* Mutant: one proposer too many. *)
CommitBeyondWindow(n, v) ==
  LET c     == captains[n]
      queue == Append(c.tocommit_values, v)
      size  == Cardinality(Active(c))
  IN  /\ n \in Committer /\ IsNew(v)
      /\ \/ size > WindowSize /\ Become(n, [c EXCEPT !.tocommit_values = queue])
         \/ /\ size =< WindowSize
            /\ Open(n, [c EXCEPT !.tocommit_values = Tail(queue)], Head(queue))
      /\ submitted' = [submitted EXCEPT ![n] = Append(@, v)]
      /\ UNCHANGED <<replies, answered>>

Commit(n, v) ==
  LET c     == captains[n]
      queue == Append(c.tocommit_values, v)
      size  == Cardinality(Active(c))
  IN  /\ n \in Committer /\ IsNew(v)
      /\ \/ size = WindowSize /\ Become(n, [c EXCEPT !.tocommit_values = queue])
         \/ /\ size < WindowSize
            /\ Open(n, [c EXCEPT !.tocommit_values = Tail(queue)], Head(queue))
      /\ submitted' = [submitted EXCEPT ![n] = Append(@, v)]
      /\ UNCHANGED <<replies, answered>>

-----------------------------------------------------------------------------
(* Captain::re_handle_msg: node a takes the next request m of node n.      *)

First(queue) == IF queue = <<>> THEN {} ELSE {Head(queue)}

TakeRequest(n, a) ==
  /\ requests' = [requests EXCEPT ![n][a] = Tail(@)]
  /\ UNCHANGED <<submitted, answered>>

Reply(a, n, m) == replies' = [replies EXCEPT ![a][n] = Append(@, m)]

HandlePrepare(n, a, m) ==
  LET acc == captains[a].acceptors[m.slot]
  IN  /\ m.type = "PREPARE"
      /\ TakeRequest(n, a)
      /\ captains' = [captains EXCEPT
                        ![a].acceptors[m.slot] = AfterPrepare(acc, m.ballot)]
      /\ Reply(a, n, PromiseMsg(m.slot, m.ballot, PromiseOf(acc, m.ballot)))

(* The captain already has the slot that is told with the request. *)
Knows(c, m) == m.last_slot # 0 /\ ChosenIn(c.chosen_values, m.last_slot) # Null

(* Mutant: the acceptor of the wrong slot is asked. *)
LearnsFromOpenSlot(c, m) ==
  /\ m.last_slot # 0 /\ ~Knows(c, m)
  /\ c.acceptors[m.slot].max_value = m.last_value

(* It does not have it, and its acceptor of that slot holds the very value *)
(* that was told.                                                          *)
Learns(c, m) ==
  /\ m.last_slot # 0 /\ ~Knows(c, m)
  /\ c.acceptors[m.last_slot].max_value = m.last_value

(* A node that already knows what it is told returns before it answers.    *)
HandleAccept(n, a, m) ==
  LET acc == captains[a].acceptors[m.slot]
      c == [captains[a] EXCEPT
              !.acceptors[m.slot] = AfterAccept(acc, m.ballot, m.value)]
      answer == AcceptedMsg(m.slot, m.ballot, AcceptedReply(acc, m.ballot))
  IN  /\ m.type = "ACCEPT"
      /\ TakeRequest(n, a)
      /\ \/ /\ Knows(c, m)
            /\ captains' = [captains EXCEPT ![a] = c]
            /\ UNCHANGED replies
         \/ /\ Learns(c, m)
            /\ captains' = [captains EXCEPT ![a] =
                 WithChosen(c, m.last_slot, c.acceptors[m.last_slot].max_value)]
            /\ Reply(a, n, answer)
         \/ /\ ~Knows(c, m) /\ ~Learns(c, m)
            /\ captains' = [captains EXCEPT ![a] = c]
            /\ Reply(a, n, answer)

-----------------------------------------------------------------------------
(* Captain::handle_msg: node n takes the next answer m of node a.          *)

TakeReply(a, n) ==
  /\ replies' = [replies EXCEPT ![a][n] = Tail(@)]
  /\ UNCHANGED submitted

(* No proposer for the slot, the other phase, an earlier ballot *)
TakesPromise(p, m) == p.status = "PHASEI" /\ ~DropsPromise(p, m.ballot)

DropPromise(a, n, m) ==
  /\ m.type = "PROMISE"
  /\ ~TakesPromise(captains[n].proposers[m.slot], m)
  /\ TakeReply(a, n)
  /\ UNCHANGED <<captains, requests, answered>>

HandlePromise(a, n, m) ==
  LET c == captains[n]
      s == m.slot
      p == WithPromise(c.proposers[s], a, m.ack)
      q == MergePromises(p)
      r == InPhaseII(q)
  IN  /\ m.type = "PROMISE"
      /\ TakesPromise(c.proposers[s], m)
      /\ TakeReply(a, n)
      /\ UNCHANGED answered
      /\ \/ ~EnoughPromises(p) /\ Become(n, [c EXCEPT !.proposers[s] = p])
         \/ /\ EnoughPromises(p) /\ PromisedByQuorum(p)
            /\ captains' = [captains EXCEPT ![n] = WithAccept(c, n, s, r)]
            /\ Broadcast(n, AcceptMsg(s, r.curr_ballot, r.curr_value, 0, Null))
         \/ /\ EnoughPromises(p) /\ ~PromisedByQuorum(p)
            /\ Restart(n, c, s, q)

TakesAccepted(p, m) == p.status = "PHASEII" /\ ~DropsAccepted(p, m.ballot)

DropAccepted(a, n, m) ==
  /\ m.type = "ACCEPTED"
  /\ ~TakesAccepted(captains[n].proposers[m.slot], m)
  /\ TakeReply(a, n)
  /\ UNCHANGED <<captains, requests, answered>>

(* Mutant: the window is not refilled from the queue. *)
ChooseIdle(n, c, s, p) ==
  LET d   == WithChosen([c EXCEPT !.proposers[s] = Chosen(p)], s, p.curr_value)
      own == p.curr_value = p.init_value
  IN  /\ answered' = IF own THEN Append(answered, p.init_value) ELSE answered
      /\ \/ own /\ Become(n, d)
         \/ ~own /\ Recommit(n, d, p.init_value)

(* Mutant: the newest value of the queue goes first. *)
ChooseNewest(n, c, s, p) ==
  LET d   == WithChosen([c EXCEPT !.proposers[s] = Chosen(p)], s, p.curr_value)
      queue == d.tocommit_values
      last == Len(queue)
  IN  /\ answered' = Append(answered, p.init_value)
      /\ \/ queue = <<>> /\ Become(n, d)
         \/ /\ queue # <<>>
            /\ Open(n, [d EXCEPT !.tocommit_values = SubSeq(@, 1, last - 1)],
                    queue[last])

(* Mutant: the value that lost its slot is not tried again. *)
ChooseForgets(n, c, s, p) ==
  LET d   == WithChosen([c EXCEPT !.proposers[s] = Chosen(p)], s, p.curr_value)
      own == p.curr_value = p.init_value
      queue == d.tocommit_values
  IN  /\ answered' = IF own THEN Append(answered, p.init_value) ELSE answered
      /\ \/ queue = <<>> /\ Become(n, d)
         \/ /\ queue # <<>>
            /\ Open(n, [d EXCEPT !.tocommit_values = Tail(@)], Head(queue))

(* CHOOSE: the value enters the log and the proposer leaves the map.  If   *)
(* it is the node's own value, its client is told and the window serves    *)
(* the queue; otherwise the own value moves on to the next slot.           *)
Choose(n, c, s, p) ==
  LET d   == WithChosen([c EXCEPT !.proposers[s] = Chosen(p)], s, p.curr_value)
      own == p.curr_value = p.init_value
      queue == d.tocommit_values
  IN  /\ answered' = IF own THEN Append(answered, p.init_value) ELSE answered
      /\ \/ own /\ queue = <<>> /\ Become(n, d)
         \/ /\ own /\ queue # <<>>
            /\ Open(n, [d EXCEPT !.tocommit_values = Tail(@)], Head(queue))
         \/ ~own /\ Recommit(n, d, p.init_value)

HandleAccepted(a, n, m) ==
  LET c == captains[n]
      s == m.slot
      p == WithAccepted(c.proposers[s], a, m.reply)
  IN  /\ m.type = "ACCEPTED"
      /\ TakesAccepted(c.proposers[s], m)
      /\ TakeReply(a, n)
      /\ \/ /\ ~EnoughAccepted(p)
            /\ Become(n, [c EXCEPT !.proposers[s] = p])
            /\ UNCHANGED answered
         \/ EnoughAccepted(p) /\ AcceptedByQuorum(p) /\ Choose(n, c, s, p)
         \/ /\ EnoughAccepted(p) /\ ~AcceptedByQuorum(p)
            /\ Restart(n, c, s, p)
            /\ UNCHANGED answered

-----------------------------------------------------------------------------
(* Messages that never arrive *)

LoseRequest(n, a) ==
  /\ {n, a} \cap Lossy # {} /\ requests[n][a] # <<>>
  /\ requests' = [requests EXCEPT ![n][a] = Tail(@)]
  /\ UNCHANGED <<captains, replies, submitted, answered>>

LoseReply(a, n) ==
  /\ {n, a} \cap Lossy # {} /\ replies[a][n] # <<>>
  /\ replies' = [replies EXCEPT ![a][n] = Tail(@)]
  /\ UNCHANGED <<captains, requests, submitted, answered>>

-----------------------------------------------------------------------------
(* One message handled by receiver_ of node a, by senders_ of node n *)

Receive(n, a) == \E m \in First(requests[n][a]) :
  HandlePrepare(n, a, m) \/ HandleAccept(n, a, m)

ReceiveAnswer(a, n) == \E m \in First(replies[a][n]) :
  \/ DropPromise(a, n, m) \/ HandlePromise(a, n, m)
  \/ DropAccepted(a, n, m) \/ HandleAccepted(a, n, m)

Next ==
  \/ \E n \in Node, v \in Value : Commit(n, v)
  \/ \E n, a \in Node : Receive(n, a)
  \/ \E n, a \in Node : ReceiveAnswer(a, n)
  \/ \E n, a \in Node : LoseRequest(n, a)
  \/ \E n, a \in Node : LoseReply(a, n)

Spec == Init /\ [][Next]_vars

(* The poll loop of every node comes back to every socket and reads it     *)
(* until it is empty.  Nobody has to call commit.                          *)
FairSpec == Spec /\ \A n \in Node : \A a \in Others(n) :
              WF_vars(Receive(n, a)) /\ WF_vars(ReceiveAnswer(a, n))

-----------------------------------------------------------------------------
(* Properties.  Those that say so are about views in which one node, the   *)
(* master, commits; two nodes that commit contend for the same slots.      *)

(* The window is never exceeded, and never left open while values wait:    *)
(* commit queues only when the window is full, and every proposer that     *)
(* ends starts the next value or moves its own to another slot.            *)
WindowKept == \A n \in Node :
  LET size == Cardinality(Active(captains[n]))
  IN  /\ size =< WindowSize
      /\ captains[n].tocommit_values # <<>> => size = WindowSize

(* The places where node n has a value that was committed on it *)
Places(n, v) ==
  LET c == captains[n]
  IN  {<<"queue", i>> : i \in {i \in DOMAIN c.tocommit_values :
                                 c.tocommit_values[i] = v}}
      \cup {<<"slot", s>> : s \in {s \in Active(c) :
                                     c.proposers[s].init_value = v}}
      \cup {<<"answered", i>> : i \in {i \in DOMAIN answered : answered[i] = v}}

(* No committed value is forgotten, proposed in two slots at once, or      *)
(* answered twice, however often it loses a slot: it waits in the queue,   *)
(* or one proposer works for it, or its client has been told.              *)
Accounted == \A n \in Node : \A i \in DOMAIN submitted[n] :
  Cardinality(Places(n, submitted[n][i])) = 1

(* One committing node: slots are given out in the order of the calls to   *)
(* commit, also when calls find values in the queue.                       *)
ArrivalOrder == \A n \in Committer :
  LET c == captains[n]
  IN  submitted[n] = [s \in 1 .. c.max_slot |-> c.proposers[s].init_value]
                       \o c.tocommit_values

(* Two replicas never hold different values in one slot of their logs.     *)
LogAgreement == \A m, n \in Node : \A s \in Slot :
  LET v == ChosenIn(captains[m].chosen_values, s)
      w == ChosenIn(captains[n].chosen_values, s)
  IN  v # Null /\ w # Null => v = w

(* One committing node, no losses: the slot whose decision travels on the  *)
(* next ACCEPT is never more than a window behind, so the followers learn  *)
(* the log at the pace at which it grows.                                  *)
LagBounded == \A n \in Committer :
  captains[n].max_slot =< captains[n].last_slot + WindowSize

(* One committing node, no losses: when no message is under way, everything*)
(* submitted is chosen and delivered at the committing node, and the other *)
(* nodes have delivered just what last_slot says they were told.           *)
CaughtUp ==
  (\A n, a \in Node : requests[n][a] = <<>> /\ replies[a][n] = <<>>) =>
    \A n \in Committer : LET c == captains[n] IN
      /\ Delivered(c) = submitted[n]
      /\ \A a \in Others(n) :
           Delivered(captains[a]) = SubSeq(submitted[n], 1, c.last_slot)

(* One committing node, no losses: once the calls to commit stop, every    *)
(* client has its answer (captain.cpp 48-100, 199-285).                    *)
EveryoneAnswered == <>[](\A n \in Committer : \A i \in DOMAIN submitted[n] :
  \E j \in DOMAIN answered : answered[j] = submitted[n][i])

(* One committing node, no losses: once the calls to commit stop, every    *)
(* node has delivered what the committing node told (captain.cpp 373-386). *)
EveryoneDelivers == <>[](\A n \in Committer, a \in Node :
  captains[a].max_chosen_without_hole >= captains[n].last_slot)
=============================================================================
