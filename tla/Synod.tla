-------------------------------- MODULE Synod --------------------------------
(***************************************************************************)
(* One slot of the replicated log as all replicas see it: an acceptor and  *)
(* at most one proposer per node, the part of Captain that drives them,    *)
(* and the messages between the nodes.                                     *)
(*                                                                         *)
(* A node opens the slot in one of two ways.  Captain::commit, and the     *)
(* queue served after a value is chosen, go straight to Phase II with the  *)
(* first ballot (Fast nodes).  A captain whose previous slot was won by    *)
(* another value opens its next slot with Phase I (Slow nodes).  Which of  *)
(* the two happens depends on the node's earlier slots, so both sets are   *)
(* parameters.                                                             *)
(*                                                                         *)
(* Each node handles one message at a time (the poll loop of              *)
(* Commo::waiting_msg is its only thread), and a broadcast runs the        *)
(* sender's own acceptor, and the answer of that acceptor, before it       *)
(* returns; so one action is one call of a handler with everything it does.*)
(*                                                                         *)
(* The network may reorder messages and may never deliver one.  It does    *)
(* not duplicate: a message leaves net when it is handled.  (The ZMQ       *)
(* sockets also keep the order between two nodes, which the safety of a    *)
(* slot does not need.)                                                    *)
(***************************************************************************)
EXTENDS Acceptor, Proposer

CONSTANTS
  Fast,     \* the nodes that may open the slot in Phase II
  Slow,     \* the nodes that may open the slot in Phase I
  Teller,   \* the nodes that open later slots, and so can tell its value
  MaxBallot \* bound: no proposer restarts above this ballot

ASSUME ParticipantAssumption == Fast \cup Slow \cup Teller \subseteq Node

ASSUME BoundAssumption == MaxBallot \in Nat

VARIABLES
  acceptors,  \* acceptors_[slot] of each node
  proposers,  \* proposers_[slot] of each node
  chosen,     \* chosen_values_[slot] of each node
  announced,  \* the nodes whose last_slot_ has passed the slot
  net,        \* the messages under way
  votes,      \* history: the <<ballot, value>> each acceptor has accepted
  issued      \* history: the <<ballot, value>> of all ACCEPT requests

vars == <<acceptors, proposers, chosen, announced, net, votes, issued>>

-----------------------------------------------------------------------------
(* Messages *)

Prepare(n, a, b) == [type |-> "PREPARE", from |-> n, to |-> a, ballot |-> b]

Promise(a, n, b, ack) ==
  [type |-> "PROMISE", from |-> a, to |-> n, ballot |-> b, ack |-> ack]

Accept(n, a, b, v) ==
  [type |-> "ACCEPT", from |-> n, to |-> a, ballot |-> b, value |-> v]

Accepted(a, n, b, r) ==
  [type |-> "ACCEPTED", from |-> a, to |-> n, ballot |-> b, reply |-> r]

(* last_slot and last_value of the ACCEPT request of some later slot *)
Last(n, a, v) == [type |-> "LAST", from |-> n, to |-> a, value |-> v]

Message ==
  [type : {"PREPARE"}, from : Node, to : Node, ballot : Nat]
  \cup [type : {"PROMISE"}, from : Node, to : Node, ballot : Nat, ack : Promises]
  \cup [type : {"ACCEPT"}, from : Node, to : Node, ballot : Nat, value : Value]
  \cup [type : {"ACCEPTED"}, from : Node, to : Node, ballot : Nat,
        reply : Replies]
  \cup [type : {"LAST"}, from : Node, to : Node, value : Value]

TypeOK ==
  /\ acceptors \in [Node -> Acceptors]
  /\ proposers \in [Node -> Proposers]
  /\ chosen \in [Node -> Value \cup {Null}]
  /\ announced \subseteq Node
  /\ net \subseteq Message
  /\ votes \in [Node -> SUBSET (Nat \X Value)]
  /\ issued \subseteq Nat \X Value

Init ==
  /\ acceptors = [n \in Node |-> NewAcceptor]
  /\ proposers = [n \in Node |-> NewProposer(Null)]
  /\ chosen = [n \in Node |-> Null]
  /\ announced = {}
  /\ net = {}
  /\ votes = [n \in Node |-> {}]
  /\ issued = {}

-----------------------------------------------------------------------------
(* Broadcasts.  p is the proposer of node n at the time of the call, rest  *)
(* the messages under way without the one being handled.  Two or more      *)
(* nodes make up the view, so the own answer alone is never a quorum and   *)
(* the handler of the answer only records it.                              *)

BroadcastPrepare(n, p, rest) ==
  LET b == p.curr_ballot
  IN  /\ acceptors' = [acceptors EXCEPT ![n] = AfterPrepare(acceptors[n], b)]
      /\ proposers' = [proposers EXCEPT
                         ![n] = WithPromise(p, n, PromiseOf(acceptors[n], b))]
      /\ net' = rest \cup {Prepare(n, a, b) : a \in Others(n)}
      /\ UNCHANGED <<chosen, announced, votes, issued>>

(* Acceptor a receives the request to accept v at ballot b. *)
Vote(a, b, v) ==
  /\ acceptors' = [acceptors EXCEPT ![a] = AfterAccept(acceptors[a], b, v)]
  /\ votes' = IF WillAccept(acceptors[a], b)
              THEN [votes EXCEPT ![a] = votes[a] \cup {<<b, v>>}]
              ELSE votes

BroadcastAccept(n, p, rest) ==
  LET b == p.curr_ballot
      v == p.curr_value
  IN  /\ Vote(n, b, v)
      /\ proposers' = [proposers EXCEPT
                         ![n] = WithAccepted(p, n, AcceptedReply(acceptors[n], b))]
      /\ net' = rest \cup {Accept(n, a, b, v) : a \in Others(n)}
      /\ issued' = issued \cup {<<b, v>>}
      /\ UNCHANGED chosen

(* A node tells the value of the slot once, when its last_slot_ passes the *)
(* slot, on the ACCEPT that opens some slot.                               *)
Tells(n) == n \in Teller \ announced /\ announced' = announced \cup {n}

Lasts(n, v) == {Last(n, a, v) : a \in Others(n)}

-----------------------------------------------------------------------------
(* Opening the slot *)

(* Captain::commit, or the next value of the queue.  The captain does not  *)
(* look whether it knows the slot already: the slot may even be the next   *)
(* one to be told, by this very ACCEPT.                                    *)
Commit(n, v) ==
  LET p == OpenedInPhaseII(v, n)
  IN  /\ n \in Fast
      /\ proposers[n].status = "EMPTY"
      /\ \/ BroadcastAccept(n, p, net) /\ UNCHANGED announced
         \/ /\ chosen[n] # Null /\ Tells(n)
            /\ BroadcastAccept(n, p, net \cup Lasts(n, chosen[n]))

(* The value lost its previous slot: try again in this one. *)
Recommit(n, v) ==
  /\ n \in Slow
  /\ proposers[n].status = "EMPTY"
  /\ BroadcastPrepare(n, Restarted(NewProposer(v), n), net)

-----------------------------------------------------------------------------
(* Requests, handled by acceptors (Captain::re_handle_msg) *)

HandlePrepare(m) ==
  LET a == m.to
  IN  /\ m.type = "PREPARE"
      /\ acceptors' = [acceptors EXCEPT
                         ![a] = AfterPrepare(acceptors[a], m.ballot)]
      /\ net' = (net \ {m}) \cup
                {Promise(a, m.from, m.ballot, PromiseOf(acceptors[a], m.ballot))}
      /\ UNCHANGED <<proposers, chosen, announced, votes, issued>>

(* The ACCEPT that opens the slot may tell of another one.  A node that    *)
(* knows that one already returns without an answer.                       *)
MayTellAnother(m) == m.from \in Teller /\ m.ballot = NextBallot(0, m.from)

HandleAccept(m) ==
  LET a == m.to
      reply == AcceptedReply(acceptors[a], m.ballot)
  IN  /\ m.type = "ACCEPT"
      /\ Vote(a, m.ballot, m.value)
      /\ \/ net' = (net \ {m}) \cup {Accepted(a, m.from, m.ballot, reply)}
         \/ MayTellAnother(m) /\ net' = net \ {m}
      /\ UNCHANGED <<proposers, chosen, announced, issued>>

-----------------------------------------------------------------------------
(* Answers, handled by proposers (Captain::handle_msg) *)

Discard(m) ==
  /\ net' = net \ {m}
  /\ UNCHANGED <<acceptors, proposers, chosen, announced, votes, issued>>

Record(m, p) ==
  /\ proposers' = [proposers EXCEPT ![m.to] = p]
  /\ net' = net \ {m}
  /\ UNCHANGED <<acceptors, chosen, announced, votes, issued>>

(* Both phases restart in the same way; MaxBallot bounds the model. *)
Restart(m, p) ==
  /\ NextBallot(p.curr_ballot, m.to) =< MaxBallot
  /\ BroadcastPrepare(m.to, Restarted(p, m.to), net \ {m})

TakesPromise(m) ==
  /\ m.type = "PROMISE"
  /\ proposers[m.to].status = "PHASEI"
  /\ ~DropsPromise(proposers[m.to], m.ballot)

DropPromise(m) == m.type = "PROMISE" /\ ~TakesPromise(m) /\ Discard(m)

HandlePromise(m) ==
  LET p == WithPromise(proposers[m.to], m.from, m.ack)
      q == MergePromises(p)
  IN  /\ TakesPromise(m)
      /\ \/ ~EnoughPromises(p) /\ Record(m, p)
         \/ /\ EnoughPromises(p) /\ PromisedByQuorum(p)
            /\ BroadcastAccept(m.to, InPhaseII(q), net \ {m})
            /\ UNCHANGED announced
         \/ /\ EnoughPromises(p) /\ ~PromisedByQuorum(p)
            /\ Restart(m, q)

TakesAccepted(m) ==
  /\ m.type = "ACCEPTED"
  /\ proposers[m.to].status = "PHASEII"
  /\ ~DropsAccepted(proposers[m.to], m.ballot)

DropAccepted(m) == m.type = "ACCEPTED" /\ ~TakesAccepted(m) /\ Discard(m)

(* add_chosen_value: a value learned earlier stays. *)
AddChosenValue(n, v) ==
  chosen' = IF chosen[n] = Null THEN [chosen EXCEPT ![n] = v] ELSE chosen

(* The ACCEPT that opens the next slot out of the queue tells the slot     *)
(* just chosen, if that is the next one to be told.                        *)
HandleAccepted(m) ==
  LET p == WithAccepted(proposers[m.to], m.from, m.reply)
  IN  /\ TakesAccepted(m)
      /\ \/ ~EnoughAccepted(p) /\ Record(m, p)
         \/ /\ EnoughAccepted(p) /\ AcceptedByQuorum(p)
            /\ AddChosenValue(m.to, p.curr_value)
            /\ proposers' = [proposers EXCEPT ![m.to] = Chosen(p)]
            /\ \/ net' = net \ {m} /\ UNCHANGED announced
               \/ /\ Tells(m.to)
                  /\ net' = (net \ {m}) \cup Lasts(m.to, chosen'[m.to])
            /\ UNCHANGED <<acceptors, votes, issued>>
         \/ /\ EnoughAccepted(p) /\ ~AcceptedByQuorum(p)
            /\ Restart(m, p)

-----------------------------------------------------------------------------
(* A node that was told adopts the value if its acceptor holds that very   *)
(* one, and forgets about it otherwise.                                    *)

Announce(n) ==
  /\ chosen[n] # Null
  /\ Tells(n)
  /\ net' = net \cup Lasts(n, chosen[n])
  /\ UNCHANGED <<acceptors, proposers, chosen, votes, issued>>

(* Mutant: the value told is taken to be the one the acceptor holds. *)
TrustsAcceptor(m) ==
  /\ m.type = "LAST"
  /\ AddChosenValue(m.to, acceptors[m.to].max_value)
  /\ net' = net \ {m}
  /\ UNCHANGED <<acceptors, proposers, announced, votes, issued>>

HandleLast(m) ==
  /\ m.type = "LAST"
  /\ IF acceptors[m.to].max_value = m.value
     THEN AddChosenValue(m.to, m.value)
     ELSE UNCHANGED chosen
  /\ net' = net \ {m}
  /\ UNCHANGED <<acceptors, proposers, announced, votes, issued>>

(* One message m opens the slot and, as l, tells its value: the acceptor   *)
(* votes first, and is then asked for what it holds.                       *)
HandleAcceptAndLast(m, l) ==
  LET a == m.to
      reply == AcceptedReply(acceptors[a], m.ballot)
  IN  /\ m.type = "ACCEPT"
      /\ l.type = "LAST" /\ l.from = m.from /\ l.to = a
      /\ Vote(a, m.ballot, m.value)
      /\ IF acceptors'[a].max_value = l.value
         THEN AddChosenValue(a, l.value)
         ELSE UNCHANGED chosen
      /\ \/ net' = (net \ {m, l}) \cup {Accepted(a, m.from, m.ballot, reply)}
         \/ net' = net \ {m, l}
      /\ UNCHANGED <<proposers, announced, issued>>

-----------------------------------------------------------------------------
Next ==
  \/ \E n \in Node, v \in Value : Commit(n, v)
  \/ \E n \in Node, v \in Value : Recommit(n, v)
  \/ \E m \in net : HandlePrepare(m)
  \/ \E m \in net : DropPromise(m)
  \/ \E m \in net : HandlePromise(m)
  \/ \E m \in net : HandleAccept(m)
  \/ \E m \in net : DropAccepted(m)
  \/ \E m \in net : HandleAccepted(m)
  \/ \E n \in Node : Announce(n)
  \/ \E m \in net : HandleLast(m)
  \/ \E m, l \in net : HandleAcceptAndLast(m, l)

Spec == Init /\ [][Next]_vars

-----------------------------------------------------------------------------
(* Properties *)

VotedFor(b, v) == {a \in Node : <<b, v>> \in votes[a]}

ChosenAt(b, v) == \E Q \in Quorum : Q \subseteq VotedFor(b, v)

(* Two captains never hold different values for the slot, whichever of     *)
(* them got it from its proposer (add_chosen_value after CHOOSE) and       *)
(* whichever learned it from a piggybacked last_slot.                      *)
Agreement ==
  \A m, n \in Node :
    chosen[m] # Null /\ chosen[n] # Null => chosen[m] = chosen[n]

(* A value in a captain's chosen_values_ was accepted by a write quorum at *)
(* one ballot, whatever ballots the acknowledgements it counted were mixed *)
(* with and whatever a learner's acceptor has accepted since.              *)
ChosenByQuorum ==
  \A n \in Node : chosen[n] # Null =>
    \E p \in issued : p[2] = chosen[n] /\ ChosenAt(p[1], p[2])

(* Once a write quorum has accepted a value, no proposer asks for another  *)
(* value at a higher ballot: Phase I must have found it.                   *)
ChosenIsStable ==
  \A p, q \in issued :
    ChosenAt(p[1], p[2]) /\ q[1] > p[1] => q[2] = p[2]

(* A ballot asks for one value only, so that counting "yes" for a ballot   *)
(* counts votes for one value: restarts never reuse a ballot and two nodes *)
(* never produce the same one (gen_next_ballot).                           *)
OneValuePerBallot == \A p, q \in issued : p[1] = q[1] => p[2] = q[2]
=============================================================================
