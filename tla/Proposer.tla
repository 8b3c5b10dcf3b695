------------------------------ MODULE Proposer ------------------------------
(***************************************************************************)
(* The proposer of one slot on one node (class Proposer) together with the *)
(* status the captain keeps beside it (proposer_info_t.proposer_status).   *)
(* As in module Acceptor the methods are functions of the proposer.        *)
(*                                                                         *)
(* The two maps of acknowledgements are total functions on Node: NoPromise *)
(* and "none" stand for a node that has no entry.                          *)
(***************************************************************************)
EXTENDS SGateTypes

Replies == {"yes", "no"}

Promises == [reply      : Replies \cup {"none"},
             max_ballot : Nat,
             max_value  : Value \cup {Null}]

NoPromise == [reply |-> "none", max_ballot |-> 0, max_value |-> Null]

(* EMPTY: the captain's map has no proposer for the slot, and never had.   *)
(* CHOSEN: it had one, and erased it when its value was chosen.            *)
Proposers == [status      : {"EMPTY", "PHASEI", "PHASEII", "CHOSEN"},
              init_value  : Value \cup {Null},
              curr_ballot : Nat,
              curr_value  : Value \cup {Null},
              max_ballot  : Nat,
              max_value   : Value \cup {Null},
              ack_prepare : [Node -> Promises],
              ack_accept  : [Node -> Replies \cup {"none"}]]

NewProposer(v) ==
  [status      |-> "EMPTY",
   init_value  |-> v,
   curr_ballot |-> 0,
   curr_value  |-> Null,
   max_ballot  |-> 0,
   max_value   |-> Null,
   ack_prepare |-> [a \in Node |-> NoPromise],
   ack_accept  |-> [a \in Node |-> "none"]]

(* Mutant: the node id is left out. *)
BallotWithoutId(b, n) == b + NodeIdSpan

(* gen_next_ballot: one more attempt; the first also puts the id in the    *)
(* low bits.                                                               *)
NextBallot(b, n) == IF b = 0 THEN NodeIdSpan + n ELSE b + NodeIdSpan

(* Mutant: the answers of the last attempt are kept. *)
RestartedWithAcks(p, n) ==
  [p EXCEPT !.status      = "PHASEI",
            !.curr_ballot = NextBallot(p.curr_ballot, n),
            !.curr_value  = Null]

(* restart_msg_prepare (and, on a new proposer, msg_prepare): forget the   *)
(* value and the acknowledgements, keep max_ballot_ and max_value_, take   *)
(* the next ballot.                                                        *)
Restarted(p, n) ==
  [p EXCEPT !.status      = "PHASEI",
            !.curr_ballot = NextBallot(p.curr_ballot, n),
            !.curr_value  = Null,
            !.ack_prepare = [a \in Node |-> NoPromise],
            !.ack_accept  = [a \in Node |-> "none"]]

(* gen_next_ballot, init_curr_value and PHASEII: the captain's short cut   *)
(* into Phase II for a slot it opens for the first time.                   *)
OpenedInPhaseII(v, n) ==
  [NewProposer(v) EXCEPT !.status      = "PHASEII",
                         !.curr_ballot = NextBallot(0, n),
                         !.curr_value  = v]

(* handle_msg_promise.  An answer to an earlier ballot, or one that comes  *)
(* when a value is fixed, is dropped; any other is recorded.               *)
DropsPromise(p, b) == b < p.curr_ballot \/ p.curr_value # Null

WithPromise(p, a, ack) == [p EXCEPT !.ack_prepare[a] = ack]

Promised(p, r) == {a \in Node : p.ack_prepare[a].reply = r}

EnoughPromises(p) ==
  Cardinality({a \in Node : p.ack_prepare[a].reply # "none"}) >= QuorumSize

(* The loop over the recorded answers: max_ballot_ and max_value_ become   *)
(* those of the highest accepted ballot reported with a promise, if it is  *)
(* above the one kept.  (Answers with the same ballot carry the same value,*)
(* so it does not matter that the code takes the first of them.)           *)
MergePromises(p) ==
  LET higher == {a \in Promised(p, "yes") :
                   p.ack_prepare[a].max_ballot > p.max_ballot}
      top == CHOOSE a \in higher :
               \A o \in higher :
                 p.ack_prepare[o].max_ballot =< p.ack_prepare[a].max_ballot
  IN  IF higher = {}
      THEN p
      ELSE [p EXCEPT !.max_ballot = p.ack_prepare[top].max_ballot,
                     !.max_value  = p.ack_prepare[top].max_value]

PromisedByQuorum(p) == Cardinality(Promised(p, "yes")) >= QuorumSize

(* Mutant: the case of an empty slot is forgotten. *)
AdoptsAlways(p) == [p EXCEPT !.status = "PHASEII", !.curr_value = p.max_value]

(* CONTINUE: adopt the value already accepted somewhere, else the own one. *)
InPhaseII(p) ==
  [p EXCEPT !.status     = "PHASEII",
            !.curr_value = IF p.max_value # Null THEN p.max_value
                                                 ELSE p.init_value]

(* handle_msg_accepted *)
DropsAccepted(p, b) == b < p.curr_ballot \/ p.curr_value = Null

WithAccepted(p, a, r) == [p EXCEPT !.ack_accept[a] = r]

AcceptedBy(p, r) == {a \in Node : p.ack_accept[a] = r}

EnoughAccepted(p) ==
  Cardinality({a \in Node : p.ack_accept[a] # "none"}) >= QuorumSize

(* Mutant: answers are counted, whatever they say. *)
AnsweredByQuorum(p) == EnoughAccepted(p)

AcceptedByQuorum(p) == Cardinality(AcceptedBy(p, "yes")) >= QuorumSize

(* CHOOSE: the captain marks the slot and erases the proposer. *)
Chosen(p) == [p EXCEPT !.status = "CHOSEN"]
=============================================================================
