------------------------------- MODULE SynodInv -------------------------------
(***************************************************************************)
(* The inductive invariant behind the safety of a slot, and the one        *)
(* condition it needs on how the slot is opened.                           *)
(*                                                                         *)
(* A ballot issued without Phase I is safe only because no ballot lies     *)
(* below it.  Ballots order first by attempt and then by node id, so this  *)
(* holds when the node that opens the slot in Phase II is the one with     *)
(* the least id of all nodes that propose for the slot: the master of the  *)
(* shipped configurations is node 0.                                       *)
(***************************************************************************)
EXTENDS Synod

Participant == Fast \cup Slow

ASSUME LeastIdOpens == \A f \in Fast, n \in Participant : f =< n

(* b is a ballot that a proposer of the slot can use. *)
IsBallot(b) == b \in Nat /\ b >= NodeIdSpan /\ Owner(b) \in Participant

(* The k-th ballot of node n. *)
BallotOf(k, n) == k * NodeIdSpan + n

InPhaseIIOrLater(p) == p.status \in {"PHASEII", "CHOSEN"}

ProposerOK(n, p) ==
  /\ p.status = "EMPTY" => p = NewProposer(Null)
  /\ p.status # "EMPTY" => /\ n \in Participant
                           /\ p.curr_ballot >= NodeIdSpan
                           /\ Owner(p.curr_ballot) = n
                           /\ p.init_value \in Value
  /\ p.status = "PHASEI" => p.curr_value = Null
  /\ InPhaseIIOrLater(p) =>
       p.curr_value \in Value /\ <<p.curr_ballot, p.curr_value>> \in issued
  /\ \/ p.max_ballot = 0 /\ p.max_value = Null
     \/ p.max_ballot < p.curr_ballot /\ <<p.max_ballot, p.max_value>> \in issued

(* An issued ballot belongs to the past or the present of its owner. *)
IssuedOK(b, v) ==
  LET p == proposers[Owner(b)]
  IN  /\ IsBallot(b)
      /\ b =< p.curr_ballot
      /\ b = p.curr_ballot => InPhaseIIOrLater(p) /\ v = p.curr_value

AcceptorOK(a) ==
  LET acc == acceptors[a]
  IN  /\ acc.max_accepted_ballot =< acc.max_proposed_ballot
      /\ \A x \in votes[a] : x \in issued /\ x[1] =< acc.max_accepted_ballot
      /\ \/ acc.max_accepted_ballot = 0 /\ acc.max_value = Null
         \/ <<acc.max_accepted_ballot, acc.max_value>> \in votes[a]

(* A promise by a for ballot b: a votes below b no more, and ack tells its *)
(* last vote below b.                                                      *)
PromiseOK(a, b, ack) ==
  ack.reply = "yes" =>
    /\ acceptors[a].max_proposed_ballot >= b
    /\ ack.max_ballot < b
    /\ \/ ack.max_ballot = 0 /\ ack.max_value = Null
       \/ <<ack.max_ballot, ack.max_value>> \in votes[a]
    /\ \A x \in votes[a] : x[1] < b => x[1] =< ack.max_ballot

AcksOK(n) ==
  LET p == proposers[n]
  IN  \A a \in Node :
        /\ PromiseOK(a, p.curr_ballot, p.ack_prepare[a])
        /\ p.ack_accept[a] = "yes" => <<p.curr_ballot, p.curr_value>> \in votes[a]

IsChosen(v) == \E x \in issued : x[2] = v /\ ChosenAt(x[1], v)

MessageOK(m) ==
  /\ m.type = "PREPARE" => m.ballot =< proposers[m.from].curr_ballot
  /\ m.type = "PROMISE" => /\ m.ballot =< proposers[m.to].curr_ballot
                           /\ PromiseOK(m.from, m.ballot, m.ack)
  /\ m.type = "ACCEPT" => /\ <<m.ballot, m.value>> \in issued
                          /\ m.ballot =< proposers[m.from].curr_ballot
  /\ m.type = "ACCEPTED" => /\ m.ballot =< proposers[m.to].curr_ballot
                            /\ m.reply = "yes" =>
                                 \E x \in votes[m.from] : x[1] = m.ballot
  /\ m.type = "LAST" => IsChosen(m.value)

(* a has no vote at ballot c and will never have one. *)
Skipped(a, c) == /\ acceptors[a].max_proposed_ballot > c
                 /\ \A x \in votes[a] : x[1] # c

(* No value but v is, or ever will be, chosen below ballot b. *)
SafeAt(b, v) ==
  \A k \in 1 .. (b \div NodeIdSpan), n \in Participant :
    BallotOf(k, n) < b =>
      \E Q \in Quorum : \A a \in Q :
        <<BallotOf(k, n), v>> \in votes[a] \/ Skipped(a, BallotOf(k, n))

ProposersInv == \A n \in Node : ProposerOK(n, proposers[n])
AcksInv      == \A n \in Node : AcksOK(n)
IssuedInv    == \A x \in issued : IssuedOK(x[1], x[2])
SafeInv      == \A x \in issued : SafeAt(x[1], x[2])
AcceptorsInv == \A a \in Node : AcceptorOK(a)
MessagesInv  == \A m \in net : MessageOK(m)
ChosenInv    == \A n \in Node : chosen[n] # Null => IsChosen(chosen[n])

IInv ==
  /\ TypeOK
  /\ OneValuePerBallot
  /\ ProposersInv
  /\ AcksInv
  /\ IssuedInv
  /\ SafeInv
  /\ AcceptorsInv
  /\ MessagesInv
  /\ ChosenInv
=============================================================================
