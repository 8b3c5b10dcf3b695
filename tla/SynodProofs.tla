----------------------------- MODULE SynodProofs -----------------------------
(***************************************************************************)
(* Proofs that a slot is agreed upon, for every view, every set of values, *)
(* every choice of Fast and Slow nodes that meets LeastIdOpens, and every  *)
(* number of restarts.                                                     *)
(***************************************************************************)
EXTENDS SynodInv, ProposerProofs

-----------------------------------------------------------------------------
(* Ballots *)

(* Every ballot a proposer can use is BallotOf its attempt and its owner. *)
LEMMA BallotForm ==
  ASSUME NEW c \in Nat, IsBallot(c), NEW b \in Nat, c < b
  PROVE  \E k \in 1 .. (b \div NodeIdSpan), n \in Participant : c = BallotOf(k, n)
<1> DEFINE k == c \div NodeIdSpan
<1>1. k \in Nat /\ k >= 1 /\ k =< b \div NodeIdSpan
  BY DEF IsBallot, NodeIdSpan
<1>2. c = BallotOf(k, Owner(c))
  BY DEF BallotOf, Owner, NodeIdSpan
<1>3. Owner(c) \in Participant
  BY DEF IsBallot
<1>4. b \div NodeIdSpan \in Int
  BY DEF NodeIdSpan
<1>5. k \in 1 .. (b \div NodeIdSpan)
  BY <1>1, <1>4
<1> HIDE DEF k
<1> QED
  BY <1>2, <1>3, <1>5

(* A ballot below b is the k-th ballot of some participant. *)
LEMMA BallotOfOK ==
  ASSUME NEW b \in Nat, NEW k \in 1 .. (b \div NodeIdSpan), NEW n \in Participant
  PROVE  /\ BallotOf(k, n) \in Nat
         /\ IsBallot(BallotOf(k, n))
         /\ Owner(BallotOf(k, n)) = n
<1>1. n \in Nat /\ n < NodeIdSpan
  BY ParticipantAssumption, NodeNat DEF ParticipantAssumption, Participant
<1>2. b \div NodeIdSpan \in Int
  BY DEF NodeIdSpan
<1>3. k \in Int /\ k >= 1
  BY <1>2
<1>4. BallotOf(k, n) \in Nat /\ BallotOf(k, n) >= NodeIdSpan
  BY <1>1, <1>3 DEF BallotOf, NodeIdSpan
<1>5. Owner(BallotOf(k, n)) = n
  BY <1>1, <1>3 DEF BallotOf, Owner, NodeIdSpan
<1> QED
  BY <1>4, <1>5 DEF IsBallot

-----------------------------------------------------------------------------
(* Every step moves forward: promises and ballots only rise, votes and     *)
(* requests only accumulate, and nobody votes below its promise.           *)

Advance ==
  /\ \A a \in Node :
       /\ acceptors'[a].max_proposed_ballot >= acceptors[a].max_proposed_ballot
       /\ votes[a] \subseteq votes'[a]
       /\ \A x \in votes'[a] : x \in votes[a] \/ x[1] >= acceptors[a].max_proposed_ballot
  /\ issued \subseteq issued'
  /\ \A n \in Node : proposers'[n].curr_ballot >= proposers[n].curr_ballot

(* A promise, once given, stays kept. *)
LEMMA PromiseStable ==
  ASSUME TypeOK, TypeOK', Advance,
         NEW a \in Node, NEW b \in Nat, NEW ack \in Promises, PromiseOK(a, b, ack)
  PROVE  PromiseOK(a, b, ack)'
<1> SUFFICES ASSUME ack.reply = "yes"
             PROVE  PromiseOK(a, b, ack)'
  BY DEF PromiseOK
<1>1. /\ acceptors[a].max_proposed_ballot \in Nat
      /\ acceptors'[a].max_proposed_ballot \in Nat
      /\ \A x \in votes'[a] : x[1] \in Nat
      /\ ack.max_ballot \in Nat
  BY DEF TypeOK, Acceptors, Promises
<1>2. acceptors[a].max_proposed_ballot >= b
  BY DEF PromiseOK
<1>3. acceptors'[a].max_proposed_ballot >= b
  BY <1>1, <1>2 DEF Advance
<1>4. \A x \in votes'[a] : x[1] < b => x[1] =< ack.max_ballot
  BY <1>1, <1>2 DEF Advance, PromiseOK
<1> QED
  BY <1>3, <1>4 DEF Advance, PromiseOK

(* A ballot that an acceptor has skipped stays skipped. *)
LEMMA SkippedStable ==
  ASSUME TypeOK, TypeOK', Advance,
         NEW a \in Node, NEW c \in Nat, Skipped(a, c)
  PROVE  Skipped(a, c)'
<1>1. /\ acceptors[a].max_proposed_ballot \in Nat
      /\ acceptors'[a].max_proposed_ballot \in Nat
      /\ \A x \in votes'[a] : x[1] \in Nat
  BY DEF TypeOK, Acceptors
<1> QED
  BY <1>1 DEF Advance, Skipped

(* A ballot that is safe for a value stays safe for it. *)
LEMMA SafeStable ==
  ASSUME TypeOK, TypeOK', Advance,
         NEW b \in Nat, NEW v \in Value, SafeAt(b, v)
  PROVE  SafeAt(b, v)'
<1> SUFFICES ASSUME NEW k \in 1 .. (b \div NodeIdSpan), NEW n \in Participant,
                    BallotOf(k, n) < b
             PROVE  \E Q \in Quorum : \A a \in Q :
                      (<<BallotOf(k, n), v>> \in votes[a] \/ Skipped(a, BallotOf(k, n)))'
  BY DEF SafeAt, BallotOf, Participant, Quorum, QuorumSize
<1> DEFINE c == BallotOf(k, n)
<1>1. c \in Nat
  BY BallotOfOK
<1>2. PICK Q \in Quorum : \A a \in Q : <<c, v>> \in votes[a] \/ Skipped(a, c)
  BY DEF SafeAt
<1> HIDE DEF c
<1>3. ASSUME NEW a \in Q PROVE (<<c, v>> \in votes[a] \/ Skipped(a, c))'
  <2>1. a \in Node
    BY DEF Quorum
  <2>2. CASE <<c, v>> \in votes[a]
    BY <2>1, <2>2 DEF Advance
  <2>3. CASE Skipped(a, c)
    BY <1>1, <2>1, <2>3, SkippedStable
  <2> QED
    BY <1>2, <2>2, <2>3
<1> QED
  BY <1>3 DEF c

(* A chosen value stays chosen. *)
LEMMA ChosenStable ==
  ASSUME Advance, NEW v, IsChosen(v)
  PROVE  IsChosen(v)'
<1>1. PICK x \in issued : x[2] = v /\ ChosenAt(x[1], v)
  BY DEF IsChosen
<1>2. PICK Q \in Quorum : Q \subseteq VotedFor(x[1], v)
  BY <1>1 DEF ChosenAt
<1>3. Q \subseteq VotedFor(x[1], v)'
  BY <1>2 DEF VotedFor, Advance
<1>4. ChosenAt(x[1], v)'
  BY <1>3 DEF ChosenAt, Quorum, QuorumSize
<1> QED
  BY <1>1, <1>4 DEF IsChosen, Advance

(* What holds of a message under way goes on holding. *)
LEMMA MessageStable ==
  ASSUME TypeOK, TypeOK', Advance, NEW m \in Message, MessageOK(m)
  PROVE  MessageOK(m)'
<1>1. \A n \in Node : /\ proposers[n].curr_ballot \in Nat
                      /\ proposers'[n].curr_ballot \in Nat
  BY DEF TypeOK, Proposers
<1>2. CASE m.type = "PREPARE"
  <2>1. m.from \in Node /\ m.ballot \in Nat
    BY <1>2 DEF Message
  <2> QED
    BY <1>1, <1>2, <2>1 DEF MessageOK, Advance
<1>3. CASE m.type = "PROMISE"
  <2>1. m.from \in Node /\ m.to \in Node /\ m.ballot \in Nat /\ m.ack \in Promises
    BY <1>3 DEF Message
  <2>2. PromiseOK(m.from, m.ballot, m.ack)'
    BY <1>3, <2>1, PromiseStable DEF MessageOK
  <2> QED
    BY <1>1, <1>3, <2>1, <2>2 DEF MessageOK, Advance
<1>4. CASE m.type = "ACCEPT"
  <2>1. m.from \in Node /\ m.ballot \in Nat
    BY <1>4 DEF Message
  <2> QED
    BY <1>1, <1>4, <2>1 DEF MessageOK, Advance
<1>5. CASE m.type = "ACCEPTED"
  <2>1. m.from \in Node /\ m.to \in Node /\ m.ballot \in Nat
    BY <1>5 DEF Message
  <2> QED
    BY <1>1, <1>5, <2>1 DEF MessageOK, Advance
<1>6. CASE m.type = "LAST"
  BY <1>6, ChosenStable DEF MessageOK
<1> QED
  BY <1>2, <1>3, <1>4, <1>5, <1>6 DEF Message

(* What a step leaves of the invariant when it only moves forward. *)
LEMMA Frame ==
  ASSUME IInv, TypeOK', Advance
  PROVE  /\ \A x \in issued : SafeAt(x[1], x[2])'
         /\ \A m \in net : MessageOK(m)'
         /\ \A n \in Node : proposers'[n] = proposers[n] =>
              ProposerOK(n, proposers[n])' /\ AcksOK(n)'
         /\ \A n \in Node : chosen'[n] = chosen[n] /\ chosen[n] # Null =>
              IsChosen(chosen[n])'
<1> USE DEF IInv
<1>1. ASSUME NEW x \in issued PROVE SafeAt(x[1], x[2])'
  <2>1. x[1] \in Nat /\ x[2] \in Value
    BY DEF TypeOK
  <2> QED
    BY <2>1, SafeStable DEF SafeInv
<1>2. ASSUME NEW m \in net PROVE MessageOK(m)'
  <2>1. m \in Message
    BY DEF TypeOK
  <2> QED
    BY <2>1, MessageStable DEF MessagesInv
<1>3. ASSUME NEW n \in Node, proposers'[n] = proposers[n]
      PROVE  ProposerOK(n, proposers[n])' /\ AcksOK(n)'
  <2>1. ProposerOK(n, proposers[n])
    BY DEF ProposersInv
  <2>2. ProposerOK(n, proposers[n])'
    BY <1>3, <2>1 DEF ProposerOK, InPhaseIIOrLater, Advance
  <2>3. ASSUME NEW a \in Node
        PROVE  /\ PromiseOK(a, proposers[n].curr_ballot, proposers[n].ack_prepare[a])'
               /\ proposers'[n].ack_accept[a] = "yes" =>
                    <<proposers'[n].curr_ballot, proposers'[n].curr_value>> \in votes'[a]
    <3> DEFINE b == proposers[n].curr_ballot
               ack == proposers[n].ack_prepare[a]
    <3>1. b \in Nat /\ ack \in Promises
      BY DEF TypeOK, Proposers
    <3>2. PromiseOK(a, b, ack)
      BY DEF AcksInv, AcksOK
    <3>3. \A bb \in Nat, aa \in Promises : PromiseOK(a, bb, aa) => PromiseOK(a, bb, aa)'
      BY PromiseStable
    <3>4. PromiseOK(a, proposers[n].curr_ballot, proposers[n].ack_prepare[a])'
      BY <1>3, <3>1, <3>2, <3>3 DEF PromiseOK
    <3>5. proposers[n].ack_accept[a] = "yes" =>
            <<proposers[n].curr_ballot, proposers[n].curr_value>> \in votes[a]
      BY DEF AcksInv, AcksOK
    <3> QED
      BY <1>3, <3>4, <3>5 DEF Advance
  <2> QED
    BY <2>2, <2>3 DEF AcksOK
<1>4. ASSUME NEW n \in Node, chosen'[n] = chosen[n], chosen[n] # Null
      PROVE  IsChosen(chosen[n])'
  <2>1. IsChosen(chosen[n])
    BY <1>4 DEF ChosenInv
  <2>2. \A v : IsChosen(v) => IsChosen(v)'
    BY ChosenStable
  <2> QED
    BY <1>4, <2>1, <2>2 DEF IsChosen
<1> QED
  BY <1>1, <1>2, <1>3, <1>4

(* handle_msg_prepare on node a, whoever sent the request *)
LEMMA PrepareActs ==
  ASSUME IInv, NEW a \in Node, NEW b \in Nat, NEW ack,
         ack = PromiseOf(acceptors[a], b),
         acceptors' = [acceptors EXCEPT ![a] = AfterPrepare(acceptors[a], b)],
         votes' = votes, issued' = issued
  PROVE  /\ acceptors' \in [Node -> Acceptors]
         /\ \A c \in Node :
              acceptors'[c].max_proposed_ballot >= acceptors[c].max_proposed_ballot
         /\ AcceptorsInv'
         /\ ack \in Promises
         /\ PromiseOK(a, b, ack)'
<1> DEFINE acc == acceptors[a]
<1>1. acceptors \in [Node -> Acceptors]
  BY DEF IInv, TypeOK
<1>2. \A c \in Node : /\ acceptors[c].max_proposed_ballot \in Nat
                      /\ acceptors[c].max_accepted_ballot \in Nat
  BY <1>1 DEF Acceptors
<1>3. AfterPrepare(acc, b) \in Acceptors
  BY <1>1, AfterPrepareOK
<1>4. acceptors' \in [Node -> Acceptors]
  BY <1>1, <1>3
<1>5. \A c \in Node :
        /\ acceptors'[c].max_proposed_ballot >= acceptors[c].max_proposed_ballot
        /\ acceptors'[c].max_accepted_ballot = acceptors[c].max_accepted_ballot
        /\ acceptors'[c].max_value = acceptors[c].max_value
  BY <1>1, <1>2, AfterPrepareOK
<1>6. \A c \in Node : /\ acceptors'[c].max_proposed_ballot \in Nat
                      /\ acceptors'[c].max_accepted_ballot \in Nat
  BY <1>4 DEF Acceptors
<1>7. AcceptorsInv'
  <2>1. ASSUME NEW c \in Node PROVE AcceptorOK(c)'
    <3>1. AcceptorOK(c)
      BY DEF IInv, AcceptorsInv
    <3> QED
      BY <1>2, <1>5, <1>6, <3>1 DEF AcceptorOK
  <2> QED
    BY <2>1 DEF AcceptorsInv
<1>8. ack \in Promises
  BY <1>1, PromiseOfOK
<1>9. ASSUME ack.reply = "yes"
      PROVE  /\ acceptors'[a].max_proposed_ballot >= b
             /\ ack.max_ballot < b
             /\ \/ ack.max_ballot = 0 /\ ack.max_value = Null
                \/ <<ack.max_ballot, ack.max_value>> \in votes'[a]
             /\ \A x \in votes'[a] : x[1] < b => x[1] =< ack.max_ballot
  <2>1. /\ WillPromise(acc, b)
        /\ ack.max_ballot = acc.max_accepted_ballot
        /\ ack.max_value = acc.max_value
    BY <1>1, <1>9, PromiseOfOK
  <2>2. acceptors'[a].max_proposed_ballot = b /\ b > acc.max_proposed_ballot
    BY <1>1, <2>1, AfterPrepareOK DEF WillPromise
  <2>3. AcceptorOK(a)
    BY DEF IInv, AcceptorsInv
  <2> QED
    BY <1>2, <2>1, <2>2, <2>3 DEF AcceptorOK
<1>10. PromiseOK(a, b, ack)'
  BY <1>9 DEF PromiseOK
<1> QED
  BY <1>4, <1>5, <1>7, <1>8, <1>10

(* handle_msg_accept on node a, whoever sent the request *)
LEMMA VoteActs ==
  ASSUME IInv, NEW a \in Node, NEW b \in Nat, NEW v \in Value,
         Vote(a, b, v), issued \subseteq issued', <<b, v>> \in issued'
  PROVE  /\ acceptors' \in [Node -> Acceptors]
         /\ votes' \in [Node -> SUBSET (Nat \X Value)]
         /\ \A c \in Node :
              /\ acceptors'[c].max_proposed_ballot >= acceptors[c].max_proposed_ballot
              /\ votes[c] \subseteq votes'[c]
              /\ \A x \in votes'[c] :
                   x \in votes[c] \/ x[1] >= acceptors[c].max_proposed_ballot
         /\ AcceptorsInv'
         /\ AcceptedReply(acceptors[a], b) \in Replies
         /\ AcceptedReply(acceptors[a], b) = "yes" => <<b, v>> \in votes'[a]
<1>1. /\ acceptors \in [Node -> Acceptors]
      /\ votes \in [Node -> SUBSET (Nat \X Value)]
  BY DEF IInv, TypeOK
<1>2. \A c \in Node : /\ acceptors[c].max_proposed_ballot \in Nat
                      /\ acceptors[c].max_accepted_ballot \in Nat
                      /\ \A x \in votes[c] : x[1] \in Nat
  BY <1>1 DEF Acceptors
<1>3. acceptors' = [acceptors EXCEPT ![a] = AfterAccept(acceptors[a], b, v)]
  BY DEF Vote
<1>4. AfterAccept(acceptors[a], b, v) \in Acceptors
  BY <1>1, AfterAcceptOK
<1>5. acceptors' \in [Node -> Acceptors]
  BY <1>1, <1>3, <1>4
<1>6. \A c \in Node : AcceptorOK(c)
  BY DEF IInv, AcceptorsInv
<1>7. CASE WillAccept(acceptors[a], b)
  <2>1. votes' = [votes EXCEPT ![a] = votes[a] \cup {<<b, v>>}]
    BY <1>7 DEF Vote
  <2>2. b >= acceptors[a].max_proposed_ballot
    BY <1>7 DEF WillAccept
  <2>3. /\ acceptors'[a].max_proposed_ballot = b
        /\ acceptors'[a].max_accepted_ballot = b
        /\ acceptors'[a].max_value = v
    BY <1>1, <1>3, <1>7, AfterAcceptOK
  <2>4. votes' \in [Node -> SUBSET (Nat \X Value)]
    BY <1>1, <2>1
  <2>5. votes'[a] = votes[a] \cup {<<b, v>>}
    BY <1>1, <2>1
  <2>6. \A c \in Node : c # a => acceptors'[c] = acceptors[c] /\ votes'[c] = votes[c]
    BY <1>1, <1>3, <2>1
  <2>7. AcceptorOK(a)'
    <3>1. ASSUME NEW x \in votes'[a]
          PROVE  x \in issued' /\ x[1] =< b
      <4>1. CASE x \in votes[a]
        <5>1. x \in issued /\ x[1] =< acceptors[a].max_accepted_ballot
          BY <1>6, <4>1 DEF AcceptorOK
        <5>2. acceptors[a].max_accepted_ballot =< acceptors[a].max_proposed_ballot
          BY <1>6 DEF AcceptorOK
        <5> QED
          BY <1>2, <2>2, <4>1, <5>1, <5>2
      <4>2. CASE x = <<b, v>>
        BY <4>2
      <4> QED
        BY <2>5, <4>1, <4>2
    <3>2. <<b, v>> \in votes'[a]
      BY <2>5
    <3> QED
      BY <2>3, <3>1, <3>2 DEF AcceptorOK
  <2>8. \A c \in Node : c # a => AcceptorOK(c)'
    BY <1>6, <2>6 DEF AcceptorOK
  <2>9. ASSUME NEW c \in Node
        PROVE  /\ acceptors'[c].max_proposed_ballot >= acceptors[c].max_proposed_ballot
               /\ votes[c] \subseteq votes'[c]
               /\ \A x \in votes'[c] :
                    x \in votes[c] \/ x[1] >= acceptors[c].max_proposed_ballot
    <3>1. CASE c = a
      BY <1>2, <2>2, <2>3, <2>5, <3>1
    <3>2. CASE c # a
      BY <1>2, <2>6, <3>2
    <3> QED
      BY <3>1, <3>2
  <2> QED
    BY <1>5, <2>4, <2>5, <2>7, <2>8, <2>9 DEF AcceptorsInv, AcceptedReply, Replies
<1>8. CASE ~WillAccept(acceptors[a], b)
  <2>1. votes' = votes
    BY <1>8 DEF Vote
  <2>2. acceptors' = acceptors
    BY <1>1, <1>3, <1>8, AfterAcceptOK
  <2>3. \A c \in Node : AcceptorOK(c)'
    BY <1>6, <2>1, <2>2 DEF AcceptorOK
  <2> QED
    BY <1>1, <1>2, <1>8, <2>1, <2>2, <2>3 DEF AcceptorsInv, AcceptedReply, Replies
<1> QED
  BY <1>7, <1>8

(* The ballots in use belong to nodes of the view. *)
LEMMA OwnersAreNodes == IInv => \A x \in issued : Owner(x[1]) \in Node
BY ParticipantAssumption
   DEF IInv, IssuedInv, IssuedOK, IsBallot, Participant, ParticipantAssumption

(* Phase I starts, for the first time or again (restart_msg_prepare). *)
LEMMA BroadcastPrepareActs ==
  ASSUME IInv, NEW n \in Node, NEW p \in Proposers, NEW rest, rest \subseteq net,
         BroadcastPrepare(n, p, rest),
         n \in Participant, p.status = "PHASEI",
         p.init_value \in Value, p.curr_value = Null,
         p.curr_ballot > proposers[n].curr_ballot,
         p.curr_ballot >= NodeIdSpan, Owner(p.curr_ballot) = n,
         p.ack_prepare = [a \in Node |-> NoPromise],
         p.ack_accept = [a \in Node |-> "none"],
         \/ p.max_ballot = 0 /\ p.max_value = Null
         \/ p.max_ballot < p.curr_ballot /\ <<p.max_ballot, p.max_value>> \in issued
  PROVE  IInv'
<1> DEFINE b == p.curr_ballot
<1>1. PICK ack : ack = PromiseOf(acceptors[n], b)
  OBVIOUS
<1> DEFINE q == WithPromise(p, n, ack)
           sent == {Prepare(n, a, b) : a \in Others(n)}
<1>2. /\ acceptors' = [acceptors EXCEPT ![n] = AfterPrepare(acceptors[n], b)]
      /\ proposers' = [proposers EXCEPT ![n] = q]
      /\ net' = rest \cup sent
      /\ chosen' = chosen /\ announced' = announced
      /\ votes' = votes /\ issued' = issued
  BY <1>1 DEF BroadcastPrepare
<1>3. TypeOK
  BY DEF IInv
<1>4. b \in Nat /\ \A c \in Node : proposers[c].curr_ballot \in Nat
  BY <1>3 DEF TypeOK, Proposers
<1>5. /\ acceptors' \in [Node -> Acceptors]
      /\ \A c \in Node :
           acceptors'[c].max_proposed_ballot >= acceptors[c].max_proposed_ballot
      /\ AcceptorsInv'
      /\ ack \in Promises
      /\ PromiseOK(n, b, ack)'
  BY <1>1, <1>2, <1>4, PrepareActs
<1>6. /\ q \in Proposers
      /\ q.status = "PHASEI" /\ q.init_value = p.init_value
      /\ q.curr_ballot = b /\ q.curr_value = Null
      /\ q.max_ballot = p.max_ballot /\ q.max_value = p.max_value
      /\ q.ack_prepare = [p.ack_prepare EXCEPT ![n] = ack]
      /\ q.ack_accept = [a \in Node |-> "none"]
  BY <1>5, WithPromiseOK
<1> HIDE DEF q
<1>7. proposers'[n] = q /\ \A c \in Node : c # n => proposers'[c] = proposers[c]
  BY <1>2, <1>3 DEF TypeOK
<1>8. \A m \in sent : m \in Message /\ m.type = "PREPARE" /\ m.from = n /\ m.ballot = b
  BY <1>4 DEF Prepare, Others, Message
<1> HIDE DEF sent
<1>9. TypeOK'
  BY <1>2, <1>3, <1>5, <1>6, <1>8 DEF TypeOK
<1>10. Advance
  <2>1. \A c \in Node : proposers'[c].curr_ballot >= proposers[c].curr_ballot
    BY <1>4, <1>6, <1>7
  <2> QED
    BY <1>2, <1>5, <2>1 DEF Advance
<1>11. /\ \A x \in issued : SafeAt(x[1], x[2])'
       /\ \A m \in net : MessageOK(m)'
       /\ \A c \in Node : proposers'[c] = proposers[c] =>
            ProposerOK(c, proposers[c])' /\ AcksOK(c)'
       /\ \A c \in Node : chosen'[c] = chosen[c] /\ chosen[c] # Null =>
            IsChosen(chosen[c])'
  BY <1>9, <1>10, Frame
<1>12. OneValuePerBallot'
  BY <1>2 DEF IInv, OneValuePerBallot
<1>13. ProposersInv'
  <2>1. ProposerOK(n, proposers[n])'
    BY <1>2, <1>6, <1>7 DEF ProposerOK, InPhaseIIOrLater
  <2> QED
    BY <1>7, <1>11, <2>1 DEF ProposersInv
<1>14. AcksInv'
  <2>1. ASSUME NEW a \in Node
        PROVE  PromiseOK(a, proposers[n].curr_ballot, proposers[n].ack_prepare[a])'
    <3>1. CASE a = n
      BY <1>5, <1>6, <1>7, <3>1 DEF PromiseOK
    <3>2. CASE a # n
      BY <1>6, <1>7, <3>2 DEF PromiseOK, NoPromise
    <3> QED
      BY <3>1, <3>2
  <2>2. \A a \in Node : proposers'[n].ack_accept[a] # "yes"
    BY <1>6, <1>7
  <2>3. AcksOK(n)'
    BY <2>1, <2>2 DEF AcksOK
  <2> QED
    BY <1>7, <1>11, <2>3 DEF AcksInv
<1>15. IssuedInv'
  <2>1. ASSUME NEW x \in issued PROVE IssuedOK(x[1], x[2])'
    <3>1. IssuedOK(x[1], x[2]) /\ Owner(x[1]) \in Node /\ x[1] \in Nat
      BY <1>3, OwnersAreNodes DEF IInv, IssuedInv, TypeOK
    <3>2. CASE Owner(x[1]) = n
      <4>1. x[1] < b
        BY <1>4, <3>1, <3>2 DEF IssuedOK
      <4> QED
        BY <1>4, <1>6, <1>7, <3>1, <3>2, <4>1 DEF IssuedOK, IsBallot
    <3>3. CASE Owner(x[1]) # n
      BY <1>7, <3>1, <3>3 DEF IssuedOK, IsBallot
    <3> QED
      BY <3>2, <3>3
  <2> QED
    BY <1>2, <2>1 DEF IssuedInv
<1>16. SafeInv'
  BY <1>2, <1>11 DEF SafeInv
<1>17. MessagesInv'
  <2>1. \A m \in sent : MessageOK(m)'
    BY <1>4, <1>6, <1>7, <1>8 DEF MessageOK
  <2> QED
    BY <1>2, <1>11, <2>1 DEF MessagesInv
<1>18. ChosenInv'
  BY <1>2, <1>11 DEF ChosenInv
<1> QED
  BY <1>5, <1>9, <1>12, <1>13, <1>14, <1>15, <1>16, <1>17, <1>18 DEF IInv

(* Phase II starts with a value that is safe at a ballot not used before. *)
LEMMA BroadcastAcceptActs ==
  ASSUME IInv, NEW n \in Node, NEW p \in Proposers,
         NEW rest, rest \subseteq Message,
         \A m \in rest : m \in net \/ (m.type = "LAST" /\ IsChosen(m.value)),
         announced' \subseteq Node,
         BroadcastAccept(n, p, rest),
         n \in Participant, p.status = "PHASEII",
         p.init_value \in Value, p.curr_value \in Value,
         p.curr_ballot >= proposers[n].curr_ballot,
         p.curr_ballot >= NodeIdSpan, Owner(p.curr_ballot) = n,
         \A x \in issued : Owner(x[1]) = n => x[1] < p.curr_ballot,
         SafeAt(p.curr_ballot, p.curr_value),
         \A a \in Node : PromiseOK(a, p.curr_ballot, p.ack_prepare[a]),
         \A a \in Node : p.ack_accept[a] # "yes",
         \/ p.max_ballot = 0 /\ p.max_value = Null
         \/ p.max_ballot < p.curr_ballot /\ <<p.max_ballot, p.max_value>> \in issued
  PROVE  IInv'
<1> DEFINE b == p.curr_ballot
           v == p.curr_value
<1>1. PICK reply : reply = AcceptedReply(acceptors[n], b)
  OBVIOUS
<1> DEFINE q == WithAccepted(p, n, reply)
           sent == {Accept(n, a, b, v) : a \in Others(n)}
<1>2. /\ Vote(n, b, v)
      /\ proposers' = [proposers EXCEPT ![n] = q]
      /\ net' = rest \cup sent
      /\ issued' = issued \cup {<<b, v>>}
      /\ chosen' = chosen
  BY <1>1 DEF BroadcastAccept
<1>3. TypeOK
  BY DEF IInv
<1>4. b \in Nat /\ \A c \in Node : proposers[c].curr_ballot \in Nat
  BY <1>3 DEF TypeOK, Proposers
<1>5. /\ acceptors' \in [Node -> Acceptors]
      /\ votes' \in [Node -> SUBSET (Nat \X Value)]
      /\ \A c \in Node :
           /\ acceptors'[c].max_proposed_ballot >= acceptors[c].max_proposed_ballot
           /\ votes[c] \subseteq votes'[c]
           /\ \A x \in votes'[c] :
                x \in votes[c] \/ x[1] >= acceptors[c].max_proposed_ballot
      /\ AcceptorsInv'
      /\ reply \in Replies
      /\ reply = "yes" => <<b, v>> \in votes'[n]
  BY <1>1, <1>2, <1>4, VoteActs
<1>6. /\ q \in Proposers
      /\ q.status = "PHASEII" /\ q.init_value = p.init_value
      /\ q.curr_ballot = b /\ q.curr_value = v
      /\ q.max_ballot = p.max_ballot /\ q.max_value = p.max_value
      /\ q.ack_prepare = p.ack_prepare
      /\ q.ack_accept = [p.ack_accept EXCEPT ![n] = reply]
  <2>1. reply \in Replies
    BY <1>5
  <2> QED
    BY <2>1, WithAcceptedOK
<1> HIDE DEF q
<1>7. proposers'[n] = q /\ \A c \in Node : c # n => proposers'[c] = proposers[c]
  BY <1>2, <1>3 DEF TypeOK
<1>8. \A m \in sent : /\ m \in Message /\ m.type = "ACCEPT"
                      /\ m.from = n /\ m.ballot = b /\ m.value = v
  BY <1>4 DEF Accept, Others, Message
<1> HIDE DEF sent
<1>9. TypeOK'
  BY <1>2, <1>3, <1>4, <1>5, <1>6, <1>8 DEF TypeOK
<1>10. Advance
  <2>1. \A c \in Node : proposers'[c].curr_ballot >= proposers[c].curr_ballot
    BY <1>4, <1>6, <1>7
  <2> QED
    BY <1>2, <1>5, <2>1 DEF Advance
<1>11. /\ \A x \in issued : SafeAt(x[1], x[2])'
       /\ \A m \in net : MessageOK(m)'
       /\ \A c \in Node : proposers'[c] = proposers[c] =>
            ProposerOK(c, proposers[c])' /\ AcksOK(c)'
       /\ \A c \in Node : chosen'[c] = chosen[c] /\ chosen[c] # Null =>
            IsChosen(chosen[c])'
  BY <1>9, <1>10, Frame
<1>12. \A x \in issued : x[1] # b
  BY <1>3, <1>4 DEF TypeOK
<1>13. OneValuePerBallot'
  BY <1>2, <1>12 DEF IInv, OneValuePerBallot
<1>14. ProposersInv'
  <2>1. ProposerOK(n, proposers[n])'
    BY <1>2, <1>6, <1>7 DEF ProposerOK, InPhaseIIOrLater
  <2> QED
    BY <1>7, <1>11, <2>1 DEF ProposersInv
<1>15. AcksInv'
  <2>1. ASSUME NEW a \in Node
        PROVE  PromiseOK(a, proposers[n].curr_ballot, proposers[n].ack_prepare[a])'
    <3>1. p.ack_prepare[a] \in Promises
      BY DEF Proposers
    <3>2. PromiseOK(a, b, p.ack_prepare[a])'
      BY <1>3, <1>4, <1>9, <1>10, <3>1, PromiseStable
    <3> QED
      BY <1>6, <1>7, <3>2 DEF PromiseOK
  <2>2. p.ack_accept \in [Node -> Replies \cup {"none"}]
    BY DEF Proposers
  <2>3. \A a \in Node : q.ack_accept[a] = "yes" => <<b, v>> \in votes'[a]
    BY <1>5, <1>6, <2>2
  <2>4. AcksOK(n)'
    BY <1>6, <1>7, <2>1, <2>3 DEF AcksOK
  <2> QED
    BY <1>7, <1>11, <2>4 DEF AcksInv
<1>16. IssuedInv'
  <2>1. IssuedOK(b, v)'
    BY <1>4, <1>6, <1>7 DEF IssuedOK, IsBallot, InPhaseIIOrLater
  <2>2. ASSUME NEW x \in issued PROVE IssuedOK(x[1], x[2])'
    <3>1. IssuedOK(x[1], x[2]) /\ Owner(x[1]) \in Node /\ x[1] \in Nat
      BY <1>3, OwnersAreNodes DEF IInv, IssuedInv, TypeOK
    <3>2. CASE Owner(x[1]) = n
      <4>1. x[1] < b
        BY <3>2
      <4> QED
        BY <1>4, <1>6, <1>7, <3>1, <3>2, <4>1 DEF IssuedOK, IsBallot
    <3>3. CASE Owner(x[1]) # n
      BY <1>7, <3>1, <3>3 DEF IssuedOK, IsBallot
    <3> QED
      BY <3>2, <3>3
  <2> QED
    BY <1>2, <2>1, <2>2 DEF IssuedInv
<1>17. SafeInv'
  <2>1. SafeAt(b, v)'
    BY <1>3, <1>4, <1>9, <1>10, SafeStable
  <2> QED
    BY <1>2, <1>11, <2>1 DEF SafeInv
<1>18. MessagesInv'
  <2>1. \A m \in sent : MessageOK(m)'
    BY <1>2, <1>4, <1>6, <1>7, <1>8 DEF MessageOK
  <2>2. \A m \in rest : MessageOK(m)'
    <3>1. \A w : IsChosen(w) => IsChosen(w)'
      BY <1>10, ChosenStable
    <3>2. ASSUME NEW m \in rest, m.type = "LAST", IsChosen(m.value)
          PROVE  MessageOK(m)'
      BY <3>1, <3>2 DEF MessageOK
    <3> QED
      BY <1>11, <3>2
  <2> QED
    BY <1>2, <2>1, <2>2 DEF MessagesInv
<1>19. ChosenInv'
  BY <1>2, <1>11 DEF ChosenInv
<1> QED
  BY <1>5, <1>9, <1>13, <1>14, <1>15, <1>16, <1>17, <1>18, <1>19 DEF IInv

-----------------------------------------------------------------------------
(* Why a value asked for is safe *)

(* Phase I may be skipped by the node with the least id: no ballot of any  *)
(* proposer of the slot lies below its first one.                          *)
LEMMA FirstBallotIsSafe ==
  ASSUME NEW f \in Fast, NEW v \in Value
  PROVE  SafeAt(NodeIdSpan + f, v)
<1>1. f \in Nat /\ f < NodeIdSpan
  BY ParticipantAssumption, NodeNat DEF ParticipantAssumption
<1> DEFINE b == NodeIdSpan + f
<1>2. b \in Nat /\ b \div NodeIdSpan \in Int
  BY <1>1 DEF NodeIdSpan
<1>3. ASSUME NEW k \in 1 .. (b \div NodeIdSpan), NEW n \in Participant
      PROVE  ~ (BallotOf(k, n) < b)
  <2>1. n \in Nat /\ f =< n
    BY ParticipantAssumption, NodeNat, LeastIdOpens
       DEF ParticipantAssumption, Participant, LeastIdOpens
  <2>2. k \in Int /\ k >= 1
    BY <1>2
  <2> QED
    BY <1>1, <2>1, <2>2 DEF BallotOf, NodeIdSpan
<1> QED
  BY <1>3 DEF SafeAt

(* With promises of a quorum, the value of the highest accepted ballot     *)
(* reported, or any value if none was reported, is safe.                   *)
LEMMA PromisedValueIsSafe ==
  ASSUME IInv, NEW p \in Proposers, NEW w \in Value,
         PromisedByQuorum(p),
         \A a \in Node : PromiseOK(a, p.curr_ballot, p.ack_prepare[a]),
         \A a \in Promised(p, "yes") : p.ack_prepare[a].max_ballot =< p.max_ballot,
         \/ p.max_ballot = 0 /\ p.max_value = Null
         \/ p.max_ballot < p.curr_ballot /\ <<p.max_ballot, p.max_value>> \in issued
  PROVE  SafeAt(p.curr_ballot, IF p.max_value # Null THEN p.max_value ELSE w)
<1> DEFINE b == p.curr_ballot
           v == IF p.max_value # Null THEN p.max_value ELSE w
           Q == Promised(p, "yes")
<1>1. Q \in Quorum
  BY DEF PromisedByQuorum, Promised, Quorum
<1>2. Q \subseteq Node
  BY DEF Promised
<1>3. b \in Nat /\ p.max_ballot \in Nat
  BY DEF Proposers
<1>4. \A a \in Q : /\ acceptors[a].max_proposed_ballot >= b
                   /\ \A x \in votes[a] : x[1] < b => x[1] =< p.ack_prepare[a].max_ballot
  BY <1>2 DEF Promised, PromiseOK
<1>5. \A a \in Node : /\ acceptors[a].max_proposed_ballot \in Nat
                      /\ p.ack_prepare[a].max_ballot \in Nat
                      /\ votes[a] \subseteq issued
                      /\ \A x \in votes[a] : x = <<x[1], x[2]>> /\ x[1] \in Nat
  <2> TAKE a \in Node
  <2>1. acceptors[a].max_proposed_ballot \in Nat
    BY DEF IInv, TypeOK, Acceptors
  <2>2. p.ack_prepare[a].max_ballot \in Nat
    BY DEF Proposers, Promises
  <2>3. votes[a] \subseteq issued
    BY DEF IInv, AcceptorsInv, AcceptorOK
  <2>4. votes[a] \in SUBSET (Nat \X Value)
    BY DEF IInv, TypeOK
  <2>5. \A x \in Nat \X Value : x = <<x[1], x[2]>> /\ x[1] \in Nat
    OBVIOUS
  <2>6. \A x \in votes[a] : x = <<x[1], x[2]>> /\ x[1] \in Nat
    BY <2>4, <2>5
  <2> QED
    BY <2>1, <2>2, <2>3, <2>6
<1>6. \A a \in Q : p.ack_prepare[a].max_ballot =< p.max_ballot
  OBVIOUS
<1> HIDE DEF Q, b
<1> SUFFICES ASSUME NEW k \in 1 .. (b \div NodeIdSpan), NEW n \in Participant,
                    BallotOf(k, n) < b
             PROVE  \E R \in Quorum : \A a \in R :
                      <<BallotOf(k, n), v>> \in votes[a] \/ Skipped(a, BallotOf(k, n))
  BY DEF SafeAt, b
<1> DEFINE c == BallotOf(k, n)
<1>7. c \in Nat /\ IsBallot(c) /\ c # 0
  BY <1>3, BallotOfOK DEF IsBallot, NodeIdSpan
<1>8. CASE c > p.max_ballot
  <2> HIDE DEF c
  <2>1. ASSUME NEW a \in Q PROVE Skipped(a, c)
    <3>1. acceptors[a].max_proposed_ballot > c
      BY <1>2, <1>3, <1>4, <1>5, <1>7 DEF c
    <3>2. \A x \in votes[a] : x[1] # c
      BY <1>2, <1>3, <1>4, <1>5, <1>6, <1>7, <1>8 DEF c
    <3> QED
      BY <3>1, <3>2 DEF Skipped
  <2> QED
    BY <1>1, <2>1 DEF c
<1>9. CASE c =< p.max_ballot
  <2>1. /\ p.max_ballot < b
        /\ <<p.max_ballot, p.max_value>> \in issued
    BY <1>3, <1>7, <1>9 DEF b
  <2>2. p.max_value \in Value /\ v = p.max_value
    BY <2>1, NullAssumption DEF IInv, TypeOK, NullAssumption
  <2>3. CASE c = p.max_ballot
    <3>1. ASSUME NEW a \in Q PROVE <<c, v>> \in votes[a] \/ Skipped(a, c)
      <4>1. acceptors[a].max_proposed_ballot > c
        BY <1>2, <1>3, <1>4, <1>5, <1>7
      <4>2. ASSUME NEW x \in votes[a], x[1] = c PROVE x = <<c, v>>
        <5>1. x \in issued /\ x = <<x[1], x[2]>>
          BY <1>2, <1>5
        <5>2. x[2] = p.max_value
          BY <2>1, <2>3, <4>2, <5>1 DEF IInv, OneValuePerBallot
        <5> QED
          BY <2>2, <4>2, <5>1, <5>2
      <4> QED
        BY <4>1, <4>2 DEF Skipped
    <3> QED
      BY <1>1, <3>1
  <2>4. CASE c < p.max_ballot
    <3>1. SafeAt(p.max_ballot, p.max_value)
      BY <2>1 DEF IInv, SafeInv
    <3>2. PICK k2 \in 1 .. (p.max_ballot \div NodeIdSpan), n2 \in Participant :
            c = BallotOf(k2, n2)
      BY <1>3, <1>7, <2>4, BallotForm
    <3> HIDE DEF c
    <3> QED
      BY <2>2, <2>4, <3>1, <3>2 DEF SafeAt, c
  <2> QED
    BY <1>3, <1>7, <1>9, <2>3, <2>4
<1> QED
  BY <1>3, <1>7, <1>8, <1>9

-----------------------------------------------------------------------------
(* The actions, one lemma each *)

(* What a node tells of the slot are messages with a chosen value. *)
LEMMA TellsOK ==
  ASSUME IInv, NEW n \in Node, NEW v \in Value, Tells(n)
  PROVE  /\ announced' \subseteq Node
         /\ Lasts(n, v) \subseteq Message
         /\ \A m \in Lasts(n, v) : m.type = "LAST" /\ m.value = v
BY DEF IInv, TypeOK, Tells, Lasts, Last, Others, Message

(* Opening the slot in Phase II: no ballot lies below this one. *)
LEMMA CommitPreserves ==
  ASSUME IInv, NEW n \in Node, NEW v \in Value, Commit(n, v)
  PROVE  IInv'
<1> DEFINE p == OpenedInPhaseII(v, n)
<1>1. n \in Fast /\ proposers[n].status = "EMPTY"
  BY DEF Commit
<1>0. PICK rest \in SUBSET Message :
        /\ \A m \in rest : m \in net \/ (m.type = "LAST" /\ IsChosen(m.value))
        /\ announced' \subseteq Node
        /\ BroadcastAccept(n, p, rest)
  <2>1. TypeOK
    BY DEF IInv
  <2>2. CASE BroadcastAccept(n, p, net) /\ UNCHANGED announced
    BY <2>1, <2>2 DEF TypeOK
  <2>3. CASE /\ chosen[n] # Null /\ Tells(n)
             /\ BroadcastAccept(n, p, net \cup Lasts(n, chosen[n]))
    <3>1. /\ announced' \subseteq Node
          /\ Lasts(n, chosen[n]) \subseteq Message
          /\ \A m \in Lasts(n, chosen[n]) :
               m.type = "LAST" /\ IsChosen(m.value)
      BY <2>3, TellsOK DEF IInv, ChosenInv, TypeOK
    <3>2. net \cup Lasts(n, chosen[n]) \in SUBSET Message
      BY <2>1, <3>1 DEF TypeOK
    <3> QED
      BY <2>3, <3>1, <3>2
  <2> QED
    BY <2>2, <2>3 DEF Commit
<1>2. n \in Participant
  BY <1>1 DEF Participant
<1>3. /\ p \in Proposers /\ p.status = "PHASEII"
      /\ p.init_value = v /\ p.curr_value = v
      /\ p.curr_ballot = NodeIdSpan + n
      /\ p.max_ballot = 0 /\ p.max_value = Null
      /\ p.ack_prepare = [a \in Node |-> NoPromise]
      /\ p.ack_accept = [a \in Node |-> "none"]
  BY OpenedInPhaseIIOK
<1> HIDE DEF p
<1>4. n \in Nat /\ n < NodeIdSpan
  BY NodeNat
<1>5. proposers[n].curr_ballot = 0
  <2>1. proposers[n] = NewProposer(Null)
    BY <1>1 DEF IInv, ProposersInv, ProposerOK
  <2> QED
    BY <2>1, NewProposerOK
<1>6. /\ p.curr_ballot >= proposers[n].curr_ballot
      /\ p.curr_ballot >= NodeIdSpan
      /\ Owner(p.curr_ballot) = n
  BY <1>3, <1>4, <1>5 DEF Owner, NodeIdSpan
<1>7. ASSUME NEW x \in issued, Owner(x[1]) = n PROVE x[1] < p.curr_ballot
  <2>1. IssuedOK(x[1], x[2])
    BY DEF IInv, IssuedInv
  <2>2. x[1] =< 0 /\ x[1] >= NodeIdSpan /\ x[1] \in Nat
    BY <1>5, <1>7, <2>1 DEF IssuedOK, IsBallot
  <2> QED
    BY <2>2 DEF NodeIdSpan
<1>8. SafeAt(p.curr_ballot, p.curr_value)
  BY <1>1, <1>3, FirstBallotIsSafe
<1>9. /\ \A a \in Node : PromiseOK(a, p.curr_ballot, p.ack_prepare[a])
      /\ \A a \in Node : p.ack_accept[a] # "yes"
  BY <1>3, NoAcks DEF PromiseOK
<1> QED
  BY <1>0, <1>2, <1>3, <1>6, <1>7, <1>8, <1>9, BroadcastAcceptActs

(* Opening the slot in Phase I. *)
LEMMA RecommitPreserves ==
  ASSUME IInv, NEW n \in Node, NEW v \in Value, Recommit(n, v)
  PROVE  IInv'
<1> DEFINE p == Restarted(NewProposer(v), n)
<1>1. n \in Slow /\ proposers[n].status = "EMPTY" /\ BroadcastPrepare(n, p, net)
  BY DEF Recommit
<1>2. n \in Participant
  BY <1>1 DEF Participant
<1>3. /\ NewProposer(v) \in Proposers
      /\ NewProposer(v).curr_ballot = 0 /\ NewProposer(v).init_value = v
      /\ NewProposer(v).max_ballot = 0 /\ NewProposer(v).max_value = Null
  BY NewProposerOK
<1>4. /\ p \in Proposers /\ p.status = "PHASEI"
      /\ p.init_value = v /\ p.curr_value = Null
      /\ p.curr_ballot = NextBallot(0, n)
      /\ p.max_ballot = 0 /\ p.max_value = Null
      /\ p.ack_prepare = [a \in Node |-> NoPromise]
      /\ p.ack_accept = [a \in Node |-> "none"]
  BY <1>3, RestartedOK
<1> HIDE DEF p
<1>5. proposers[n].curr_ballot = 0
  <2>1. proposers[n] = NewProposer(Null)
    BY <1>1 DEF IInv, ProposersInv, ProposerOK
  <2> QED
    BY <2>1, NewProposerOK
<1>6. /\ p.curr_ballot > proposers[n].curr_ballot
      /\ p.curr_ballot >= NodeIdSpan
      /\ Owner(p.curr_ballot) = n
  BY <1>4, <1>5, NextBallotOK
<1> QED
  BY <1>1, <1>2, <1>4, <1>6, BroadcastPrepareActs

(* The restart of either phase: p is the proposer that gives up. *)
LEMMA RestartPreserves ==
  ASSUME IInv, NEW m \in net, NEW p \in Proposers, m.to \in Node,
         Restart(m, p),
         proposers[m.to].status # "EMPTY",
         p.init_value = proposers[m.to].init_value,
         p.curr_ballot = proposers[m.to].curr_ballot,
         \/ p.max_ballot = 0 /\ p.max_value = Null
         \/ p.max_ballot < p.curr_ballot /\ <<p.max_ballot, p.max_value>> \in issued
  PROVE  IInv'
<1> DEFINE n == m.to
           q == Restarted(p, n)
<1>1. BroadcastPrepare(n, q, net \ {m})
  BY DEF Restart
<1>2. n \in Participant /\ Owner(p.curr_ballot) = n /\ p.init_value \in Value
  BY DEF IInv, ProposersInv, ProposerOK
<1>3. /\ q \in Proposers /\ q.status = "PHASEI"
      /\ q.init_value = p.init_value /\ q.curr_value = Null
      /\ q.curr_ballot = NextBallot(p.curr_ballot, n)
      /\ q.max_ballot = p.max_ballot /\ q.max_value = p.max_value
      /\ q.ack_prepare = [a \in Node |-> NoPromise]
      /\ q.ack_accept = [a \in Node |-> "none"]
  BY RestartedOK
<1>4. p.curr_ballot \in Nat /\ p.max_ballot \in Nat
  BY DEF Proposers
<1>5. /\ q.curr_ballot \in Nat
      /\ q.curr_ballot > p.curr_ballot
      /\ q.curr_ballot >= NodeIdSpan
      /\ Owner(q.curr_ballot) = n
  BY <1>2, <1>3, <1>4, NextBallotOK
<1>6. \/ q.max_ballot = 0 /\ q.max_value = Null
      \/ q.max_ballot < q.curr_ballot /\ <<q.max_ballot, q.max_value>> \in issued
  BY <1>3, <1>4, <1>5
<1> HIDE DEF q, n
<1>7. n \in Node /\ q.curr_ballot > proposers[n].curr_ballot
  BY <1>5 DEF n
<1>8. net \ {m} \subseteq net /\ q.init_value \in Value
  BY <1>2, <1>3
<1> QED
  BY <1>1, <1>2, <1>3, <1>5, <1>6, <1>7, <1>8, BroadcastPrepareActs

(* An acceptor answers PREPARE. *)
LEMMA HandlePreparePreserves ==
  ASSUME IInv, NEW m \in net, HandlePrepare(m)
  PROVE  IInv'
<1> DEFINE a == m.to
           n == m.from
           b == m.ballot
<1>1. TypeOK /\ m \in Message /\ m.type = "PREPARE"
  BY DEF IInv, TypeOK, HandlePrepare
<1>2. a \in Node /\ n \in Node /\ b \in Nat
  BY <1>1 DEF Message
<1>3. PICK ack : ack = PromiseOf(acceptors[a], b)
  OBVIOUS
<1> DEFINE reply == Promise(a, n, b, ack)
<1>4. /\ acceptors' = [acceptors EXCEPT ![a] = AfterPrepare(acceptors[a], b)]
      /\ net' = (net \ {m}) \cup {reply}
      /\ proposers' = proposers /\ chosen' = chosen /\ announced' = announced
      /\ votes' = votes /\ issued' = issued
  BY <1>3 DEF HandlePrepare
<1> HIDE DEF a, n, b
<1>5. /\ acceptors' \in [Node -> Acceptors]
      /\ \A c \in Node :
           acceptors'[c].max_proposed_ballot >= acceptors[c].max_proposed_ballot
      /\ AcceptorsInv'
      /\ ack \in Promises
      /\ PromiseOK(a, b, ack)'
  BY <1>2, <1>3, <1>4, PrepareActs
<1>6. /\ reply \in Message /\ reply.type = "PROMISE"
      /\ reply.from = a /\ reply.to = n /\ reply.ballot = b /\ reply.ack = ack
  BY <1>2, <1>5 DEF Promise, Message
<1> HIDE DEF reply
<1>7. TypeOK'
  BY <1>1, <1>4, <1>5, <1>6 DEF TypeOK
<1>8. \A c \in Node : proposers[c].curr_ballot \in Nat
  BY <1>1 DEF TypeOK, Proposers
<1>9. Advance
  BY <1>4, <1>5, <1>8 DEF Advance
<1>10. /\ \A x \in issued : SafeAt(x[1], x[2])'
       /\ \A l \in net : MessageOK(l)'
       /\ \A c \in Node : ProposerOK(c, proposers[c])' /\ AcksOK(c)'
       /\ \A c \in Node : chosen[c] # Null => IsChosen(chosen[c])'
  BY <1>4, <1>7, <1>9, Frame
<1>11. MessageOK(reply)'
  <2>1. b =< proposers[n].curr_ballot
    BY <1>1 DEF IInv, MessagesInv, MessageOK, b, n
  <2> QED
    BY <1>4, <1>5, <1>6, <2>1 DEF MessageOK, PromiseOK
<1>12. OneValuePerBallot' /\ IssuedInv'
  BY <1>4 DEF IInv, OneValuePerBallot, IssuedInv, IssuedOK, IsBallot, InPhaseIIOrLater
<1>13. ProposersInv' /\ AcksInv' /\ SafeInv' /\ MessagesInv' /\ ChosenInv'
  BY <1>4, <1>10, <1>11 DEF ProposersInv, AcksInv, SafeInv, MessagesInv, ChosenInv
<1> QED
  BY <1>5, <1>7, <1>12, <1>13 DEF IInv

(* An acceptor votes, its captain answers or not, and may learn a value. *)
LEMMA VotePreserves ==
  ASSUME IInv, NEW m \in net, m.type = "ACCEPT",
         Vote(m.to, m.ballot, m.value),
         net' \subseteq net \cup {Accepted(m.to, m.from, m.ballot,
                                 AcceptedReply(acceptors[m.to], m.ballot))},
         chosen' \in [Node -> Value \cup {Null}],
         \A c \in Node : chosen'[c] # Null => IsChosen(chosen'[c]),
         UNCHANGED <<proposers, announced, issued>>
  PROVE  IInv'
<1> DEFINE a == m.to
           n == m.from
           b == m.ballot
           v == m.value
<1>1. TypeOK /\ m \in Message /\ m.type = "ACCEPT"
  BY DEF IInv, TypeOK
<1>2. a \in Node /\ n \in Node /\ b \in Nat /\ v \in Value
  BY <1>1 DEF Message
<1>3. PICK r : r = AcceptedReply(acceptors[a], b)
  OBVIOUS
<1> DEFINE reply == Accepted(a, n, b, r)
<1>4. /\ Vote(a, b, v)
      /\ net' \subseteq net \cup {reply}
      /\ proposers' = proposers /\ announced' = announced /\ issued' = issued
  BY <1>3
<1>5. <<b, v>> \in issued /\ b =< proposers[n].curr_ballot
  BY <1>1 DEF IInv, MessagesInv, MessageOK
<1> HIDE DEF a, n, b, v
<1>6. /\ acceptors' \in [Node -> Acceptors]
      /\ votes' \in [Node -> SUBSET (Nat \X Value)]
      /\ \A c \in Node :
           /\ acceptors'[c].max_proposed_ballot >= acceptors[c].max_proposed_ballot
           /\ votes[c] \subseteq votes'[c]
           /\ \A x \in votes'[c] :
                x \in votes[c] \/ x[1] >= acceptors[c].max_proposed_ballot
      /\ AcceptorsInv'
      /\ r \in Replies
      /\ r = "yes" => <<b, v>> \in votes'[a]
  BY <1>2, <1>3, <1>4, <1>5, VoteActs
<1>7. /\ reply \in Message /\ reply.type = "ACCEPTED"
      /\ reply.from = a /\ reply.to = n /\ reply.ballot = b /\ reply.reply = r
  BY <1>2, <1>6 DEF Accepted, Message
<1> HIDE DEF reply
<1>8. TypeOK'
  BY <1>1, <1>4, <1>6, <1>7 DEF TypeOK
<1>9. \A c \in Node : proposers[c].curr_ballot \in Nat
  BY <1>1 DEF TypeOK, Proposers
<1>10. Advance
  BY <1>4, <1>6, <1>9 DEF Advance
<1>11. /\ \A x \in issued : SafeAt(x[1], x[2])'
       /\ \A l \in net : MessageOK(l)'
       /\ \A c \in Node : ProposerOK(c, proposers[c])' /\ AcksOK(c)'
  BY <1>4, <1>8, <1>10, Frame
<1>12. MessageOK(reply)'
  BY <1>4, <1>5, <1>6, <1>7 DEF MessageOK
<1>13. OneValuePerBallot' /\ IssuedInv'
  BY <1>4 DEF IInv, OneValuePerBallot, IssuedInv, IssuedOK, IsBallot, InPhaseIIOrLater
<1>14. ProposersInv' /\ AcksInv' /\ SafeInv' /\ MessagesInv'
  BY <1>4, <1>11, <1>12 DEF ProposersInv, AcksInv, SafeInv, MessagesInv
<1>15. ChosenInv'
  <2>1. \A w : IsChosen(w) => IsChosen(w)'
    BY <1>10, ChosenStable
  <2> QED
    BY <2>1 DEF ChosenInv, IsChosen, ChosenAt, VotedFor, Quorum, QuorumSize
<1> QED
  BY <1>6, <1>8, <1>13, <1>14, <1>15 DEF IInv

(* An acceptor answers ACCEPT. *)
LEMMA HandleAcceptPreserves ==
  ASSUME IInv, NEW m \in net, HandleAccept(m)
  PROVE  IInv'
<1>1. /\ m.type = "ACCEPT" /\ Vote(m.to, m.ballot, m.value)
      /\ net' \subseteq net \cup {Accepted(m.to, m.from, m.ballot,
                              AcceptedReply(acceptors[m.to], m.ballot))}
      /\ chosen' = chosen /\ UNCHANGED <<proposers, announced, issued>>
  BY DEF HandleAccept
<1>2. /\ chosen' \in [Node -> Value \cup {Null}]
      /\ \A c \in Node : chosen'[c] # Null => IsChosen(chosen'[c])
  BY <1>1 DEF IInv, TypeOK, ChosenInv
<1> QED
  BY <1>1, <1>2, VotePreserves

(* A step on which only the network, what is chosen, and who has told it   *)
(* change.                                                                 *)
LEMMA QuietStepPreserves ==
  ASSUME IInv, UNCHANGED <<acceptors, proposers, votes, issued>>,
         chosen' \in [Node -> Value \cup {Null}], announced' \subseteq Node,
         \A n \in Node : chosen'[n] # Null => IsChosen(chosen'[n]),
         net' \subseteq Message,
         \A m \in net' : m \in net \/ (m.type = "LAST" /\ IsChosen(m.value))
  PROVE  IInv'
<1>1. TypeOK' /\ TypeOK
  BY DEF IInv, TypeOK
<1>2. Advance
  BY <1>1 DEF Advance, TypeOK, Acceptors, Proposers
<1>3. /\ \A x \in issued : SafeAt(x[1], x[2])'
      /\ \A m \in net : MessageOK(m)'
      /\ \A n \in Node : ProposerOK(n, proposers[n])' /\ AcksOK(n)'
  BY <1>1, <1>2, Frame
<1>4. \A v : IsChosen(v) => IsChosen(v)'
  BY <1>2, ChosenStable
<1>5. MessagesInv'
  BY <1>3, <1>4 DEF MessagesInv, MessageOK
<1>6. ChosenInv'
  BY <1>4 DEF ChosenInv, IsChosen, ChosenAt, VotedFor, Quorum, QuorumSize
<1>7. OneValuePerBallot' /\ IssuedInv' /\ AcceptorsInv'
  BY DEF IInv, OneValuePerBallot, IssuedInv, IssuedOK, IsBallot, InPhaseIIOrLater,
         AcceptorsInv, AcceptorOK
<1> QED
  BY <1>1, <1>3, <1>5, <1>6, <1>7 DEF IInv, ProposersInv, AcksInv, SafeInv

(* A dropped answer changes nothing. *)
LEMMA DiscardPreserves ==
  ASSUME IInv, NEW m \in net, Discard(m)
  PROVE  IInv'
<1>1. /\ net' \subseteq net /\ net' \subseteq Message
      /\ chosen' = chosen /\ announced' = announced
      /\ UNCHANGED <<acceptors, proposers, votes, issued>>
  BY DEF Discard, IInv, TypeOK
<1>2. \A n \in Node : chosen'[n] # Null => IsChosen(chosen'[n])
  BY <1>1 DEF IInv, ChosenInv
<1>3. chosen' \in [Node -> Value \cup {Null}] /\ announced' \subseteq Node
  BY <1>1 DEF IInv, TypeOK
<1> QED
  BY <1>1, <1>2, <1>3, QuietStepPreserves

(* A piggybacked last_slot carries a chosen value. *)
LEMMA AnnouncePreserves ==
  ASSUME IInv, NEW n \in Node, Announce(n)
  PROVE  IInv'
<1> DEFINE sent == Lasts(n, chosen[n])
<1>1. /\ net' = net \cup sent
      /\ chosen' = chosen /\ Tells(n) /\ chosen[n] # Null
      /\ UNCHANGED <<acceptors, proposers, votes, issued>>
  BY DEF Announce
<1>2. TypeOK /\ chosen[n] \in Value /\ IsChosen(chosen[n])
  BY <1>1 DEF IInv, TypeOK, ChosenInv
<1>3. /\ \A m \in sent : m \in Message /\ m.type = "LAST" /\ m.value = chosen[n]
      /\ announced' \subseteq Node
  BY <1>1, <1>2, TellsOK
<1> HIDE DEF sent
<1>4. \A m \in net' : m \in net \/ (m.type = "LAST" /\ IsChosen(m.value))
  BY <1>1, <1>2, <1>3
<1>5. \A c \in Node : chosen'[c] # Null => IsChosen(chosen'[c])
  BY <1>1 DEF IInv, ChosenInv
<1>6. /\ chosen' \in [Node -> Value \cup {Null}] /\ announced' \subseteq Node
      /\ net' \subseteq Message
  BY <1>1, <1>2, <1>3 DEF TypeOK
<1> QED
  BY <1>1, <1>4, <1>5, <1>6, QuietStepPreserves

(* add_chosen_value with a chosen value keeps the logs right. *)
LEMMA AddChosenValueOK ==
  ASSUME IInv, NEW n \in Node, NEW v \in Value, IsChosen(v), AddChosenValue(n, v)
  PROVE  /\ chosen' \in [Node -> Value \cup {Null}]
         /\ \A c \in Node : chosen'[c] # Null => IsChosen(chosen'[c])
<1>1. chosen \in [Node -> Value \cup {Null}]
  BY DEF IInv, TypeOK
<1>2. \A c \in Node : chosen[c] # Null => IsChosen(chosen[c])
  BY DEF IInv, ChosenInv
<1>3. chosen' = chosen \/ chosen' = [chosen EXCEPT ![n] = v]
  BY DEF AddChosenValue
<1>4. \A c \in Node : chosen'[c] = chosen[c] \/ chosen'[c] = v
  BY <1>1, <1>3
<1> QED
  BY <1>1, <1>2, <1>3, <1>4

(* A piggybacked last_slot with a value that the acceptor holds, or not *)
LEMMA LearnOK ==
  ASSUME IInv, NEW m \in net, m.type = "LAST",
         AddChosenValue(m.to, m.value) \/ chosen' = chosen
  PROVE  /\ chosen' \in [Node -> Value \cup {Null}]
         /\ \A c \in Node : chosen'[c] # Null => IsChosen(chosen'[c])
<1>1. TypeOK /\ m \in Message
  BY DEF IInv, TypeOK
<1>2. m.to \in Node /\ m.value \in Value
  BY <1>1 DEF Message
<1>3. IsChosen(m.value)
  BY DEF IInv, MessagesInv, MessageOK
<1>4. CASE AddChosenValue(m.to, m.value)
  BY <1>2, <1>3, <1>4, AddChosenValueOK
<1>5. CASE chosen' = chosen
  BY <1>1, <1>5 DEF TypeOK, IInv, ChosenInv
<1> QED
  BY <1>4, <1>5

(* A vote, and a piggybacked last_slot that tells the same slot. *)
LEMMA HandleAcceptAndLastPreserves ==
  ASSUME IInv, NEW m \in net, NEW l \in net, HandleAcceptAndLast(m, l)
  PROVE  IInv'
<1>1. /\ m.type = "ACCEPT" /\ Vote(m.to, m.ballot, m.value)
      /\ net' \subseteq net \cup {Accepted(m.to, m.from, m.ballot,
                              AcceptedReply(acceptors[m.to], m.ballot))}
      /\ UNCHANGED <<proposers, announced, issued>>
      /\ l.type = "LAST" /\ l.to = m.to
      /\ AddChosenValue(l.to, l.value) \/ chosen' = chosen
  BY DEF HandleAcceptAndLast
<1>2. /\ chosen' \in [Node -> Value \cup {Null}]
      /\ \A c \in Node : chosen'[c] # Null => IsChosen(chosen'[c])
  BY <1>1, LearnOK
<1> QED
  BY <1>1, <1>2, VotePreserves

(* A follower learns from a piggybacked last_slot. *)
LEMMA HandleLastPreserves ==
  ASSUME IInv, NEW m \in net, HandleLast(m)
  PROVE  IInv'
<1>1. /\ m.type = "LAST" /\ announced' = announced
      /\ net' \subseteq net
      /\ UNCHANGED <<acceptors, proposers, votes, issued>>
      /\ AddChosenValue(m.to, m.value) \/ chosen' = chosen
  BY DEF HandleLast
<1>2. /\ chosen' \in [Node -> Value \cup {Null}]
      /\ \A c \in Node : chosen'[c] # Null => IsChosen(chosen'[c])
  BY <1>1, LearnOK
<1>3. announced' \subseteq Node /\ net' \subseteq Message
  BY <1>1 DEF IInv, TypeOK
<1> QED
  BY <1>1, <1>2, <1>3, QuietStepPreserves

(* A proposer takes note of an answer, or finishes. *)
LEMMA RecordPreserves ==
  ASSUME IInv, NEW n \in Node, NEW p \in Proposers,
         proposers' = [proposers EXCEPT ![n] = p],
         net' \subseteq Message, announced' \subseteq Node,
         \A m \in net' : m \in net \/ (m.type = "LAST" /\ IsChosen(m.value)),
         UNCHANGED <<acceptors, votes, issued>>,
         chosen' \in [Node -> Value \cup {Null}],
         \A c \in Node : chosen'[c] # Null => IsChosen(chosen'[c]),
         ProposerOK(n, p),
         p.curr_ballot = proposers[n].curr_ballot,
         p.curr_value = proposers[n].curr_value,
         InPhaseIIOrLater(proposers[n]) => InPhaseIIOrLater(p),
         \A a \in Node : PromiseOK(a, p.curr_ballot, p.ack_prepare[a]),
         \A a \in Node : p.ack_accept[a] = "yes" =>
                           <<p.curr_ballot, p.curr_value>> \in votes[a]
  PROVE  IInv'
<1>1. TypeOK
  BY DEF IInv
<1>2. TypeOK'
  BY <1>1 DEF TypeOK
<1>3. proposers'[n] = p /\ \A c \in Node : c # n => proposers'[c] = proposers[c]
  BY <1>1 DEF TypeOK
<1>4. Advance
  BY <1>1, <1>3 DEF Advance, TypeOK, Acceptors, Proposers
<1>5. /\ \A x \in issued : SafeAt(x[1], x[2])'
      /\ \A m \in net : MessageOK(m)'
      /\ \A c \in Node : c # n => ProposerOK(c, proposers[c])' /\ AcksOK(c)'
  BY <1>2, <1>3, <1>4, Frame
<1>11. \A v : IsChosen(v) => IsChosen(v)'
  BY <1>4, ChosenStable
<1>12. MessagesInv'
  <2>1. ASSUME NEW m \in net', m.type = "LAST", IsChosen(m.value)
        PROVE  MessageOK(m)'
    BY <1>11, <2>1 DEF MessageOK
  <2> QED
    BY <1>5, <2>1 DEF MessagesInv
<1>6. ProposerOK(n, proposers[n])'
  BY <1>3 DEF ProposerOK, InPhaseIIOrLater
<1>7. AcksOK(n)'
  BY <1>3 DEF AcksOK, PromiseOK
<1>8. IssuedInv'
  <2>1. ASSUME NEW x \in issued PROVE IssuedOK(x[1], x[2])'
    <3>1. IssuedOK(x[1], x[2]) /\ Owner(x[1]) \in Node
      BY OwnersAreNodes DEF IInv, IssuedInv
    <3> QED
      BY <1>3, <3>1 DEF IssuedOK, IsBallot
  <2> QED
    BY <2>1 DEF IssuedInv
<1>9. ChosenInv'
  BY <1>11 DEF ChosenInv, IsChosen, ChosenAt, VotedFor, Quorum, QuorumSize
<1>10. OneValuePerBallot' /\ AcceptorsInv'
  BY DEF IInv, OneValuePerBallot, AcceptorsInv, AcceptorOK
<1> QED
  BY <1>2, <1>5, <1>6, <1>7, <1>8, <1>9, <1>10, <1>12
     DEF IInv, ProposersInv, AcksInv, SafeInv

(* A promise: recorded, a quorum reached, or a restart. *)
LEMMA HandlePromisePreserves ==
  ASSUME IInv, NEW m \in net, HandlePromise(m)
  PROVE  IInv'
<1> DEFINE n == m.to
           old == proposers[n]
           p == WithPromise(old, m.from, m.ack)
           q == MergePromises(p)
<1>1. TypeOK /\ m \in Message /\ m.type = "PROMISE"
  BY DEF IInv, TypeOK, HandlePromise, TakesPromise
<1>2. n \in Node /\ m.from \in Node /\ m.ballot \in Nat /\ m.ack \in Promises
  BY <1>1 DEF Message
<1>3. /\ old \in Proposers /\ old.curr_ballot \in Nat /\ old.max_ballot \in Nat
      /\ old.ack_prepare \in [Node -> Promises]
  BY <1>1, <1>2 DEF TypeOK, Proposers
<1>4. /\ old.status = "PHASEI" /\ old.curr_value = Null
      /\ ~ (m.ballot < old.curr_ballot)
  BY DEF HandlePromise, TakesPromise, DropsPromise
<1>5. m.ballot = old.curr_ballot /\ PromiseOK(m.from, old.curr_ballot, m.ack)
  <2>1. /\ m.ballot =< proposers[m.to].curr_ballot
        /\ PromiseOK(m.from, m.ballot, m.ack)
    BY <1>1 DEF IInv, MessagesInv, MessageOK
  <2>2. m.ballot = old.curr_ballot
    BY <1>2, <1>3, <1>4, <2>1
  <2> QED
    BY <2>1, <2>2 DEF PromiseOK
<1>6. /\ p \in Proposers /\ p.status = "PHASEI"
      /\ p.init_value = old.init_value
      /\ p.curr_ballot = old.curr_ballot /\ p.curr_value = Null
      /\ p.max_ballot = old.max_ballot /\ p.max_value = old.max_value
      /\ p.ack_prepare = [old.ack_prepare EXCEPT ![m.from] = m.ack]
      /\ p.ack_accept = old.ack_accept
  <2> HIDE DEF old
  <2> QED
    BY <1>2, <1>3, <1>4, WithPromiseOK
<1>7. /\ ProposerOK(n, old) /\ AcksOK(n)
      /\ n \in Participant /\ old.curr_ballot >= NodeIdSpan
      /\ Owner(old.curr_ballot) = n /\ old.init_value \in Value
      /\ \/ old.max_ballot = 0 /\ old.max_value = Null
         \/ /\ old.max_ballot < old.curr_ballot
            /\ <<old.max_ballot, old.max_value>> \in issued
  BY <1>2, <1>4 DEF IInv, ProposersInv, ProposerOK, AcksInv
<1>8. \A a \in Node : PromiseOK(a, p.curr_ballot, p.ack_prepare[a])
  <2> TAKE a \in Node
  <2>1. CASE a = m.from
    BY <1>3, <1>5, <1>6, <2>1 DEF PromiseOK
  <2>2. CASE a # m.from
    BY <1>3, <1>6, <1>7, <2>2 DEF AcksOK, PromiseOK
  <2> QED
    BY <2>1, <2>2
<1>9. \A a \in Node : old.ack_accept[a] # "yes"
  <2>1. \A a \in Node : <<old.curr_ballot, Null>> \notin votes[a]
    BY <1>1, NullAssumption DEF TypeOK, NullAssumption
  <2> QED
    BY <1>4, <1>7, <2>1 DEF AcksOK
<1>10. \A a \in Promised(p, "yes") :
         /\ a \in Node
         /\ p.ack_prepare[a].max_ballot \in Nat
         /\ p.ack_prepare[a].max_ballot < p.curr_ballot
         /\ \/ p.ack_prepare[a].max_ballot = 0
            \/ <<p.ack_prepare[a].max_ballot, p.ack_prepare[a].max_value>> \in issued
  <2> TAKE a \in Promised(p, "yes")
  <2>1. a \in Node /\ p.ack_prepare[a].reply = "yes"
    BY DEF Promised
  <2>2. p.ack_prepare[a] \in Promises
    BY <1>6, <2>1 DEF Proposers
  <2>3. votes[a] \subseteq issued
    BY <2>1 DEF IInv, AcceptorsInv, AcceptorOK
  <2> HIDE DEF p
  <2> QED
    BY <1>8, <2>1, <2>2, <2>3 DEF PromiseOK, Promises
<1> HIDE DEF old, p, n
<1>11. IsMergeOf(q, p)
  BY <1>6, MergePromisesOK
<1>12. \/ q.max_ballot = 0 /\ q.max_value = Null
       \/ q.max_ballot < q.curr_ballot /\ <<q.max_ballot, q.max_value>> \in issued
  <2> HIDE DEF q
  <2> QED
    BY <1>3, <1>6, <1>7, <1>10, <1>11 DEF IsMergeOf
<1>13. /\ q \in Proposers
       /\ q.status = p.status /\ q.init_value = p.init_value
       /\ q.curr_ballot = p.curr_ballot /\ q.curr_value = p.curr_value
       /\ q.ack_prepare = p.ack_prepare /\ q.ack_accept = p.ack_accept
       /\ \A a \in Promised(p, "yes") : p.ack_prepare[a].max_ballot =< q.max_ballot
  BY <1>11 DEF IsMergeOf
<1> HIDE DEF q
<1>14. CASE Record(m, p)
  <2>1. /\ proposers' = [proposers EXCEPT ![n] = p] /\ net' \subseteq net
        /\ net' \subseteq Message /\ announced' \subseteq Node
        /\ UNCHANGED <<acceptors, votes, issued>> /\ chosen' = chosen
    BY <1>1, <1>14 DEF Record, TypeOK, n
  <2>2. /\ chosen' \in [Node -> Value \cup {Null}]
        /\ \A c \in Node : chosen'[c] # Null => IsChosen(chosen'[c])
    BY <1>1, <2>1 DEF TypeOK, IInv, ChosenInv
  <2>3. ProposerOK(n, p)
    BY <1>6, <1>7 DEF ProposerOK, InPhaseIIOrLater
  <2>4. p.curr_ballot = proposers[n].curr_ballot /\ p.curr_value = proposers[n].curr_value
    BY <1>4, <1>6 DEF old
  <2>5. ~InPhaseIIOrLater(proposers[n])
    BY <1>4 DEF InPhaseIIOrLater, old
  <2>6. \A a \in Node : p.ack_accept[a] # "yes"
    BY <1>6, <1>9
  <2> QED
    BY <1>2, <1>6, <1>8, <2>1, <2>2, <2>3, <2>4, <2>5, <2>6, RecordPreserves
<1>15. CASE /\ PromisedByQuorum(p)
            /\ BroadcastAccept(n, InPhaseII(q), net \ {m})
            /\ UNCHANGED announced
  <2> DEFINE r == InPhaseII(q)
  <2>1. /\ r \in Proposers /\ r.status = "PHASEII"
        /\ r.init_value = old.init_value /\ r.curr_ballot = old.curr_ballot
        /\ r.curr_value = IF q.max_value # Null THEN q.max_value ELSE old.init_value
        /\ r.max_ballot = q.max_ballot /\ r.max_value = q.max_value
        /\ r.ack_prepare = p.ack_prepare /\ r.ack_accept = old.ack_accept
    BY <1>6, <1>13, InPhaseIIOK
  <2> HIDE DEF r
  <2>2. q.max_value \in Value \cup {Null}
    BY <1>13 DEF Proposers
  <2>3. r.curr_value \in Value /\ r.init_value \in Value
    BY <1>7, <2>1, <2>2
  <2>4. SafeAt(r.curr_ballot, r.curr_value)
    <3>1. Promised(q, "yes") = Promised(p, "yes")
      BY <1>13 DEF Promised
    <3>2. PromisedByQuorum(q)
      BY <1>15, <3>1 DEF PromisedByQuorum
    <3>3. \A a \in Node : PromiseOK(a, q.curr_ballot, q.ack_prepare[a])
      BY <1>8, <1>13
    <3>4. \A a \in Promised(q, "yes") : q.ack_prepare[a].max_ballot =< q.max_ballot
      BY <1>13, <3>1
    <3>5. SafeAt(q.curr_ballot, IF q.max_value # Null THEN q.max_value
                                                     ELSE old.init_value)
      BY <1>7, <1>13, <1>12, <3>2, <3>3, <3>4, PromisedValueIsSafe
    <3> QED
      BY <1>6, <1>13, <2>1, <3>5
  <2>5. \A x \in issued : Owner(x[1]) = n => x[1] < r.curr_ballot
    <3>1. ASSUME NEW x \in issued, Owner(x[1]) = n PROVE x[1] < r.curr_ballot
      <4>1. IssuedOK(x[1], x[2]) /\ x[1] \in Nat
        BY <1>1 DEF IInv, IssuedInv, TypeOK
      <4>2. x[1] =< old.curr_ballot /\ x[1] # old.curr_ballot
        BY <1>4, <3>1, <4>1 DEF IssuedOK, InPhaseIIOrLater, old
      <4> QED
        BY <1>3, <2>1, <4>1, <4>2
    <3> QED
      BY <3>1
  <2>6. /\ \A a \in Node : PromiseOK(a, r.curr_ballot, r.ack_prepare[a])
        /\ \A a \in Node : r.ack_accept[a] # "yes"
    BY <1>6, <1>8, <1>9, <2>1
  <2>7. /\ r.curr_ballot >= proposers[n].curr_ballot
        /\ r.curr_ballot >= NodeIdSpan /\ Owner(r.curr_ballot) = n
    BY <1>3, <1>7, <2>1 DEF old
  <2>8. \/ r.max_ballot = 0 /\ r.max_value = Null
        \/ r.max_ballot < r.curr_ballot /\ <<r.max_ballot, r.max_value>> \in issued
    BY <1>6, <1>13, <1>12, <2>1
  <2>9. /\ BroadcastAccept(n, r, net \ {m})
        /\ net \ {m} \subseteq net /\ net \ {m} \subseteq Message
        /\ announced' \subseteq Node
    BY <1>1, <1>15 DEF r, TypeOK
  <2> QED
    BY <1>2, <1>7, <2>1, <2>3, <2>4, <2>5, <2>6, <2>7, <2>8, <2>9, BroadcastAcceptActs
<1>16. CASE Restart(m, q)
  <2>1. /\ proposers[m.to].status # "EMPTY"
        /\ q.init_value = proposers[m.to].init_value
        /\ q.curr_ballot = proposers[m.to].curr_ballot
        /\ m.to \in Node
    BY <1>2, <1>4, <1>6, <1>13 DEF old, n
  <2> QED
    BY <1>13, <1>12, <1>16, <2>1, RestartPreserves
<1> QED
  BY <1>14, <1>15, <1>16 DEF HandlePromise, q, p, old, n

(* An answer to ACCEPT: recorded, a value chosen, or a restart. *)
LEMMA HandleAcceptedPreserves ==
  ASSUME IInv, NEW m \in net, HandleAccepted(m)
  PROVE  IInv'
<1> DEFINE n == m.to
           old == proposers[n]
           p == WithAccepted(old, m.from, m.reply)
<1>1. TypeOK /\ m \in Message /\ m.type = "ACCEPTED"
  BY DEF IInv, TypeOK, HandleAccepted, TakesAccepted
<1>2. n \in Node /\ m.from \in Node /\ m.ballot \in Nat /\ m.reply \in Replies
  BY <1>1 DEF Message
<1>3. /\ old \in Proposers /\ old.curr_ballot \in Nat
      /\ old.ack_accept \in [Node -> Replies \cup {"none"}]
  BY <1>1, <1>2 DEF TypeOK, Proposers
<1>4. old.status = "PHASEII" /\ ~ (m.ballot < old.curr_ballot)
  BY DEF HandleAccepted, TakesAccepted, DropsAccepted
<1>5. /\ ProposerOK(n, old) /\ AcksOK(n)
      /\ old.curr_value \in Value /\ <<old.curr_ballot, old.curr_value>> \in issued
      /\ \/ old.max_ballot = 0 /\ old.max_value = Null
         \/ /\ old.max_ballot < old.curr_ballot
            /\ <<old.max_ballot, old.max_value>> \in issued
  BY <1>2, <1>4 DEF IInv, ProposersInv, ProposerOK, InPhaseIIOrLater, AcksInv
<1>6. m.reply = "yes" => <<old.curr_ballot, old.curr_value>> \in votes[m.from]
  <2> SUFFICES ASSUME m.reply = "yes"
               PROVE  <<old.curr_ballot, old.curr_value>> \in votes[m.from]
    OBVIOUS
  <2>1. /\ m.ballot =< proposers[m.to].curr_ballot
        /\ \E x \in votes[m.from] : x[1] = m.ballot
    BY <1>1 DEF IInv, MessagesInv, MessageOK
  <2>2. m.ballot = old.curr_ballot
    BY <1>2, <1>3, <1>4, <2>1
  <2>3. PICK x \in votes[m.from] : x[1] = old.curr_ballot
    BY <2>1, <2>2
  <2>4. x \in issued
    BY <1>2 DEF IInv, AcceptorsInv, AcceptorOK
  <2>5. x[2] = old.curr_value
    BY <1>5, <2>3, <2>4 DEF IInv, OneValuePerBallot
  <2>6. x = <<x[1], x[2]>>
    BY <1>1, <2>4 DEF TypeOK
  <2> QED
    BY <2>3, <2>5, <2>6
<1>7. /\ p \in Proposers /\ p.status = "PHASEII"
      /\ p.init_value = old.init_value
      /\ p.curr_ballot = old.curr_ballot /\ p.curr_value = old.curr_value
      /\ p.max_ballot = old.max_ballot /\ p.max_value = old.max_value
      /\ p.ack_prepare = old.ack_prepare
      /\ p.ack_accept = [old.ack_accept EXCEPT ![m.from] = m.reply]
  <2> HIDE DEF old
  <2> QED
    BY <1>2, <1>3, <1>4, WithAcceptedOK
<1> HIDE DEF p
<1>8. \A a \in Node : PromiseOK(a, p.curr_ballot, p.ack_prepare[a])
  BY <1>5, <1>7 DEF AcksOK
<1>9. \A a \in Node : p.ack_accept[a] = "yes" =>
                      <<p.curr_ballot, p.curr_value>> \in votes[a]
  <2> TAKE a \in Node
  <2>1. CASE a = m.from
    BY <1>2, <1>3, <1>6, <1>7, <2>1
  <2>2. CASE a # m.from
    BY <1>2, <1>3, <1>5, <1>7, <2>2 DEF AcksOK
  <2> QED
    BY <2>1, <2>2
<1>10. /\ p.curr_ballot = proposers[n].curr_ballot
       /\ p.curr_value = proposers[n].curr_value
  BY <1>7
<1> HIDE DEF old, n
<1>11. CASE Record(m, p)
  <2>1. /\ proposers' = [proposers EXCEPT ![n] = p] /\ net' \subseteq net
        /\ net' \subseteq Message /\ announced' \subseteq Node
        /\ UNCHANGED <<acceptors, votes, issued>> /\ chosen' = chosen
    BY <1>1, <1>11 DEF Record, TypeOK, n
  <2>2. /\ chosen' \in [Node -> Value \cup {Null}]
        /\ \A c \in Node : chosen'[c] # Null => IsChosen(chosen'[c])
    BY <1>1, <2>1 DEF TypeOK, IInv, ChosenInv
  <2>3. ProposerOK(n, p) /\ InPhaseIIOrLater(p)
    BY <1>4, <1>5, <1>7 DEF ProposerOK, InPhaseIIOrLater
  <2> QED
    BY <1>2, <1>7, <1>8, <1>9, <1>10, <2>1, <2>2, <2>3, RecordPreserves
<1>12. CASE /\ AcceptedByQuorum(p)
            /\ AddChosenValue(m.to, p.curr_value)
            /\ proposers' = [proposers EXCEPT ![m.to] = Chosen(p)]
            /\ \/ net' = net \ {m} /\ UNCHANGED announced
               \/ /\ Tells(m.to)
                  /\ net' = (net \ {m}) \cup Lasts(m.to, chosen'[m.to])
            /\ UNCHANGED <<acceptors, votes, issued>>
  <2> DEFINE r == Chosen(p)
  <2>1. /\ r \in Proposers /\ r.status = "CHOSEN"
        /\ r.init_value = old.init_value
        /\ r.curr_ballot = p.curr_ballot /\ r.curr_value = p.curr_value
        /\ r.max_ballot = old.max_ballot /\ r.max_value = old.max_value
        /\ r.ack_prepare = p.ack_prepare /\ r.ack_accept = p.ack_accept
    BY <1>7, ChosenOK
  <2>2. /\ proposers' = [proposers EXCEPT ![n] = r]
        /\ UNCHANGED <<acceptors, votes, issued>>
    BY <1>12 DEF n
  <2> HIDE DEF r
  <2>3. p.curr_value \in Value /\ <<p.curr_ballot, p.curr_value>> \in issued
    BY <1>5, <1>7
  <2>4. IsChosen(p.curr_value)
    <3>1. AcceptedBy(p, "yes") \in Quorum
      BY <1>12 DEF AcceptedByQuorum, AcceptedBy, Quorum
    <3>2. AcceptedBy(p, "yes") \subseteq VotedFor(p.curr_ballot, p.curr_value)
      BY <1>9 DEF AcceptedBy, VotedFor
    <3>3. ChosenAt(p.curr_ballot, p.curr_value)
      BY <3>1, <3>2 DEF ChosenAt
    <3> QED
      BY <2>3, <3>3 DEF IsChosen
  <2>5. /\ chosen' \in [Node -> Value \cup {Null}]
        /\ \A c \in Node : chosen'[c] # Null => IsChosen(chosen'[c])
    BY <1>2, <1>12, <2>3, <2>4, AddChosenValueOK DEF n
  <2>6. ProposerOK(n, r) /\ InPhaseIIOrLater(r)
    BY <1>4, <1>5, <1>7, <2>1 DEF ProposerOK, InPhaseIIOrLater
  <2>7. /\ \A a \in Node : PromiseOK(a, r.curr_ballot, r.ack_prepare[a])
        /\ \A a \in Node : r.ack_accept[a] = "yes" =>
                           <<r.curr_ballot, r.curr_value>> \in votes[a]
        /\ r.curr_ballot = proposers[n].curr_ballot
        /\ r.curr_value = proposers[n].curr_value
    BY <1>8, <1>9, <1>10, <2>1
  <2>8. /\ net' \subseteq Message /\ announced' \subseteq Node
        /\ \A l \in net' : l \in net \/ (l.type = "LAST" /\ IsChosen(l.value))
    <3>1. CASE net' = net \ {m} /\ UNCHANGED announced
      BY <1>1, <3>1 DEF TypeOK
    <3>2. CASE /\ Tells(n)
               /\ net' = (net \ {m}) \cup Lasts(n, chosen'[n])
      <4>1. chosen'[n] \in Value /\ IsChosen(chosen'[n])
        <5>1. chosen \in [Node -> Value \cup {Null}] /\ Null \notin Value
          BY <1>1, NullAssumption DEF TypeOK, NullAssumption
        <5>2. chosen'[n] # Null
          BY <1>2, <1>12, <2>3, <5>1 DEF AddChosenValue, n
        <5> QED
          BY <1>2, <2>5, <5>2
      <4>2. PICK w : w = chosen'[n]
        OBVIOUS
      <4>3. w \in Value /\ IsChosen(w)
        BY <4>1, <4>2
      <4>4. /\ announced' \subseteq Node
            /\ Lasts(n, w) \subseteq Message
            /\ \A l \in Lasts(n, w) : l.type = "LAST" /\ l.value = w
        BY <1>2, <3>2, <4>3, TellsOK
      <4> QED
        BY <1>1, <3>2, <4>2, <4>3, <4>4 DEF TypeOK
    <3> QED
      BY <1>12, <3>1, <3>2 DEF n
  <2> QED
    BY <1>2, <2>1, <2>2, <2>5, <2>6, <2>7, <2>8, RecordPreserves
<1>13. CASE Restart(m, p)
  <2>1. /\ proposers[m.to].status # "EMPTY"
        /\ p.init_value = proposers[m.to].init_value
        /\ p.curr_ballot = proposers[m.to].curr_ballot
        /\ m.to \in Node
    BY <1>2, <1>4, <1>7 DEF old, n
  <2>2. \/ p.max_ballot = 0 /\ p.max_value = Null
        \/ p.max_ballot < p.curr_ballot /\ <<p.max_ballot, p.max_value>> \in issued
    BY <1>5, <1>7
  <2> QED
    BY <1>7, <1>13, <2>1, <2>2, RestartPreserves
<1> QED
  BY <1>11, <1>12, <1>13 DEF HandleAccepted, p, old, n

-----------------------------------------------------------------------------
(* The invariant *)

(* The initial state satisfies the invariant. *)
LEMMA InitIInv == Init => IInv
<1> SUFFICES ASSUME Init PROVE IInv
  OBVIOUS
<1>1. NewAcceptor \in Acceptors /\ NewProposer(Null) \in Proposers
  BY NewProposerOK DEF NewAcceptor, Acceptors
<1>2. TypeOK
  BY <1>1 DEF Init, TypeOK
<1>3. ProposersInv
  BY NewProposerOK DEF Init, ProposersInv, ProposerOK, InPhaseIIOrLater
<1>4. AcksInv
  <2>1. ASSUME NEW n \in Node, NEW a \in Node
        PROVE  /\ proposers[n].ack_prepare[a].reply = "none"
               /\ proposers[n].ack_accept[a] = "none"
    BY NewProposerOK, NoAcks DEF Init
  <2> QED
    BY <2>1 DEF AcksInv, AcksOK, PromiseOK
<1>5. AcceptorsInv
  BY DEF Init, AcceptorsInv, AcceptorOK, NewAcceptor
<1>6. OneValuePerBallot /\ IssuedInv /\ SafeInv /\ MessagesInv /\ ChosenInv
  BY DEF Init, OneValuePerBallot, IssuedInv, SafeInv, MessagesInv, ChosenInv
<1> QED
  BY <1>2, <1>3, <1>4, <1>5, <1>6 DEF IInv

(* Every step preserves the invariant: one step of the proof per action. *)
LEMMA NextIInv == IInv /\ [Next]_vars => IInv'
<1> SUFFICES ASSUME IInv, [Next]_vars PROVE IInv'
  OBVIOUS
<1>1. ASSUME NEW n \in Node, NEW v \in Value, Commit(n, v) PROVE IInv'
  BY <1>1, CommitPreserves
<1>2. ASSUME NEW n \in Node, NEW v \in Value, Recommit(n, v) PROVE IInv'
  BY <1>2, RecommitPreserves
<1>3. ASSUME NEW m \in net, HandlePrepare(m) PROVE IInv'
  BY <1>3, HandlePreparePreserves
<1>4. ASSUME NEW m \in net, DropPromise(m) \/ DropAccepted(m) PROVE IInv'
  BY <1>4, DiscardPreserves DEF DropPromise, DropAccepted
<1>5. ASSUME NEW m \in net, HandlePromise(m) PROVE IInv'
  BY <1>5, HandlePromisePreserves
<1>6. ASSUME NEW m \in net, HandleAccept(m) PROVE IInv'
  BY <1>6, HandleAcceptPreserves
<1>7. ASSUME NEW m \in net, HandleAccepted(m) PROVE IInv'
  BY <1>7, HandleAcceptedPreserves
<1>8. ASSUME NEW n \in Node, Announce(n) PROVE IInv'
  BY <1>8, AnnouncePreserves
<1>9. ASSUME NEW m \in net, HandleLast(m) PROVE IInv'
  BY <1>9, HandleLastPreserves
<1>11. ASSUME NEW m \in net, NEW l \in net, HandleAcceptAndLast(m, l) PROVE IInv'
  BY <1>11, HandleAcceptAndLastPreserves
<1>10. CASE UNCHANGED vars
  <2>1. /\ UNCHANGED <<acceptors, proposers, votes, issued>>
        /\ chosen' = chosen /\ announced' = announced /\ net' = net
    BY <1>10 DEF vars
  <2>2. /\ chosen' \in [Node -> Value \cup {Null}] /\ announced' \subseteq Node
        /\ net' \subseteq Message
    BY <2>1 DEF IInv, TypeOK
  <2>3. \A n \in Node : chosen'[n] # Null => IsChosen(chosen'[n])
    BY <2>1 DEF IInv, ChosenInv
  <2> QED
    BY <2>1, <2>2, <2>3, QuietStepPreserves
<1> QED
  BY <1>1, <1>2, <1>3, <1>4, <1>5, <1>6, <1>7, <1>8, <1>9, <1>10, <1>11 DEF Next

(* In every reachable state the promises, votes and requests of a slot fit *)
(* together as IInv says.                                                  *)
THEOREM Invariance == Spec => []IInv
BY InitIInv, NextIInv, PTL DEF Spec

-----------------------------------------------------------------------------
(* What it gives *)

(* The state of every acceptor, proposer and message of a slot keeps the   *)
(* shape that acceptor.hpp, proposer.hpp and sgate.proto give it.          *)
THEOREM TypeCorrect == Spec => []TypeOK
<1>1. IInv => TypeOK
  BY DEF IInv
<1> QED
  BY <1>1, Invariance, PTL

(* gen_next_ballot and the counting of acknowledgements: all requests at   *)
(* one ballot ask for one value.                                           *)
THEOREM BallotsAreUnique == Spec => []OneValuePerBallot
<1>1. IInv => OneValuePerBallot
  BY DEF IInv
<1> QED
  BY <1>1, Invariance, PTL

(* The invariant implies that a chosen value is never contradicted. *)
LEMMA IInvStable == IInv => ChosenIsStable
<1> SUFFICES ASSUME IInv, NEW p \in issued, NEW q \in issued,
                    ChosenAt(p[1], p[2]), q[1] > p[1]
             PROVE  q[2] = p[2]
  BY DEF ChosenIsStable
<1>1. /\ p[1] \in Nat /\ q[1] \in Nat
      /\ p = <<p[1], p[2]>> /\ IsBallot(p[1])
  BY DEF IInv, TypeOK, IssuedInv, IssuedOK
<1>2. PICK P \in Quorum : P \subseteq VotedFor(p[1], p[2])
  BY DEF ChosenAt
<1>3. PICK k \in 1 .. (q[1] \div NodeIdSpan), n \in Participant : p[1] = BallotOf(k, n)
  BY <1>1, BallotForm
<1>4. PICK Q \in Quorum : \A a \in Q : <<p[1], q[2]>> \in votes[a] \/ Skipped(a, p[1])
  BY <1>1, <1>3 DEF IInv, SafeInv, SafeAt
<1>5. PICK a \in P : a \in Q
  BY QuorumsMeet
<1>6. a \in Node /\ <<p[1], p[2]>> \in votes[a]
  BY <1>2, <1>5 DEF Quorum, VotedFor
<1>7. ~Skipped(a, p[1])
  BY <1>6 DEF Skipped
<1>8. <<p[1], q[2]>> \in issued
  BY <1>4, <1>5, <1>6, <1>7 DEF IInv, AcceptorsInv, AcceptorOK
<1> QED
  BY <1>8 DEF IInv, OneValuePerBallot

(* Once a write quorum has accepted a value, every request at a higher     *)
(* ballot asks for that value: Phase I always finds it.                    *)
THEOREM ChosenStays == Spec => []ChosenIsStable
BY IInvStable, Invariance, PTL

(* Every value that a captain puts into chosen_values_ was accepted by a   *)
(* write quorum at one ballot.                                             *)
THEOREM ChosenHasQuorum == Spec => []ChosenByQuorum
<1>1. IInv => ChosenByQuorum
  BY DEF IInv, ChosenInv, IsChosen, ChosenByQuorum
<1> QED
  BY <1>1, Invariance, PTL

(* The invariant implies agreement: two chosen ballots carry one value. *)
LEMMA IInvAgreement == IInv => Agreement
<1> SUFFICES ASSUME IInv, NEW m \in Node, NEW n \in Node,
                    chosen[m] # Null, chosen[n] # Null
             PROVE  chosen[m] = chosen[n]
  BY DEF Agreement
<1>1. PICK x \in issued : x[2] = chosen[m] /\ ChosenAt(x[1], x[2])
  BY DEF IInv, ChosenInv, IsChosen
<1>2. PICK y \in issued : y[2] = chosen[n] /\ ChosenAt(y[1], y[2])
  BY DEF IInv, ChosenInv, IsChosen
<1>3. x[1] \in Nat /\ y[1] \in Nat
  BY DEF IInv, TypeOK
<1>4. CASE x[1] = y[1]
  BY <1>1, <1>2, <1>4 DEF IInv, OneValuePerBallot
<1>5. CASE x[1] < y[1]
  BY <1>1, <1>2, <1>3, <1>5, IInvStable DEF ChosenIsStable
<1>6. CASE x[1] > y[1]
  BY <1>1, <1>2, <1>3, <1>6, IInvStable DEF ChosenIsStable
<1> QED
  BY <1>3, <1>4, <1>5, <1>6

(* No two captains hold different values for a slot, whichever way they    *)
(* came by them.                                                           *)
THEOREM SlotAgreement == Spec => []Agreement
BY IInvAgreement, Invariance, PTL
=============================================================================
