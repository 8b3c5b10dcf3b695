---------------------------- MODULE ProposerProofs ----------------------------
(***************************************************************************)
(* Lemmas about the quorums, ballots, proposers and acceptors of a slot,   *)
(* which the proofs about one slot and about the whole log have in common. *)
(***************************************************************************)
EXTENDS Acceptor, Proposer, TLAPS, FiniteSetTheorems, WellFoundedInduction

-----------------------------------------------------------------------------
(* Quorums *)

(* The view is finite. *)
LEMMA NodeFinite == IsFiniteSet(Node) /\ Cardinality(Node) \in Nat
BY NodeAssumption, FS_CardinalityType DEF NodeAssumption

(* The ids of the nodes are 16-bit numbers. *)
LEMMA NodeNat == \A n \in Node : n \in Nat /\ n < NodeIdSpan
BY NodeAssumption DEF NodeAssumption

(* Two sets of ceil((n + 1) / 2) nodes meet (qr_ and qw_ of Proposer). *)
LEMMA QuorumsMeet == \A P, Q \in Quorum : P \cap Q # {}
<1> SUFFICES ASSUME NEW P \in Quorum, NEW Q \in Quorum
             PROVE  P \cap Q # {}
  OBVIOUS
<1>1. /\ P \subseteq Node /\ Q \subseteq Node
      /\ Cardinality(P) >= QuorumSize /\ Cardinality(Q) >= QuorumSize
  BY DEF Quorum
<1>2. Cardinality(P) \in Nat /\ Cardinality(Q) \in Nat
  BY <1>1, NodeFinite, FS_Subset, FS_CardinalityType
<1>3. Cardinality(P) + Cardinality(Q) > Cardinality(Node)
  BY <1>1, <1>2, NodeFinite DEF QuorumSize
<1> QED
  BY <1>1, <1>3, NodeFinite, FS_MajoritiesIntersect

-----------------------------------------------------------------------------
(* Ballots *)

(* gen_next_ballot keeps the owner and moves up. *)
LEMMA NextBallotOK ==
  ASSUME NEW b \in Nat, NEW n \in Node
  PROVE  /\ NextBallot(b, n) \in Nat
         /\ NextBallot(b, n) > b
         /\ NextBallot(b, n) >= NodeIdSpan
         /\ b = 0 => NextBallot(b, n) = NodeIdSpan + n
         /\ b = 0 \/ Owner(b) = n => Owner(NextBallot(b, n)) = n
BY NodeNat DEF NextBallot, NodeIdSpan, Owner

-----------------------------------------------------------------------------
(* What the methods of a proposer return *)

(* The empty maps of acknowledgements are well typed. *)
LEMMA NoAcks ==
  /\ NoPromise \in Promises /\ NoPromise.reply = "none"
  /\ [a \in Node |-> NoPromise] \in [Node -> Promises]
  /\ [a \in Node |-> "none"] \in [Node -> Replies \cup {"none"}]
BY DEF NoPromise, Promises, Replies

(* What the constructor of Proposer leaves behind. *)
LEMMA NewProposerOK ==
  ASSUME NEW v \in Value \cup {Null}
  PROVE  /\ NewProposer(v) \in Proposers
         /\ NewProposer(v).status = "EMPTY"
         /\ NewProposer(v).init_value = v
         /\ NewProposer(v).curr_ballot = 0
         /\ NewProposer(v).curr_value = Null
         /\ NewProposer(v).max_ballot = 0
         /\ NewProposer(v).max_value = Null
         /\ NewProposer(v).ack_prepare = [a \in Node |-> NoPromise]
         /\ NewProposer(v).ack_accept = [a \in Node |-> "none"]
BY NoAcks DEF NewProposer, Proposers

(* What restart_msg_prepare changes and what it keeps. *)
LEMMA RestartedOK ==
  ASSUME NEW p \in Proposers, NEW n \in Node
  PROVE  LET r == Restarted(p, n)
         IN  /\ r \in Proposers
             /\ r.status = "PHASEI"
             /\ r.init_value = p.init_value
             /\ r.curr_ballot = NextBallot(p.curr_ballot, n)
             /\ r.curr_value = Null
             /\ r.max_ballot = p.max_ballot
             /\ r.max_value = p.max_value
             /\ r.ack_prepare = [a \in Node |-> NoPromise]
             /\ r.ack_accept = [a \in Node |-> "none"]
<1>1. NextBallot(p.curr_ballot, n) \in Nat
  BY NextBallotOK DEF Proposers
<1> QED
  BY <1>1, NoAcks DEF Restarted, Proposers

(* What the short cut into Phase II leaves behind. *)
LEMMA OpenedInPhaseIIOK ==
  ASSUME NEW v \in Value, NEW n \in Node
  PROVE  LET r == OpenedInPhaseII(v, n)
         IN  /\ r \in Proposers
             /\ r.status = "PHASEII"
             /\ r.init_value = v
             /\ r.curr_ballot = NodeIdSpan + n
             /\ r.curr_value = v
             /\ r.max_ballot = 0
             /\ r.max_value = Null
             /\ r.ack_prepare = [a \in Node |-> NoPromise]
             /\ r.ack_accept = [a \in Node |-> "none"]
<1>1. NextBallot(0, n) \in Nat /\ NextBallot(0, n) = NodeIdSpan + n
  BY NextBallotOK
<1> QED
  BY <1>1, NoAcks DEF OpenedInPhaseII, NewProposer, Proposers

(* Recording a promise changes one entry of ack_prepare only. *)
LEMMA WithPromiseOK ==
  ASSUME NEW p \in Proposers, NEW a \in Node, NEW ack \in Promises
  PROVE  LET r == WithPromise(p, a, ack)
         IN  /\ r \in Proposers
             /\ r.status = p.status
             /\ r.init_value = p.init_value
             /\ r.curr_ballot = p.curr_ballot
             /\ r.curr_value = p.curr_value
             /\ r.max_ballot = p.max_ballot
             /\ r.max_value = p.max_value
             /\ r.ack_prepare = [p.ack_prepare EXCEPT ![a] = ack]
             /\ r.ack_accept = p.ack_accept
BY DEF WithPromise, Proposers

(* Recording an answer changes one entry of ack_accept only. *)
LEMMA WithAcceptedOK ==
  ASSUME NEW p \in Proposers, NEW a \in Node, NEW reply \in Replies
  PROVE  LET r == WithAccepted(p, a, reply)
         IN  /\ r \in Proposers
             /\ r.status = p.status
             /\ r.init_value = p.init_value
             /\ r.curr_ballot = p.curr_ballot
             /\ r.curr_value = p.curr_value
             /\ r.max_ballot = p.max_ballot
             /\ r.max_value = p.max_value
             /\ r.ack_prepare = p.ack_prepare
             /\ r.ack_accept = [p.ack_accept EXCEPT ![a] = reply]
BY DEF WithAccepted, Proposers

(* Entering Phase II fixes a value and changes nothing else. *)
LEMMA InPhaseIIOK ==
  ASSUME NEW p \in Proposers
  PROVE  LET r == InPhaseII(p)
         IN  /\ r \in Proposers
             /\ r.status = "PHASEII"
             /\ r.init_value = p.init_value
             /\ r.curr_ballot = p.curr_ballot
             /\ r.curr_value = IF p.max_value # Null THEN p.max_value ELSE p.init_value
             /\ r.max_ballot = p.max_ballot
             /\ r.max_value = p.max_value
             /\ r.ack_prepare = p.ack_prepare
             /\ r.ack_accept = p.ack_accept
BY DEF InPhaseII, Proposers

(* Leaving the map changes the status only. *)
LEMMA ChosenOK ==
  ASSUME NEW p \in Proposers
  PROVE  LET r == Chosen(p)
         IN  /\ r \in Proposers
             /\ r.status = "CHOSEN"
             /\ r.init_value = p.init_value
             /\ r.curr_ballot = p.curr_ballot
             /\ r.curr_value = p.curr_value
             /\ r.max_ballot = p.max_ballot
             /\ r.max_value = p.max_value
             /\ r.ack_prepare = p.ack_prepare
             /\ r.ack_accept = p.ack_accept
BY DEF Chosen, Proposers

(* A finite nonempty set has an element of the greatest measure. *)
LEMMA GreatestExists ==
  ASSUME NEW S, S # {}, IsFiniteSet(S), NEW f \in [S -> Nat]
  PROVE  \E a \in S : \A o \in S : f[o] =< f[a]
<1> DEFINE Above(a) == {o \in S : f[o] > f[a]}
           counts == {Cardinality(Above(a)) : a \in S}
<1>1. \A a \in S : IsFiniteSet(Above(a)) /\ Cardinality(Above(a)) \in Nat
  BY FS_Subset, FS_CardinalityType
<1>2. counts \subseteq Nat /\ counts # {}
  BY <1>1
<1> HIDE DEF counts
<1>3. PICK x \in counts : \A y \in counts : ~ (<<y, x>> \in OpToRel(<, Nat))
  BY <1>2, NatLessThanWellFounded, WFMin
<1>4. \A y \in counts : ~ (y < x)
  BY <1>2, <1>3 DEF OpToRel
<1>5. PICK a \in S : x = Cardinality(Above(a))
  BY DEF counts
<1>6. ASSUME NEW o \in S, f[o] > f[a] PROVE FALSE
  <2>1. Above(o) \subseteq Above(a) /\ o \in Above(a) /\ o \notin Above(o)
    BY <1>6
  <2> HIDE DEF Above
  <2>2. Cardinality(Above(o)) < Cardinality(Above(a))
    BY <1>1, <2>1, FS_Subset
  <2>3. Cardinality(Above(o)) \in counts
    BY DEF counts
  <2> QED
    BY <1>4, <1>5, <2>2, <2>3
<1> QED
  BY <1>6

(* The loop of handle_msg_promise: the ballot kept is at least every one   *)
(* reported with a promise, and comes with the value reported for it.      *)
IsMergeOf(r, p) ==
  /\ r \in Proposers
  /\ r.status = p.status
  /\ r.init_value = p.init_value
  /\ r.curr_ballot = p.curr_ballot
  /\ r.curr_value = p.curr_value
  /\ r.ack_prepare = p.ack_prepare
  /\ r.ack_accept = p.ack_accept
  /\ r.max_ballot >= p.max_ballot
  /\ \A a \in Promised(p, "yes") : p.ack_prepare[a].max_ballot =< r.max_ballot
  /\ \/ r.max_ballot = p.max_ballot /\ r.max_value = p.max_value
     \/ \E a \in Promised(p, "yes") :
          /\ p.ack_prepare[a].max_ballot > p.max_ballot
          /\ r.max_ballot = p.ack_prepare[a].max_ballot
          /\ r.max_value = p.ack_prepare[a].max_value

(* The merge loop keeps or raises max_ballot_. *)
LEMMA MergePromisesOK ==
  ASSUME NEW p \in Proposers
  PROVE  IsMergeOf(MergePromises(p), p)
<1> DEFINE higher == {a \in Promised(p, "yes") :
                       p.ack_prepare[a].max_ballot > p.max_ballot}
           IsTop(a) == \A o \in higher :
                         p.ack_prepare[o].max_ballot =< p.ack_prepare[a].max_ballot
           top == CHOOSE a \in higher : IsTop(a)
<1>1. /\ higher \subseteq Node /\ higher \subseteq Promised(p, "yes")
      /\ Promised(p, "yes") \subseteq Node
  BY DEF Promised
<1>2. \A a \in Node : /\ p.ack_prepare[a].max_ballot \in Nat
                      /\ p.ack_prepare[a].max_value \in Value \cup {Null}
  BY DEF Proposers, Promises
<1>3. p.max_ballot \in Nat
  BY DEF Proposers
<1>4. CASE higher = {}
  <2>1. MergePromises(p) = p
    BY <1>4 DEF MergePromises
  <2>2. \A a \in Promised(p, "yes") : p.ack_prepare[a].max_ballot =< p.max_ballot
    BY <1>1, <1>2, <1>3, <1>4
  <2> QED
    BY <1>3, <2>1, <2>2 DEF IsMergeOf
<1>5. CASE higher # {}
  <2> DEFINE f == [a \in higher |-> p.ack_prepare[a].max_ballot]
  <2>1. f \in [higher -> Nat] /\ IsFiniteSet(higher)
    BY <1>1, <1>2, NodeFinite, FS_Subset
  <2>2. PICK t \in higher : \A o \in higher : f[o] =< f[t]
    <3> HIDE DEF f, higher
    <3> QED
      BY <1>5, <2>1, GreatestExists
  <2>3. IsTop(t)
    BY <2>2
  <2>4. top \in higher /\ IsTop(top)
    <3> HIDE DEF IsTop, higher
    <3> QED
      BY <2>3
  <2> HIDE DEF f
  <2>5. MergePromises(p) = [p EXCEPT !.max_ballot = p.ack_prepare[top].max_ballot,
                                     !.max_value  = p.ack_prepare[top].max_value]
    BY <1>5 DEF MergePromises
  <2> DEFINE r == MergePromises(p)
  <2>6. top \in Node /\ p.ack_prepare[top].max_ballot > p.max_ballot
    BY <1>1, <2>4
  <2>7. /\ r \in Proposers
        /\ r.status = p.status /\ r.init_value = p.init_value
        /\ r.curr_ballot = p.curr_ballot /\ r.curr_value = p.curr_value
        /\ r.ack_prepare = p.ack_prepare /\ r.ack_accept = p.ack_accept
        /\ r.max_ballot = p.ack_prepare[top].max_ballot
        /\ r.max_value = p.ack_prepare[top].max_value
    <3> HIDE DEF top, higher, IsTop
    <3> QED
      BY <1>2, <2>5, <2>6 DEF Proposers
  <2>8. \A a \in Promised(p, "yes") : p.ack_prepare[a].max_ballot =< r.max_ballot
    <3> TAKE a \in Promised(p, "yes")
    <3>1. CASE a \in higher
      BY <2>4, <2>7, <3>1
    <3>2. CASE a \notin higher
      <4>1. p.ack_prepare[a].max_ballot =< p.max_ballot
        BY <1>1, <1>2, <1>3, <3>2
      <4> HIDE DEF top, r
      <4> QED
        BY <1>1, <1>2, <1>3, <2>6, <2>7, <4>1
    <3> QED
      BY <3>1, <3>2
  <2>9. top \in Promised(p, "yes")
    BY <1>1, <2>4
  <2> HIDE DEF top, r, higher
  <2> QED
    BY <1>2, <1>3, <2>6, <2>7, <2>8, <2>9 DEF r, IsMergeOf
<1> QED
  BY <1>4, <1>5

-----------------------------------------------------------------------------
(* What the handlers of an acceptor do to it and answer *)

(* handle_msg_prepare raises the promise and nothing else. *)
LEMMA AfterPrepareOK ==
  ASSUME NEW acc \in Acceptors, NEW b \in Nat
  PROVE  LET r == AfterPrepare(acc, b)
         IN  /\ r \in Acceptors
             /\ r.max_proposed_ballot >= acc.max_proposed_ballot
             /\ r.max_accepted_ballot = acc.max_accepted_ballot
             /\ r.max_value = acc.max_value
             /\ WillPromise(acc, b) => r.max_proposed_ballot = b
BY DEF AfterPrepare, WillPromise, Acceptors

(* A promise tells what the acceptor had accepted. *)
LEMMA PromiseOfOK ==
  ASSUME NEW acc \in Acceptors, NEW b \in Nat
  PROVE  LET r == PromiseOf(acc, b)
         IN  /\ r \in Promises
             /\ r.reply = "yes" =>
                  /\ WillPromise(acc, b)
                  /\ r.max_ballot = acc.max_accepted_ballot
                  /\ r.max_value = acc.max_value
BY DEF PromiseOf, Promises, Replies, Acceptors

(* handle_msg_accept raises all three fields together or none. *)
LEMMA AfterAcceptOK ==
  ASSUME NEW acc \in Acceptors, NEW b \in Nat, NEW v \in Value
  PROVE  LET r == AfterAccept(acc, b, v)
         IN  /\ r \in Acceptors
             /\ r.max_proposed_ballot >= acc.max_proposed_ballot
             /\ WillAccept(acc, b) => /\ r.max_proposed_ballot = b
                                     /\ r.max_accepted_ballot = b
                                     /\ r.max_value = v
             /\ ~WillAccept(acc, b) => r = acc
BY DEF AfterAccept, WillAccept, Acceptors
===============================================================================
