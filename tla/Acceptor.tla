------------------------------ MODULE Acceptor ------------------------------
(***************************************************************************)
(* The acceptor of one slot on one node (class Acceptor): what it has      *)
(* promised and what it has accepted, and its two handlers.  The handlers  *)
(* are written as functions of the acceptor and the request; the module    *)
(* that holds the acceptors applies them.                                  *)
(***************************************************************************)
EXTENDS SGateTypes

Acceptors == [max_proposed_ballot : Nat,
              max_accepted_ballot : Nat,
              max_value           : Value \cup {Null}]

NewAcceptor == [max_proposed_ballot |-> 0,
                max_accepted_ballot |-> 0,
                max_value           |-> Null]

(* handle_msg_prepare: promise only a ballot above every ballot seen. *)
WillPromise(acc, b) == b > acc.max_proposed_ballot

AfterPrepare(acc, b) ==
  IF WillPromise(acc, b) THEN [acc EXCEPT !.max_proposed_ballot = b] ELSE acc

(* The reply always carries max_accepted_ballot_, but the value only when  *)
(* the promise is given.                                                   *)
PromiseOf(acc, b) ==
  [reply      |-> IF WillPromise(acc, b) THEN "yes" ELSE "no",
   max_ballot |-> acc.max_accepted_ballot,
   max_value  |-> IF WillPromise(acc, b) THEN acc.max_value ELSE Null]

(* Mutant: every request is accepted. *)
AcceptAny(acc, b) == TRUE

(* handle_msg_accept: accept a ballot that is not below the promise. *)
WillAccept(acc, b) == b >= acc.max_proposed_ballot

AfterAccept(acc, b, v) ==
  IF WillAccept(acc, b)
  THEN [max_proposed_ballot |-> b, max_accepted_ballot |-> b, max_value |-> v]
  ELSE acc

AcceptedReply(acc, b) == IF WillAccept(acc, b) THEN "yes" ELSE "no"
=============================================================================
