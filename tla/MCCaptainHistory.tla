--------------------------- MODULE MCCaptainHistory ---------------------------
(* Small views of captains with their history. *)
EXTENDS CaptainHistory, TLC

ValueSymmetry == Permutations(Value)

(* Bound: proposers restart only while some value has not been submitted,  *)
(* so that the slots are crowded or contended for at length, but not both. *)
RestartBound ==
  \/ \E v \in Value : IsNew(v)
  \/ \A n \in Node, s \in Slot :
       captains[n].proposers[s].curr_ballot < 2 * NodeIdSpan
===============================================================================
