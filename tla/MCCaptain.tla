------------------------------ MODULE MCCaptain ------------------------------
(* Small views of captains; no value is distinguished from another. *)
EXTENDS Captain, TLC

ValueSymmetry == Permutations(Value)

(* Bound: once all values have been submitted, at most one proposer has    *)
(* restarted.  Before that there is no such bound.                         *)
RestartBound ==
  \/ \E v \in Value : IsNew(v)
  \/ Cardinality({x \in Node \X Slot :
       captains[x[1]].proposers[x[2]].curr_ballot >= 2 * NodeIdSpan}) =< 1
=============================================================================
