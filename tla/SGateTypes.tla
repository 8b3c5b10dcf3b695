----------------------------- MODULE SGateTypes -----------------------------
(***************************************************************************)
(* What every part of the replica agrees on: the view (the nodes of the    *)
(* configuration file), the values, and the shape of ballots.              *)
(*                                                                         *)
(* A node id is a node_id_t, an unsigned 16-bit integer.  A ballot is a    *)
(* ballot_id_t whose low 16 bits are the id of the node that owns it and   *)
(* whose upper 48 bits count that node's attempts; 0 is "no ballot".  The  *)
(* counter needs 2^48 attempts to wrap, so ballots are naturals here.      *)
(* Values stand for PropValue objects and are told apart by their id; Null *)
(* is the NULL pointer.                                                    *)
(***************************************************************************)
EXTENDS Integers, FiniteSets

CONSTANTS
  Node,   \* the ids of the nodes of the view
  Value,  \* the values that can be committed
  Null    \* no value

NodeIdSpan == 65536

ASSUME NodeAssumption == /\ IsFiniteSet(Node)
                         /\ Cardinality(Node) >= 2
                         /\ \A n \in Node : n \in Nat /\ n < NodeIdSpan

ASSUME NullAssumption == Null \notin Value

Others(n) == Node \ {n}

(* ceil((nodes_size + 1) / 2.0): read quorum and write quorum alike. *)
QuorumSize == Cardinality(Node) \div 2 + 1

Quorum == {Q \in SUBSET Node : Cardinality(Q) >= QuorumSize}

(* The node that owns a ballot. *)
Owner(b) == b % NodeIdSpan
=============================================================================
