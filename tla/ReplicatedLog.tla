---------------------------- MODULE ReplicatedLog ----------------------------
(***************************************************************************)
(* What the captains promise together, without ballots and messages: a log *)
(* whose slots are each decided once, with values that clients submitted   *)
(* and never with one value twice; every node delivers the log in order    *)
(* and without gaps, all over again if it was restarted; a client is       *)
(* answered once, when its value is decided.                               *)
(***************************************************************************)
EXTENDS Naturals, Sequences

CONSTANTS
  Node, Value, Null, Slot,
  Volatile \* the nodes that may start again with nothing

VARIABLES
  submitted, \* the set of values clients asked for
  decided,   \* the value of each slot, Null while there is none
  delivered, \* the values each node has called its callback with
  answered   \* the values whose clients were told so, in this order

vars == <<submitted, decided, delivered, answered>>

Init == /\ submitted = {}
        /\ decided = [s \in Slot |-> Null]
        /\ delivered = [n \in Node |-> <<>>]
        /\ answered = <<>>

IsDecided(log, v) == \E s \in Slot : log[s] = v

Submit(v) == /\ v \notin submitted
             /\ submitted' = submitted \cup {v}
             /\ UNCHANGED <<decided, delivered, answered>>

(* The first k slots of a log *)
FirstOf(log, k) == [s \in 1 .. k |-> log[s]]

Decide(s, v) == /\ v \in submitted /\ ~IsDecided(decided, v)
                /\ decided[s] = Null
                /\ decided' = [decided EXCEPT ![s] = v]

(* The part of the log that a node can deliver may grow by several slots   *)
(* at once, when a hole is filled.                                         *)
Deliver(n) == \E k \in {s \in Slot : s > Len(delivered[n])} :
  /\ \A s \in 1 .. k : decided'[s] # Null
  /\ delivered' = [delivered EXCEPT ![n] = FirstOf(decided', k)]

Answer(v) == /\ IsDecided(decided', v)
             /\ \A i \in DOMAIN answered : answered[i] # v
             /\ answered' = Append(answered, v)

(* One message handled by one node can do all three. *)
Progress ==
  /\ UNCHANGED decided \/ \E s \in Slot, v \in Value : Decide(s, v)
  /\ UNCHANGED delivered \/ \E n \in Node : Deliver(n)
  /\ UNCHANGED answered \/ \E v \in Value : Answer(v)
  /\ UNCHANGED submitted

(* A node that starts again delivers the log again from its first slot. *)
Forget(n) == /\ n \in Volatile
             /\ delivered' = [delivered EXCEPT ![n] = <<>>]
             /\ UNCHANGED <<submitted, decided, answered>>

Next ==
  \/ Progress
  \/ \E v \in Value : Submit(v)
  \/ \E n \in Node : Forget(n)

Spec == Init /\ [][Next]_vars
=============================================================================
