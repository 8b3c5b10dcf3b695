---------------------------- MODULE CaptainHistory ----------------------------
(***************************************************************************)
(* The captains, with the history that their promises are about: every     *)
(* vote of every acceptor and every ACCEPT that was issued.  A server that *)
(* is started again has nothing but its configuration: promises, votes,    *)
(* the log and max_slot_ live in memory only.                              *)
(*                                                                         *)
(* Against this history the captains implement two specifications: the     *)
(* replicated log, and in each slot the protocol of module Synod, whose    *)
(* safety is proved.                                                       *)
(***************************************************************************)
EXTENDS Captain

CONSTANT Restarts \* the nodes that may crash and be started again

(* Nodes that commit are left out.  Such a node would open slot 1 again in *)
(* Phase II at its first ballot, and could have another value chosen there.*)
ASSUME RestartAssumption == Restarts \subseteq Node \ Committer

VARIABLES
  votes,  \* the <<slot, ballot, value>> each acceptor has accepted
  issued  \* the <<slot, ballot, value>> of all ACCEPT requests

allvars == <<vars, votes, issued>>

AllInit ==
  /\ Init
  /\ votes = [n \in Node |-> {}]
  /\ issued = {}

(* An acceptor that accepts shows its vote until it accepts again; a       *)
(* proposer is in Phase II at the end of the step that sends an ACCEPT.    *)
Recorded ==
  /\ votes' = [n \in Node |-> votes[n] \cup
       {<<s, captains'[n].acceptors[s].max_accepted_ballot,
          captains'[n].acceptors[s].max_value>> :
          s \in {s \in Slot : captains'[n].acceptors[s].max_value # Null}}]
  /\ issued' = issued \cup UNION
       {{<<s, captains'[n].proposers[s].curr_ballot,
           captains'[n].proposers[s].curr_value>> :
           s \in {s \in Slot : captains'[n].proposers[s].status = "PHASEII"}} :
           n \in Node}

(* The process of node a ends and is started again.  What others have sent *)
(* to it is still in their sockets, or lost with its own.                  *)
Crash(a) ==
  /\ a \in Restarts
  /\ captains' = [captains EXCEPT ![a] = NewCaptain]
  /\ UNCHANGED <<requests, replies, submitted, answered>>

AllNext == (Next \/ \E a \in Node : Crash(a)) /\ Recorded

AllSpec == AllInit /\ [][AllNext]_allvars

-----------------------------------------------------------------------------
(* Properties *)

(* What a quorum of the acceptors of slot s has accepted at one ballot,    *)
(* whether or not they remember it.                                        *)
DecidedIn(s) ==
  LET voters(x) == {a \in Node : <<s, x[2], x[3]>> \in votes[a]}
      decided == {x \in issued :
                    x[1] = s /\ Cardinality(voters(x)) >= QuorumSize}
  IN  IF decided = {} THEN Null ELSE (CHOOSE x \in decided : TRUE)[3]

Log == INSTANCE ReplicatedLog WITH
  Volatile  <- Restarts,
  submitted <- UNION {{submitted[n][i] : i \in DOMAIN submitted[n]} :
                        n \in Node},
  decided   <- [s \in Slot |-> DecidedIn(s)],
  delivered <- [n \in Node |-> Delivered(captains[n])]

(* One committing node, whatever is lost and whoever else is restarted: the*)
(* captains implement the replicated log.  In particular a client is       *)
(* answered only for a decided value, before or after the callback has     *)
(* seen it, and only once; and callback_ sees the decided values of all    *)
(* slots in order (captain.cpp 199-285, 373-386, 601-690).                 *)
ImplementsLog == Log!Spec

(* The messages of slot s between n and a.  The decision of a slot travels *)
(* on the ACCEPT of a later one.                                           *)
SlotRequests(s, n, a) ==
  UNION {LET m == requests[n][a][i]
             told == IF m.type = "ACCEPT" /\ m.last_slot = s
                     THEN {[type |-> "LAST", from |-> n, to |-> a,
                            value |-> m.last_value]}
                     ELSE {}
         IN  told \cup
             CASE m.slot # s -> {}
               [] m.slot = s /\ m.type = "PREPARE" ->
                    {[type |-> "PREPARE", from |-> n, to |-> a,
                      ballot |-> m.ballot]}
               [] m.slot = s /\ m.type = "ACCEPT" ->
                    {[type |-> "ACCEPT", from |-> n, to |-> a,
                      ballot |-> m.ballot, value |-> m.value]}
         : i \in DOMAIN requests[n][a]}

SlotReplies(s, a, n) ==
  {LET m == replies[a][n][i]
   IN  IF m.type = "PROMISE"
       THEN [type |-> "PROMISE", from |-> a, to |-> n, ballot |-> m.ballot,
             ack |-> m.ack]
       ELSE [type |-> "ACCEPTED", from |-> a, to |-> n, ballot |-> m.ballot,
             reply |-> m.reply]
   : i \in {i \in DOMAIN replies[a][n] : replies[a][n][i].slot = s}}

InSlot(s, histories) == {<<x[2], x[3]>> : x \in {x \in histories : x[1] = s}}

Slots(s) == INSTANCE Synod WITH
  Fast      <- Committer,
  Slow      <- Committer,
  Teller    <- Committer,
  acceptors <- [n \in Node |-> captains[n].acceptors[s]],
  proposers <- [n \in Node |-> captains[n].proposers[s]],
  chosen    <- [n \in Node |-> ChosenIn(captains[n].chosen_values, s)],
  announced <- {n \in Node : captains[n].last_slot >= s},
  net       <- UNION {SlotRequests(s, n, a) \cup SlotReplies(s, a, n) :
                        n \in Node, a \in Node},
  votes     <- [n \in Node |-> InSlot(s, votes[n])],
  issued    <- InSlot(s, issued)

(* In every slot the captains follow the protocol of module Synod: however *)
(* slots share a window, a queue, a connection and a message, each step of *)
(* a captain is in each slot a step of that protocol or none (captain.cpp  *)
(* 48-391).                                                                *)
ImplementsSynod ==
  /\ \A s \in Slot : Slots(s)!Init
  /\ [][\A s \in Slot : UNCHANGED Slots(s)!vars \/ Slots(s)!Next]_allvars
===============================================================================
