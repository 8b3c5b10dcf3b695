------------------------------- MODULE LogProofs -------------------------------
(***************************************************************************)
(* Theorems about the captains when one node, the master, commits: any     *)
(* view, any window, any values.  The log is agreed on and is the log of   *)
(* module ReplicatedLog whatever is lost and whichever followers start     *)
(* again; if nothing is lost the followers are told it without delay.      *)
(***************************************************************************)
EXTENDS CaptainHistory, CaptainProofs

-----------------------------------------------------------------------------
(* Restarts.  A node that does not commit has no work that could be lost.  *)

BystanderInv == \A n \in Node \ Committer :
  /\ Active(captains[n]) = {} /\ captains[n].tocommit_values = <<>>
  /\ submitted[n] = <<>>

WorkInv == TypeInv /\ WindowInv /\ AccountInv /\ BystanderInv

LEMMA InitWork == Init => WorkInv
<1>1. Init => BystanderInv
  BY NewCaptainReady DEF Init, BystanderInv
<1> QED
  BY <1>1, InitTyped, InitWindow, InitAccount DEF WorkInv

LEMMA NextBystander == TypeInv /\ BystanderInv /\ [Next]_vars => BystanderInv'
<1> SUFFICES ASSUME TypeInv, BystanderInv, [Next]_vars PROVE BystanderInv'
  OBVIOUS
<1>1. CASE Next
  <2>1. PICK n \in Node : Effect(n)
    BY <1>1, NextEffect
  <2>2. PICK d : captains' = [captains EXCEPT ![n] = d]
    BY <2>1, EffectTyped DEF Becomes
  <2>3. /\ captains'[n] = d
        /\ \A a \in Node \ {n} : captains'[a] = captains[a]
        /\ \A e : captains' = [captains EXCEPT ![n] = e] => e = d
    BY <2>2 DEF TypeInv
  <2>4. CASE Works(n)
    <3>1. SameWork(captains[n], d) /\ UNCHANGED submitted
      BY <2>3, <2>4 DEF Works, Becomes
    <3> QED
      BY <2>3, <3>1 DEF BystanderInv, SameWork
  <2>5. CASE \E v \in Value : Takes(n, v)
    <3>1. n \in Committer
      BY <2>5 DEF Takes
    <3>2. \A a \in Node \ {n} : submitted'[a] = submitted[a]
      BY <2>5 DEF Takes, TypeInv, HistoryOK
    <3> QED
      BY <2>3, <3>1, <3>2 DEF BystanderInv
  <2>6. CASE \E s \in Active(captains[n]) : Finishes(n, s)
    <3>1. n \in Committer
      BY <2>6 DEF BystanderInv
    <3>2. UNCHANGED submitted
      BY <2>6 DEF Finishes
    <3> QED
      BY <2>3, <3>1, <3>2 DEF BystanderInv
  <2> QED
    BY <2>1, <2>4, <2>5, <2>6 DEF Effect
<1>2. CASE UNCHANGED vars
  BY <1>2 DEF vars, BystanderInv
<1> QED
  BY <1>1, <1>2

LEMMA NextWork == WorkInv /\ [Next]_vars => WorkInv'
BY NextTyped, NextWindow, NextAccount, NextBystander DEF WorkInv

LEMMA CrashWork ==
  ASSUME NEW a \in Node, WorkInv, Crash(a)
  PROVE  WorkInv'
<1>1. /\ a \notin Committer
      /\ captains' = [captains EXCEPT ![a] = NewCaptain]
      /\ UNCHANGED <<requests, replies, submitted, answered>>
  BY RestartAssumption DEF Crash, RestartAssumption
<1>2. /\ captains'[a] = NewCaptain
      /\ \A n \in Node \ {a} : captains'[n] = captains[n]
  BY <1>1 DEF WorkInv, TypeInv
<1>3. /\ Ready(NewCaptain) /\ NewCaptain \in Captains
      /\ Active(NewCaptain) = {} /\ NewCaptain.tocommit_values = <<>>
  BY NewCaptainReady DEF Ready
<1>4. TypeInv'
  <2>1. captains' \in [Node -> Captains] /\ \A n \in Node : Ready(captains'[n])
    BY <1>1, <1>2, <1>3 DEF WorkInv, TypeInv
  <2> QED
    BY <1>1, <2>1 DEF WorkInv, TypeInv, RequestsOK, RepliesOK, HistoryOK
<1>5. WindowInv'
  <2>1. WindowOK(NewCaptain)
    BY <1>3, FS_EmptySet, CaptainAssumption DEF WindowOK, CaptainAssumption
  <2> QED
    BY <1>2, <2>1 DEF WorkInv, WindowInv
<1>6. AccountInv'
  <2>1. Asked(a) = {}
    BY <1>1, EmptyEntries DEF WorkInv, BystanderInv, Asked
  <2>2. Divided(NewCaptain, Asked(a), Told)
    BY <1>3, <2>1, EmptyEntries DEF Divided, Queued, Worked, SlotsDiffer
  <2>3. \A n \in Node : Divided(captains'[n], Asked(n), Told)
    BY <1>2, <2>2 DEF WorkInv, AccountInv
  <2> QED
    BY <1>1, <2>3 DEF WorkInv, AccountInv, Asked, Told
<1>7. BystanderInv'
  BY <1>1, <1>2, <1>3 DEF WorkInv, BystanderInv
<1> QED
  BY <1>4, <1>5, <1>6, <1>7 DEF WorkInv

LEMMA AllNextWork == WorkInv /\ [AllNext]_allvars => WorkInv'
<1> SUFFICES ASSUME WorkInv, [AllNext]_allvars PROVE WorkInv'
  OBVIOUS
<1>1. CASE Next
  BY <1>1, NextWork
<1>2. CASE \E a \in Node : Crash(a)
  BY <1>2, CrashWork
<1>3. CASE UNCHANGED allvars
  <2>1. UNCHANGED vars
    BY <1>3 DEF allvars
  <2> QED
    BY <2>1, NextWork
<1> QED
  BY <1>1, <1>2, <1>3 DEF AllNext

(* Restarts of nodes that do not commit take nothing away: the window and  *)
(* the values in it are kept as without them.                              *)
THEOREM RestartsLoseNoWork == AllSpec => [](WindowKept /\ Accounted)
<1>1. WorkInv => WindowKept /\ Accounted
  BY WindowImplied, AccountImplied DEF WorkInv
<1>2. AllInit => WorkInv
  BY InitWork DEF AllInit
<1> QED
  BY <1>1, <1>2, AllNextWork, PTL DEF AllSpec

-----------------------------------------------------------------------------
(* One master.  Nobody contends with it: it never leaves its first ballot. *)

OneMaster == \E m \in Node : Committer = {m}

Master == CHOOSE m \in Node : Committer = {m}

MasterBallot == NodeIdSpan + Master

LEMMA MasterOK ==
  ASSUME OneMaster
  PROVE  /\ Master \in Node /\ Committer = {Master}
         /\ MasterBallot \in Nat /\ MasterBallot > 0
         /\ MasterBallot = NextBallot(0, Master)
<1>1. Master \in Node /\ Committer = {Master}
  BY DEF OneMaster, Master
<1> QED
  BY <1>1, NodeNat DEF MasterBallot, NodeIdSpan, NextBallot

(* The value that captain c of the master has given slot s *)
ValueIn(c, s) == c.proposers[s].init_value

(* An acceptor that has heard of a slot only what the master sends *)
Voted(v) == [max_proposed_ballot |-> MasterBallot,
             max_accepted_ballot |-> MasterBallot,
             max_value           |-> v]

(* Captain c of the master has had no refusal, ...                         *)
Unopposed(c) == \A s \in Slot : s =< c.max_slot =>
  LET p == c.proposers[s]
  IN  /\ p.status \in {"PHASEII", "CHOSEN"}
      /\ p.curr_ballot = MasterBallot
      /\ p.curr_value = p.init_value
      /\ \A a \in Node : p.ack_accept[a] # "no"

(* ... logs what its own proposers have chosen, ...                        *)
OwnLog(c) == \A s \in Slot :
  ChosenIn(c.chosen_values, s) =
    IF c.proposers[s].status = "CHOSEN" THEN ValueIn(c, s) ELSE Null

(* ... and tells nothing else.                                             *)
ToldLog(c) == \A s \in Slot :
  s =< c.last_slot => c.proposers[s].status = "CHOSEN"

(* Captain x of a node has what c gave out, or nothing. *)
Follows(c, x) == \A s \in Slot :
  /\ \/ x.acceptors[s] = NewAcceptor
     \/ s =< c.max_slot /\ x.acceptors[s] = Voted(ValueIn(c, s))
  /\ \/ ChosenIn(x.chosen_values, s) = Null
     \/ /\ s =< c.max_slot
        /\ ChosenIn(x.chosen_values, s) = ValueIn(c, s)

RequestOK(c, m) ==
  /\ m.type = "ACCEPT" /\ m.slot =< c.max_slot
  /\ m.ballot = MasterBallot /\ m.value = ValueIn(c, m.slot)
  /\ m.last_slot # 0 => /\ m.last_slot < m.slot /\ m.last_slot =< c.last_slot
                        /\ m.last_value = ValueIn(c, m.last_slot)

AnswerOK(c, m) ==
  /\ m.type = "ACCEPTED" /\ m.slot =< c.max_slot
  /\ m.ballot = MasterBallot /\ m.reply = "yes"

RequestsSay(reqs, c) ==
  \A n, a \in Node : \A m \in Entries(reqs[n][a]) :
    n = Master /\ a # Master /\ RequestOK(c, m)

RepliesSay(reps, c) ==
  \A n, a \in Node : \A m \in Entries(reps[a][n]) :
    n = Master /\ a # Master /\ AnswerOK(c, m)

MasterInv ==
  LET c == captains[Master]
  IN  /\ Unopposed(c) /\ OwnLog(c) /\ ToldLog(c)
      /\ \A n \in Node : Follows(c, captains[n])
      /\ RequestsSay(requests, c) /\ RepliesSay(replies, c)

(* What is said of captain c stays true when it is further. *)
Grows(c, d) ==
  /\ c.max_slot =< d.max_slot /\ c.last_slot =< d.last_slot
  /\ \A s \in Slot : s =< c.max_slot => ValueIn(d, s) = ValueIn(c, s)

LEMMA GrowsKeeps ==
  ASSUME NEW c \in Captains, NEW d \in Captains, Grows(c, d)
  PROVE  /\ \A x : Follows(c, x) => Follows(d, x)
         /\ \A m \in Requests : RequestOK(c, m) => RequestOK(d, m)
         /\ \A m \in Answers : AnswerOK(c, m) => AnswerOK(d, m)
<1>1. /\ c.max_slot \in Nat /\ d.max_slot \in Nat
      /\ c.last_slot \in Nat /\ d.last_slot \in Nat
      /\ c.max_slot =< d.max_slot /\ c.last_slot =< d.last_slot
      /\ \A s \in Slot : s =< c.max_slot => ValueIn(d, s) = ValueIn(c, s)
      /\ \A s \in Slot : s \in Nat
  BY CaptainFields, MaxSlotNat DEF Grows
<1>2. \A x : Follows(c, x) => Follows(d, x)
  BY <1>1 DEF Follows
<1>3. ASSUME NEW m \in Requests, RequestOK(c, m)
      PROVE  RequestOK(d, m)
  <2>1. m.type = "ACCEPT"
    BY <1>3 DEF RequestOK
  <2>2. m.slot \in Slot /\ m.last_slot \in {0} \cup Slot
    BY <2>1 DEF Requests
  <2>3. /\ m.slot =< c.max_slot /\ m.ballot = MasterBallot
        /\ m.value = ValueIn(c, m.slot)
        /\ m.last_slot # 0 => /\ m.last_slot < m.slot
                              /\ m.last_slot =< c.last_slot
                              /\ m.last_value = ValueIn(c, m.last_slot)
    BY <1>3 DEF RequestOK
  <2>4. m.slot =< d.max_slot /\ m.value = ValueIn(d, m.slot)
    BY <1>1, <2>2, <2>3
  <2>5. ASSUME m.last_slot # 0
        PROVE  /\ m.last_slot < m.slot /\ m.last_slot =< d.last_slot
               /\ m.last_value = ValueIn(d, m.last_slot)
    BY <1>1, <2>2, <2>3, <2>5
  <2> QED
    BY <2>1, <2>3, <2>4, <2>5 DEF RequestOK
<1>4. ASSUME NEW m \in Answers, AnswerOK(c, m)
      PROVE  AnswerOK(d, m)
  <2>1. m.slot \in Nat
    BY <1>1 DEF Answers
  <2> QED
    BY <1>1, <1>4, <2>1 DEF AnswerOK
<1> QED
  BY <1>2, <1>3, <1>4

-----------------------------------------------------------------------------
(* What the steps are when one master commits *)

Alone(n) == \A x \in Node \ {n} : captains'[x] = captains[x]

RequestTaken(n, a) ==
  /\ requests[n][a] # <<>>
  /\ \A x, y \in Node : requests'[x][y] =
       IF x = n /\ y = a THEN Tail(requests[n][a]) ELSE requests[x][y]

ReplyTaken(a, n) ==
  /\ replies[a][n] # <<>>
  /\ \A x, y \in Node : replies'[x][y] =
       IF x = a /\ y = n THEN Tail(replies[a][n]) ELSE replies[x][y]

Sent(m) == \A x, y \in Node : requests'[x][y] =
  IF x = Master /\ y # Master THEN Append(requests[x][y], m)
                              ELSE requests[x][y]

Answered(a, m) == \A x, y \in Node : replies'[x][y] =
  IF x = a /\ y = Master THEN Append(replies[x][y], m) ELSE replies[x][y]

SameLog(c, d) ==
  /\ d.chosen_values = c.chosen_values
  /\ d.max_chosen_without_hole = c.max_chosen_without_hole

Logged(c, d, s, v) ==
  /\ d.chosen_values = LogWith(c.chosen_values, s, v)
  /\ d.max_chosen_without_hole =
       DeliverFrom(d.chosen_values, c.max_chosen_without_hole)

SameSlots(c, d) ==
  /\ d.max_slot = c.max_slot /\ d.last_slot = c.last_slot
  /\ d.proposers = c.proposers /\ d.acceptors = c.acceptors

(* A proposer that has just been started for v *)
Fresh(p, v) ==
  /\ p.status = "PHASEII" /\ p.init_value = v /\ p.curr_value = v
  /\ p.curr_ballot = MasterBallot
  /\ \A a \in Node : p.ack_accept[a] = IF a = Master THEN "yes" ELSE "none"

(* The master gives its next slot to v. *)
OpensSlot(c, d, v) ==
  LET s == c.max_slot + 1
  IN  /\ s \in Slot /\ d.max_slot = s
      /\ d.last_slot = IF TellsLast(c) THEN c.last_slot + 1 ELSE c.last_slot
      /\ d.tocommit_values = c.tocommit_values
      /\ SameLog(c, d)
      /\ \A t \in Slot \ {s} : /\ d.acceptors[t] = c.acceptors[t]
                               /\ d.proposers[t] = c.proposers[t]
      /\ d.acceptors[s] = Voted(v)
      /\ Fresh(d.proposers[s], v)

OpenMsg(c, v) ==
  LET last == IF TellsLast(c) THEN c.last_slot + 1 ELSE 0
  IN  AcceptMsg(c.max_slot + 1, MasterBallot, v,
                last, ChosenIn(c.chosen_values, last))

(* The answer of a for slot s is in, and the proposer now has status st. *)
Marked(c, d, s, a, st) ==
  LET p == c.proposers[s]
      q == d.proposers[s]
  IN  /\ d.max_slot = c.max_slot /\ d.last_slot = c.last_slot
      /\ d.acceptors = c.acceptors
      /\ \A t \in Slot \ {s} : d.proposers[t] = c.proposers[t]
      /\ q.status = st /\ q.init_value = p.init_value
      /\ q.curr_value = p.curr_value /\ q.curr_ballot = p.curr_ballot
      /\ \A n \in Node : q.ack_accept[n] =
           IF n = a THEN "yes" ELSE p.ack_accept[n]

(* Captain::commit *)
Submits(v) ==
  LET c == captains[Master]
      d == captains'[Master]
      size == Cardinality(Active(c))
  IN  /\ Alone(Master) /\ UNCHANGED <<replies, answered>>
      /\ IsNew(v)
      /\ submitted' = [submitted EXCEPT ![Master] = Append(@, v)]
      /\ \/ /\ size = WindowSize /\ SameSlots(c, d) /\ SameLog(c, d)
            /\ d.tocommit_values = Append(c.tocommit_values, v)
            /\ UNCHANGED requests
         \/ /\ size < WindowSize /\ c.tocommit_values = <<>>
            /\ OpensSlot(c, d, v) /\ Sent(OpenMsg(c, v))

(* Node a takes request m: its captain c becomes d. *)
HearsIn(a, c, d, m) ==
  LET last == ChosenIn(c.chosen_values, m.last_slot)
      same == c.acceptors[m.last_slot].max_value = m.last_value
      answer == AcceptedMsg(m.slot, MasterBallot, "yes")
  IN  /\ d.max_slot = c.max_slot /\ d.last_slot = c.last_slot
      /\ d.proposers = c.proposers /\ d.tocommit_values = c.tocommit_values
      /\ \A t \in Slot : d.acceptors[t] =
           IF t = m.slot THEN Voted(m.value) ELSE c.acceptors[t]
      /\ \/ /\ m.last_slot # 0 /\ last # Null
            /\ SameLog(c, d) /\ UNCHANGED replies
         \/ /\ m.last_slot # 0 /\ last = Null /\ same
            /\ Logged(c, d, m.last_slot, m.last_value) /\ Answered(a, answer)
         \/ /\ m.last_slot = 0 \/ (last = Null /\ ~same)
            /\ SameLog(c, d) /\ Answered(a, answer)

Hears(a) ==
  /\ RequestTaken(Master, a) /\ Alone(a) /\ UNCHANGED <<submitted, answered>>
  /\ HearsIn(a, captains[a], captains'[a], Head(requests[Master][a]))

(* What is left of the queue when a slot has been chosen *)
Rest(queue) == IF queue = <<>> THEN <<>> ELSE Tail(queue)

(* The master takes an answer of node a. *)
Records(a) ==
  LET c == captains[Master]
      d == captains'[Master]
      s == Head(replies[a][Master]).slot
      queue == c.tocommit_values
  IN  /\ ReplyTaken(a, Master) /\ UNCHANGED submitted
      /\ \/ /\ c.proposers[s].status # "PHASEII"
            /\ UNCHANGED <<captains, requests, answered>>
         \/ /\ c.proposers[s].status = "PHASEII" /\ Alone(Master)
            /\ Marked(c, d, s, a, "PHASEII") /\ SameLog(c, d)
            /\ d.tocommit_values = queue
            /\ ~EnoughAccepted(d.proposers[s])
            /\ UNCHANGED <<requests, answered>>
         \/ /\ c.proposers[s].status = "PHASEII" /\ Alone(Master)
            /\ answered' = Append(answered, ValueIn(c, s))
            /\ \E e : /\ Ready(e) /\ Marked(c, e, s, a, "CHOSEN")
                      /\ EnoughAccepted(e.proposers[s])
                      /\ Logged(c, e, s, ValueIn(c, s))
                      /\ e.tocommit_values = Rest(queue)
                      /\ \/ queue = <<>> /\ d = e /\ UNCHANGED requests
                         \/ /\ queue # <<>> /\ OpensSlot(e, d, Head(queue))
                            /\ Sent(OpenMsg(e, Head(queue)))

(* A message of a connection with node a never arrives. *)
Loses(a) ==
  /\ Lossy # {}
  /\ UNCHANGED <<captains, submitted, answered>>
  /\ \/ RequestTaken(Master, a) /\ UNCHANGED replies
     \/ ReplyTaken(a, Master) /\ UNCHANGED requests

MasterStep ==
  \/ \E v \in Value : Submits(v)
  \/ \E a \in Others(Master) : Hears(a) \/ Records(a) \/ Loses(a)

(* Open is OpensSlot: the acceptor of a slot that the master has not given *)
(* out has promised nothing.                                               *)
LEMMA OpenIs ==
  ASSUME OneMaster, TypeInv, NEW c, Ready(c), Follows(c, c),
         NEW v \in Value, Open(Master, c, v)
  PROVE  /\ Alone(Master) /\ OpensSlot(c, captains'[Master], v)
         /\ Sent(OpenMsg(c, v))
<1> DEFINE s == c.max_slot + 1
           p == OpenedInPhaseII(v, Master)
           last == IF TellsLast(c) THEN c.last_slot + 1 ELSE 0
           e == [c EXCEPT !.max_slot = s,
                          !.last_slot = IF TellsLast(c) THEN @ + 1 ELSE @]
           d == WithAccept(e, Master, s, p)
           m == AcceptMsg(s, p.curr_ballot, v, last, ChosenIn(c.chosen_values, last))
<1>1. /\ s \in Slot /\ captains' = [captains EXCEPT ![Master] = d]
      /\ Broadcast(Master, m)
  BY DEF Open
<1>2. /\ c \in Captains /\ LogReady(c) /\ c.max_slot \in Nat
      /\ Master \in Node /\ MasterBallot \in Nat
  BY MasterOK, CaptainFields DEF Ready
<1>3. /\ p \in Proposers /\ p.status = "PHASEII" /\ p.init_value = v
      /\ p.curr_value = v /\ p.curr_ballot = MasterBallot
      /\ \A a \in Node : p.ack_accept[a] = "none"
  BY <1>2, OpenedInPhaseIIOK, MasterOK DEF OpenedInPhaseII, NewProposer
<1>4. c.acceptors[s] = NewAcceptor
  <2>1. ~ (s =< c.max_slot)
    BY <1>2
  <2> QED
    BY <1>1, <2>1 DEF Follows
<1>5. /\ e \in Captains /\ e.max_slot = s /\ e.proposers = c.proposers
      /\ e.last_slot = IF TellsLast(c) THEN c.last_slot + 1 ELSE c.last_slot
      /\ e.acceptors = c.acceptors
      /\ e.chosen_values = c.chosen_values
      /\ e.max_chosen_without_hole = c.max_chosen_without_hole
      /\ e.tocommit_values = c.tocommit_values
  <2>1. s \in 0 .. MaxSlot
    BY <1>1, MaxSlotNat
  <2>2. TellsLast(c) => c.last_slot + 1 \in 0 .. MaxSlot
    <3>1. PICK len : len = Len(c.chosen_values)
      OBVIOUS
    <3>2. len \in Nat /\ len =< MaxSlot /\ c.last_slot \in Nat
      BY <1>2, <3>1, CaptainFields, LenProperties DEF LogReady, Logs
    <3>3. TellsLast(c) => c.last_slot + 1 \in 1 .. len
      BY <1>2, <3>1, CaptainFields, ChosenInOK DEF TellsLast
    <3> QED
      BY <3>2, <3>3, MaxSlotNat
  <2> HIDE DEF s
  <2> QED
    BY <1>2, <2>1, <2>2 DEF Captains
<1>6. m = OpenMsg(c, v)
  BY <1>3 DEF OpenMsg
<1>7. Sent(OpenMsg(c, v))
  <2>1. PICK k : k = m
    OBVIOUS
  <2>2. requests' = [requests EXCEPT ![Master] =
          [a \in Node |-> IF a = Master THEN @[a] ELSE Append(@[a], k)]]
    BY <1>1, <2>1 DEF Broadcast
  <2>3. Sent(k)
    BY <1>2, <2>2 DEF TypeInv, RequestsOK, Sent
  <2> QED
    BY <1>6, <2>1, <2>3
<1> HIDE DEF e, m, p, s
<1>8. PICK f : f = d
  OBVIOUS
<1>9. /\ captains'[Master] = f
      /\ \A x \in Node \ {Master} : captains'[x] = captains[x]
  BY <1>1, <1>2, <1>8 DEF TypeInv
<1>10. /\ f.acceptors[s] = AfterAccept(e.acceptors[s], p.curr_ballot, p.curr_value)
       /\ f.proposers[s] = WithAccepted(p, Master,
                             AcceptedReply(e.acceptors[s], p.curr_ballot))
       /\ \A t \in Slot \ {s} : /\ f.acceptors[t] = e.acceptors[t]
                                /\ f.proposers[t] = e.proposers[t]
  BY <1>1, <1>2, <1>3, <1>5, <1>8, WithAcceptOK
<1>11. /\ f.max_slot = e.max_slot
       /\ f.last_slot = e.last_slot
       /\ f.chosen_values = e.chosen_values
       /\ f.max_chosen_without_hole = e.max_chosen_without_hole
       /\ f.tocommit_values = e.tocommit_values
  BY <1>1, <1>2, <1>3, <1>5, <1>8, WithAcceptOK
<1>12. WillAccept(NewAcceptor, MasterBallot)
  BY <1>2 DEF WillAccept, NewAcceptor
<1>13. f.acceptors[s] = Voted(v)
  BY <1>3, <1>4, <1>5, <1>10, <1>12 DEF AfterAccept, Voted
<1>14. f.proposers[s] = WithAccepted(p, Master, "yes")
  BY <1>3, <1>4, <1>5, <1>10, <1>12 DEF AcceptedReply
<1>15. Fresh(f.proposers[s], v)
  BY <1>2, <1>3, <1>14 DEF Fresh, WithAccepted, Proposers
<1>16. OpensSlot(c, f, v)
  BY <1>1, <1>5, <1>10, <1>11, <1>13, <1>15 DEF OpensSlot, SameLog, s
<1> QED
  BY <1>7, <1>9, <1>16 DEF Alone

LEMMA OpensFrom ==
  ASSUME NEW c, NEW d, NEW e, NEW v, SameSlots(c, d), SameLog(c, d),
         d.tocommit_values = c.tocommit_values, OpensSlot(d, e, v)
  PROVE  OpensSlot(c, e, v) /\ OpenMsg(c, v) = OpenMsg(d, v)
<1>1. /\ d.max_slot = c.max_slot /\ d.last_slot = c.last_slot
      /\ d.chosen_values = c.chosen_values
  BY DEF SameSlots, SameLog
<1>2. TellsLast(d) <=> TellsLast(c)
  BY <1>1 DEF TellsLast
<1>3. OpenMsg(c, v) = OpenMsg(d, v)
  BY <1>1, <1>2 DEF OpenMsg
<1>4. OpensSlot(c, e, v)
  BY <1>1, <1>2 DEF OpensSlot, SameSlots, SameLog
<1> QED
  BY <1>3, <1>4

(* Captain::commit *)
LEMMA CommitIs ==
  ASSUME OneMaster, WorkInv, MasterInv, NEW n \in Node, NEW v \in Value,
         Commit(n, v)
  PROVE  Submits(v)
<1> DEFINE c == captains[Master]
           size == Cardinality(Active(c))
<1>1. PICK queue : queue = Append(c.tocommit_values, v)
  OBVIOUS
<1>2. n = Master /\ Master \in Node
  BY MasterOK DEF Commit
<1>3. /\ TypeInv /\ c \in Captains /\ Ready(c) /\ c.tocommit_values \in Seq(Value)
      /\ Follows(c, c) /\ WindowOK(c)
  BY <1>2, CaptainFields DEF WorkInv, TypeInv, MasterInv, WindowInv
<1>4. /\ IsNew(v) /\ UNCHANGED <<replies, answered>>
      /\ submitted' = [submitted EXCEPT ![Master] = Append(@, v)]
  BY <1>2 DEF Commit
<1>5. CASE size = WindowSize /\ Become(n, [c EXCEPT !.tocommit_values = queue])
  <2>1. PICK d : d = [c EXCEPT !.tocommit_values = queue]
    OBVIOUS
  <2>2. captains' = [captains EXCEPT ![Master] = d] /\ UNCHANGED requests
    BY <1>2, <1>5, <2>1 DEF Become
  <2>3. SameSlots(c, d) /\ SameLog(c, d) /\ d.tocommit_values = queue
    BY <1>3, <2>1 DEF Captains, SameSlots, SameLog
  <2>4. captains'[Master] = d /\ Alone(Master)
    BY <1>2, <1>3, <2>2 DEF TypeInv, Alone
  <2> QED
    BY <1>1, <1>4, <1>5, <2>2, <2>3, <2>4 DEF Submits
<1>6. CASE /\ size < WindowSize
           /\ Open(n, [c EXCEPT !.tocommit_values = Tail(queue)], Head(queue))
  <2>1. c.tocommit_values = <<>>
    <3>1. size # WindowSize
      BY <1>6, ActiveFinite, CaptainAssumption DEF CaptainAssumption
    <3> QED
      BY <1>3, <3>1 DEF WindowOK
  <2>2. Head(queue) = v /\ Tail(queue) = <<>>
    BY <1>1, <2>1
  <2>3. PICK e : e = WithQueue(c, <<>>)
    OBVIOUS
  <2>4. Open(Master, e, v)
    BY <1>2, <1>6, <2>2, <2>3 DEF WithQueue
  <2>5. /\ Ready(e) /\ SameSlots(c, e) /\ SameLog(c, e)
        /\ e.tocommit_values = c.tocommit_values
    <3>1. <<>> \in Seq(Value)
      OBVIOUS
    <3>2. Ready(e)
      BY <1>3, <2>3, <3>1, QueueReplaced
    <3> QED
      BY <1>3, <2>1, <2>3, <3>2 DEF WithQueue, Captains, SameSlots, SameLog
  <2>6. Follows(e, e)
    BY <1>3, <2>5 DEF Follows, SameSlots, SameLog, ValueIn
  <2>7. /\ Alone(Master) /\ OpensSlot(e, captains'[Master], v)
        /\ Sent(OpenMsg(e, v))
    BY <1>3, <2>4, <2>5, <2>6, OpenIs
  <2>8. OpensSlot(c, captains'[Master], v) /\ Sent(OpenMsg(c, v))
    BY <2>5, <2>7, OpensFrom
  <2> QED
    BY <1>4, <1>6, <2>1, <2>7, <2>8 DEF Submits
<1> QED
  BY <1>1, <1>2, <1>5, <1>6 DEF Commit

(* Taking a message off a connection *)
LEMMA TakenIs ==
  ASSUME NEW n \in Node, NEW a \in Node, TypeInv
  PROVE  /\ requests[n][a] # <<>>
              /\ requests' = [requests EXCEPT ![n][a] = Tail(@)]
                => RequestTaken(n, a)
         /\ replies[a][n] # <<>>
              /\ replies' = [replies EXCEPT ![a][n] = Tail(@)]
                => ReplyTaken(a, n)
<1>1. ASSUME requests[n][a] # <<>>,
             requests' = [requests EXCEPT ![n][a] = Tail(@)]
      PROVE  RequestTaken(n, a)
  <2>1. PICK q : q = Tail(requests[n][a])
    OBVIOUS
  <2>2. requests' = [requests EXCEPT ![n][a] = q]
    BY <1>1, <2>1
  <2> QED
    BY SMTT(30), <1>1, <2>1, <2>2 DEF RequestTaken, TypeInv, RequestsOK
<1>2. ASSUME replies[a][n] # <<>>,
             replies' = [replies EXCEPT ![a][n] = Tail(@)]
      PROVE  ReplyTaken(a, n)
  <2>1. PICK q : q = Tail(replies[a][n])
    OBVIOUS
  <2>2. replies' = [replies EXCEPT ![a][n] = q]
    BY <1>2, <2>1
  <2> QED
    BY SMTT(30), <1>2, <2>1, <2>2 DEF ReplyTaken, TypeInv, RepliesOK
<1> QED
  BY <1>1, <1>2

(* The first message is one of those the invariant speaks of. *)
LEMMA FirstRequest ==
  ASSUME TypeInv, MasterInv, NEW n \in Node, NEW a \in Node,
         requests[n][a] # <<>>
  PROVE  LET m == Head(requests[n][a])
         IN  /\ m \in Requests /\ n = Master /\ a \in Others(Master)
             /\ RequestOK(captains[Master], m) /\ m.slot \in Slot
             /\ m.last_slot \in {0} \cup Slot /\ m.value \in Value
             /\ m.last_value \in Value \cup {Null}
<1>1. PICK q, m : q = requests[n][a] /\ m = Head(q)
  OBVIOUS
<1>2. m \in Requests /\ m \in Entries(q)
  BY <1>1, TailEntries DEF TypeInv, RequestsOK
<1>3. n = Master /\ a # Master /\ RequestOK(captains[Master], m)
  BY <1>1, <1>2 DEF MasterInv, RequestsSay
<1>4. m.type = "ACCEPT"
  BY <1>3 DEF RequestOK
<1> QED
  BY <1>1, <1>2, <1>3, <1>4 DEF Requests, Others

LEMMA FirstReply ==
  ASSUME TypeInv, MasterInv, NEW n \in Node, NEW a \in Node,
         replies[a][n] # <<>>
  PROVE  LET m == Head(replies[a][n])
         IN  /\ m \in Answers /\ n = Master /\ a \in Others(Master)
             /\ AnswerOK(captains[Master], m) /\ m.slot \in Slot
<1>1. PICK q, m : q = replies[a][n] /\ m = Head(q)
  OBVIOUS
<1>2. m \in Answers /\ m \in Entries(q)
  BY <1>1, TailEntries DEF TypeInv, RepliesOK
<1>3. n = Master /\ a # Master /\ AnswerOK(captains[Master], m)
  BY <1>1, <1>2 DEF MasterInv, RepliesSay
<1> QED
  BY <1>1, <1>2, <1>3 DEF Answers, Others

LEMMA LosesIs ==
  ASSUME OneMaster, TypeInv, MasterInv, NEW n \in Node, NEW a \in Node,
         LoseRequest(n, a) \/ LoseReply(a, n)
  PROVE  \E x \in Others(Master) : Loses(x)
<1>1. UNCHANGED <<captains, submitted, answered>> /\ Lossy # {}
  BY DEF LoseRequest, LoseReply
<1>2. CASE LoseRequest(n, a)
  <2>1. n = Master /\ a \in Others(Master)
    BY <1>2, FirstRequest DEF LoseRequest
  <2>2. RequestTaken(n, a) /\ UNCHANGED replies
    BY <1>2, TakenIs DEF LoseRequest
  <2> QED
    BY <1>1, <2>1, <2>2 DEF Loses
<1>3. CASE LoseReply(a, n)
  <2>1. n = Master /\ a \in Others(Master)
    BY <1>3, FirstReply DEF LoseReply
  <2>2. ReplyTaken(a, n) /\ UNCHANGED requests
    BY <1>3, TakenIs DEF LoseReply
  <2> QED
    BY <1>1, <2>1, <2>2 DEF Loses
<1> QED
  BY <1>2, <1>3

(* Captain::re_handle_msg: the acceptor accepts whatever comes. *)
LEMMA HearsIs ==
  ASSUME OneMaster, TypeInv, MasterInv, NEW n \in Node, NEW a \in Node,
         Receive(n, a)
  PROVE  n = Master /\ a \in Others(Master) /\ Hears(a)
<1>1. PICK m \in First(requests[n][a]) :
        HandlePrepare(n, a, m) \/ HandleAccept(n, a, m)
  BY DEF Receive
<1>2. requests[n][a] # <<>> /\ m = Head(requests[n][a])
  BY DEF First
<1>3. /\ m \in Requests /\ n = Master /\ a \in Others(Master)
      /\ RequestOK(captains[Master], m) /\ m.slot \in Slot
      /\ m.last_slot \in {0} \cup Slot /\ m.value \in Value
  BY <1>2, FirstRequest
<1>4. m.type = "ACCEPT" /\ m.ballot = MasterBallot
  BY <1>3 DEF RequestOK
<1>5. HandleAccept(n, a, m)
  BY <1>1, <1>4 DEF HandlePrepare
<1>6. PICK c, acc, r, answer :
        /\ c = captains[a] /\ acc = c.acceptors[m.slot]
        /\ r = AfterAccept(acc, m.ballot, m.value)
        /\ answer = AcceptedMsg(m.slot, m.ballot, AcceptedReply(acc, m.ballot))
  OBVIOUS
<1>7. /\ c \in Captains /\ Ready(c) /\ Follows(captains[Master], c)
  BY <1>6 DEF TypeInv, MasterInv
<1>8. WillAccept(acc, m.ballot)
  <2>1. PICK v : acc = NewAcceptor \/ acc = Voted(v)
    BY <1>3, <1>6, <1>7 DEF Follows
  <2>2. Voted(v).max_proposed_ballot = MasterBallot
    BY DEF Voted
  <2> QED
    BY <1>4, <2>1, <2>2, MasterOK DEF WillAccept, NewAcceptor
<1>9. r = Voted(m.value) /\ answer = AcceptedMsg(m.slot, MasterBallot, "yes")
  BY <1>4, <1>6, <1>8 DEF AfterAccept, Voted, AcceptedReply
<1>10. r \in Acceptors
  BY <1>3, <1>9, MasterOK DEF Voted, Acceptors
<1>11. PICK d : d = [c EXCEPT !.acceptors[m.slot] = r]
  OBVIOUS
<1>12. /\ d \in Captains /\ LogReady(d)
       /\ d.acceptors = [c.acceptors EXCEPT ![m.slot] = r]
       /\ d.proposers = c.proposers
       /\ d.max_slot = c.max_slot
       /\ d.last_slot = c.last_slot
       /\ d.chosen_values = c.chosen_values
       /\ d.max_chosen_without_hole = c.max_chosen_without_hole
       /\ d.tocommit_values = c.tocommit_values
  <2>1. Ready(c) /\ m.slot \in Slot
    BY <1>3, <1>7
  <2>2. d \in Captains /\ LogReady(d)
    BY <1>10, <1>11, <2>1, AcceptorReplaced
  <2>4. d.acceptors = [c.acceptors EXCEPT ![m.slot] = r]
    BY <1>7, <1>11 DEF Captains
  <2>3. /\ d.proposers = c.proposers
        /\ d.max_slot = c.max_slot
        /\ d.last_slot = c.last_slot
        /\ d.chosen_values = c.chosen_values
        /\ d.max_chosen_without_hole = c.max_chosen_without_hole
        /\ d.tocommit_values = c.tocommit_values
    BY <1>10, <1>11, <2>1, AcceptorReplaced
  <2> QED
    BY <2>2, <2>3, <2>4
<1>13. \A t \in Slot : d.acceptors[t] =
         IF t = m.slot THEN Voted(m.value) ELSE c.acceptors[t]
  BY <1>7, <1>9, <1>12, CaptainFields
<1>14. m.last_slot # 0 =>
         /\ m.last_slot \in Slot
         /\ d.acceptors[m.last_slot] = c.acceptors[m.last_slot]
  <2>1. ASSUME m.last_slot # 0 PROVE m.last_slot \in Slot /\ m.last_slot < m.slot
    BY <1>3, <2>1 DEF RequestOK
  <2>2. ASSUME m.last_slot # 0 PROVE m.last_slot # m.slot
    BY <1>3, <2>1, <2>2, MaxSlotNat
  <2> QED
    BY <1>13, <2>1, <2>2
<1>15. RequestTaken(Master, a) /\ UNCHANGED <<submitted, answered>>
  BY <1>2, <1>3, <1>5, TakenIs DEF HandleAccept, TakeRequest
<1>16. ASSUME Reply(a, n, answer) PROVE Answered(a, answer)
  <2>1. replies' = [replies EXCEPT ![a][Master] = Append(@, answer)]
    BY <1>3, <1>16 DEF Reply
  <2>2. PICK q : q = Append(replies[a][Master], answer)
    OBVIOUS
  <2>3. replies' = [replies EXCEPT ![a][Master] = q]
    BY <2>1, <2>2
  <2> QED
    BY <1>3, <2>2, <2>3, MasterOK DEF TypeInv, RepliesOK, Answered
<1>17. PICK e : /\ captains' = [captains EXCEPT ![a] = e]
                /\ \/ e = d /\ Knows(d, m) /\ UNCHANGED replies
                   \/ /\ Learns(d, m) /\ Reply(a, n, answer)
                      /\ e = WithChosen(d, m.last_slot,
                                        d.acceptors[m.last_slot].max_value)
                   \/ /\ e = d /\ ~Knows(d, m) /\ ~Learns(d, m)
                      /\ Reply(a, n, answer)
  <2>1. \/ /\ captains' = [captains EXCEPT ![a] = d]
           /\ Knows(d, m) /\ UNCHANGED replies
        \/ /\ Learns(d, m) /\ Reply(a, n, answer)
           /\ captains' = [captains EXCEPT ![a] =
                WithChosen(d, m.last_slot, d.acceptors[m.last_slot].max_value)]
        \/ /\ captains' = [captains EXCEPT ![a] = d]
           /\ ~Knows(d, m) /\ ~Learns(d, m) /\ Reply(a, n, answer)
    BY <1>5, <1>6, <1>11 DEF HandleAccept
  <2> QED
    BY <2>1
<1>18. captains'[a] = e /\ Alone(a)
  BY <1>17 DEF TypeInv, Alone
<1>19. ASSUME e = d, Knows(d, m), UNCHANGED replies
       PROVE  HearsIn(a, c, e, m)
  <2>1. m.last_slot # 0 /\ ChosenIn(c.chosen_values, m.last_slot) # Null
    BY <1>12, <1>19 DEF Knows
  <2>2. SameLog(c, e)
    BY <1>12, <1>19 DEF SameLog
  <2> QED
    BY <1>12, <1>13, <1>19, <2>1, <2>2 DEF HearsIn
<1>20. ASSUME Learns(d, m), Reply(a, n, answer),
              e = WithChosen(d, m.last_slot, d.acceptors[m.last_slot].max_value)
       PROVE  HearsIn(a, c, e, m)
  <2>1. PICK s, v : s = m.last_slot /\ v = d.acceptors[s].max_value
    OBVIOUS
  <2>2. /\ s # 0 /\ ChosenIn(c.chosen_values, s) = Null
        /\ c.acceptors[s].max_value = m.last_value
        /\ s \in Slot /\ v = m.last_value
    BY <1>12, <1>14, <1>20, <2>1 DEF Learns, Knows
  <2>3. v \in Value \cup {Null}
    BY <1>12, <2>1, <2>2, CaptainFields DEF Acceptors
  <2>4. /\ e.chosen_values = LogWith(d.chosen_values, s, v)
        /\ e.max_chosen_without_hole = DeliverFrom(e.chosen_values,
                                         d.max_chosen_without_hole)
        /\ e.acceptors = d.acceptors
        /\ e.proposers = d.proposers
        /\ e.max_slot = d.max_slot
        /\ e.last_slot = d.last_slot
        /\ e.tocommit_values = d.tocommit_values
    BY <1>12, <1>20, <2>1, <2>2, <2>3, WithChosenOK
  <2>5. Logged(c, e, m.last_slot, m.last_value)
    BY <1>12, <2>1, <2>2, <2>4 DEF Logged
  <2>6. Answered(a, AcceptedMsg(m.slot, MasterBallot, "yes"))
    BY <1>9, <1>16, <1>20
  <2> QED
    BY <1>12, <1>13, <2>1, <2>2, <2>4, <2>5, <2>6 DEF HearsIn
<1>21. ASSUME e = d, ~Knows(d, m), ~Learns(d, m), Reply(a, n, answer)
       PROVE  HearsIn(a, c, e, m)
  <2>1. \/ m.last_slot = 0
        \/ /\ ChosenIn(c.chosen_values, m.last_slot) = Null
           /\ ~(c.acceptors[m.last_slot].max_value = m.last_value)
    BY <1>12, <1>14, <1>21 DEF Knows, Learns
  <2>2. SameLog(c, e)
    BY <1>12, <1>21 DEF SameLog
  <2>3. Answered(a, AcceptedMsg(m.slot, MasterBallot, "yes"))
    BY <1>9, <1>16, <1>21
  <2> QED
    BY <1>12, <1>13, <1>21, <2>1, <2>2, <2>3 DEF HearsIn
<1>22. HearsIn(a, c, e, m)
  BY <1>17, <1>19, <1>20, <1>21
<1> QED
  BY <1>2, <1>3, <1>6, <1>15, <1>18, <1>22 DEF Hears

(* CHOOSE: the value is the master's own. *)
LEMMA ChooseIs ==
  ASSUME OneMaster, TypeInv, MasterInv, NEW c, c = captains[Master],
         NEW s \in Active(c), s =< c.max_slot, NEW a \in Node,
         NEW p, p = WithAccepted(c.proposers[s], a, "yes"),
         EnoughAccepted(p), Choose(Master, c, s, p)
  PROVE  /\ Alone(Master)
         /\ answered' = Append(answered, ValueIn(c, s))
         /\ \E e : /\ Ready(e) /\ Marked(c, e, s, a, "CHOSEN")
                   /\ EnoughAccepted(e.proposers[s])
                   /\ Logged(c, e, s, ValueIn(c, s))
                   /\ e.tocommit_values = Rest(c.tocommit_values)
                   /\ LET queue == c.tocommit_values
                      IN  \/ /\ queue = <<>> /\ captains'[Master] = e
                             /\ UNCHANGED requests
                          \/ /\ queue # <<>>
                             /\ OpensSlot(e, captains'[Master], Head(queue))
                             /\ Sent(OpenMsg(e, Head(queue)))
<1>1. PICK q, b, d, queue, v :
        /\ q = Chosen(p) /\ b = WithProposer(c, s, q) /\ v = ValueIn(c, s)
        /\ d = WithChosen(b, s, v) /\ queue = c.tocommit_values
  OBVIOUS
<1>2. /\ Master \in Node /\ c \in Captains /\ Ready(c) /\ s \in Slot
      /\ Follows(c, c) /\ Unopposed(c)
  BY MasterOK DEF TypeInv, MasterInv, Active
<1>3. /\ c.proposers[s] \in Proposers /\ ProposerReady(c.proposers[s])
      /\ c.proposers[s].status # "EMPTY" /\ queue \in Seq(Value)
      /\ c.proposers[s].curr_value = v /\ v \in Value
  BY <1>1, <1>2, CaptainFields DEF Ready, Active, ProposerReady, Unopposed, ValueIn
<1>4. /\ p \in Proposers /\ p.init_value = v /\ p.curr_value = v
      /\ p.status = c.proposers[s].status
      /\ p.curr_ballot = c.proposers[s].curr_ballot
      /\ p.ack_accept = [c.proposers[s].ack_accept EXCEPT ![a] = "yes"]
  BY <1>1, <1>3 DEF WithAccepted, Proposers, Replies, ValueIn
<1>5. /\ q \in Proposers /\ q.status = "CHOSEN" /\ q.init_value = v
      /\ q.curr_value = v /\ q.curr_ballot = c.proposers[s].curr_ballot
      /\ q.ack_accept = [c.proposers[s].ack_accept EXCEPT ![a] = "yes"]
  BY <1>1, <1>4 DEF Chosen, Proposers
<1>6. EnoughAccepted(q)
  BY ZenonT(60), <1>4, <1>5 DEF EnoughAccepted
<1>7. /\ ProposerReady(q) /\ q.status # "EMPTY" /\ ~Working(q)
      /\ \A n \in Node : q.ack_accept[n] =
           IF n = a THEN "yes" ELSE c.proposers[s].ack_accept[n]
  BY <1>3, <1>5 DEF ProposerReady, Working, Proposers
<1>8. /\ b \in Captains /\ Ready(b) /\ LogReady(b)
      /\ b.proposers = [c.proposers EXCEPT ![s] = q]
  BY SMTT(30), <1>1, <1>2, <1>5, <1>7, ProposerKept
<1>9. /\ b.acceptors = c.acceptors
      /\ b.max_slot = c.max_slot
      /\ b.last_slot = c.last_slot
      /\ b.chosen_values = c.chosen_values
      /\ b.max_chosen_without_hole = c.max_chosen_without_hole
      /\ b.tocommit_values = c.tocommit_values
  BY <1>1, <1>2 DEF WithProposer, Captains
<1>10. /\ d \in Captains /\ LogReady(d)
       /\ d.chosen_values = LogWith(b.chosen_values, s, v)
       /\ d.max_chosen_without_hole = DeliverFrom(d.chosen_values,
                                        b.max_chosen_without_hole)
  BY <1>1, <1>2, <1>3, <1>8, WithChosenOK
<1>11. /\ d.acceptors = b.acceptors
       /\ d.proposers = b.proposers
       /\ d.max_slot = b.max_slot
       /\ d.last_slot = b.last_slot
       /\ d.tocommit_values = b.tocommit_values
  BY <1>1, <1>2, <1>3, <1>8, WithChosenOK
<1>12. Ready(d)
  BY <1>8, <1>10, <1>11, ProposersKept
<1>13. /\ d.proposers[s] = q
       /\ \A t \in Slot \ {s} : d.proposers[t] = c.proposers[t]
  BY <1>2, <1>8, <1>11, CaptainFields
<1>14. Marked(c, d, s, a, "CHOSEN") /\ Logged(c, d, s, v)
  <2>1. q.init_value = c.proposers[s].init_value
    BY <1>1, <1>5 DEF ValueIn
  <2>3. q.curr_value = c.proposers[s].curr_value
    BY <1>3, <1>5
  <2>4. /\ d.acceptors = c.acceptors
        /\ d.max_slot = c.max_slot /\ d.last_slot = c.last_slot
    BY <1>9, <1>11
  <2>5. Marked(c, d, s, a, "CHOSEN")
    BY <1>5, <1>7, <1>13, <2>1, <2>3, <2>4 DEF Marked
  <2>2. Logged(c, d, s, v)
    BY <1>9, <1>10 DEF Logged
  <2> QED
    BY <2>2, <2>5
<1>15. EnoughAccepted(d.proposers[s])
  BY <1>6, <1>13
<1>16. /\ answered' = Append(answered, v)
       /\ \/ queue = <<>> /\ Become(Master, d)
          \/ /\ queue # <<>>
             /\ Open(Master, WithQueue(d, Tail(queue)), Head(queue))
  BY <1>1, <1>4, <1>9, <1>11 DEF Choose, WithProposer, WithQueue
<1>17. CASE queue = <<>> /\ Become(Master, d)
  <2>1. captains'[Master] = d /\ Alone(Master) /\ UNCHANGED requests
    BY <1>2, <1>17 DEF Become, TypeInv, Alone
  <2>2. d.tocommit_values = Rest(queue)
    BY <1>1, <1>9, <1>11, <1>17 DEF Rest
  <2> QED
    BY <1>1, <1>12, <1>14, <1>15, <1>16, <1>17, <2>1, <2>2
<1>18. CASE /\ queue # <<>>
            /\ Open(Master, WithQueue(d, Tail(queue)), Head(queue))
  <2>1. PICK e, h, t : t = Tail(queue) /\ h = Head(queue) /\ e = WithQueue(d, t)
    OBVIOUS
  <2>2. t \in Seq(Value) /\ h \in Value
    BY <1>3, <1>18, <2>1, HeadTailProperties
  <2>3. Ready(e) /\ e.proposers = d.proposers /\ e.tocommit_values = t
    BY ZenonT(60), <1>12, <2>1, <2>2, QueueReplaced
  <2>4. /\ e.acceptors = d.acceptors
        /\ e.max_slot = d.max_slot
        /\ e.last_slot = d.last_slot
        /\ e.chosen_values = d.chosen_values
        /\ e.max_chosen_without_hole = d.max_chosen_without_hole
    BY <1>10, <2>1 DEF WithQueue, Captains
  <2>5. /\ Marked(c, e, s, a, "CHOSEN") /\ Logged(c, e, s, v)
        /\ EnoughAccepted(e.proposers[s]) /\ e.tocommit_values = Rest(queue)
    <3>1. Marked(c, e, s, a, "CHOSEN")
      BY <1>14, <2>3, <2>4 DEF Marked
    <3>2. Logged(c, e, s, v)
      BY <1>14, <2>4 DEF Logged
    <3> QED
      BY <1>15, <1>18, <2>1, <2>3, <3>1, <3>2 DEF Rest
  <2>6. Follows(e, e)
    <3>1. /\ e.acceptors = c.acceptors /\ e.max_slot = c.max_slot
          /\ \A t1 \in Slot : ValueIn(e, t1) = ValueIn(c, t1)
      <4>1. q.init_value = ValueIn(c, s)
        BY <1>1, <1>5
      <4> QED
        BY <1>9, <1>11, <1>13, <2>3, <2>4, <4>1 DEF ValueIn
    <3>2. \A i \in Slot : ChosenIn(e.chosen_values, i) =
            IF i = s /\ ChosenIn(c.chosen_values, s) = Null
            THEN v ELSE ChosenIn(c.chosen_values, i)
      <4>1. /\ c.chosen_values \in Logs /\ s \in Nat /\ v \in Value \cup {Null}
            /\ e.chosen_values = LogWith(c.chosen_values, s, v)
            /\ Slot \subseteq Nat \ {0}
        BY <1>2, <1>3, <1>9, <1>10, <2>4, CaptainFields, MaxSlotNat
      <4>2. \A i \in Nat \ {0} : ChosenIn(e.chosen_values, i) =
              IF i = s /\ ChosenIn(c.chosen_values, s) = Null
              THEN v ELSE ChosenIn(c.chosen_values, i)
        BY <4>1, LogWithOK
      <4> QED
        BY <4>1, <4>2
    <3> QED
      BY <1>1, <1>2, <3>1, <3>2 DEF Follows
  <2>7. Open(Master, e, h)
    BY <1>18, <2>1
  <2>8. /\ Alone(Master) /\ OpensSlot(e, captains'[Master], h)
        /\ Sent(OpenMsg(e, h))
    BY <2>2, <2>3, <2>6, <2>7, OpenIs
  <2>9. /\ OpensSlot(e, captains'[Master], Head(queue))
        /\ Sent(OpenMsg(e, Head(queue)))
    BY <2>1, <2>8
  <2> QED
    BY <1>1, <1>16, <1>18, <2>3, <2>5, <2>8, <2>9
<1> QED
  BY <1>16, <1>17, <1>18

(* Captain::handle_msg: no answer says no. *)
LEMMA RecordsIs ==
  ASSUME OneMaster, TypeInv, MasterInv, NEW n \in Node, NEW a \in Node,
         ReceiveAnswer(a, n)
  PROVE  n = Master /\ a \in Others(Master) /\ Records(a)
<1>1. PICK m \in First(replies[a][n]) :
        \/ DropPromise(a, n, m) \/ HandlePromise(a, n, m)
        \/ DropAccepted(a, n, m) \/ HandleAccepted(a, n, m)
  BY DEF ReceiveAnswer
<1>2. replies[a][n] # <<>> /\ m = Head(replies[a][n])
  BY DEF First
<1>3. /\ m \in Answers /\ n = Master /\ a \in Others(Master)
      /\ AnswerOK(captains[Master], m) /\ m.slot \in Slot
  BY <1>2, FirstReply
<1>4. PICK c, s, old : /\ c = captains[Master] /\ s = m.slot
                       /\ old = c.proposers[s]
  OBVIOUS
<1>5. /\ m.type = "ACCEPTED" /\ m.ballot = MasterBallot /\ m.reply = "yes"
      /\ s =< c.max_slot
  BY <1>3, <1>4 DEF AnswerOK
<1>6. DropAccepted(a, n, m) \/ HandleAccepted(a, n, m)
  BY <1>1, <1>5 DEF DropPromise, HandlePromise
<1>7. /\ c \in Captains /\ Ready(c) /\ old \in Proposers
      /\ ProposerReady(old) /\ Unopposed(c)
      /\ old.curr_ballot = MasterBallot /\ MasterBallot \in Nat
      /\ \A x \in Node : old.ack_accept[x] # "no"
  <2>1. c \in Captains /\ Ready(c) /\ Unopposed(c)
    BY <1>4, MasterOK DEF TypeInv, MasterInv
  <2>2. s \in Slot
    BY <1>3, <1>4
  <2>3. old \in Proposers /\ ProposerReady(old)
    BY <1>4, <2>1, <2>2, CaptainFields DEF Ready
  <2>4. /\ old.curr_ballot = MasterBallot
        /\ \A x \in Node : old.ack_accept[x] # "no"
    BY <1>4, <1>5, <2>1, <2>2 DEF Unopposed
  <2> QED
    BY <2>1, <2>3, <2>4, MasterOK
<1>8. TakesAccepted(old, m) <=> old.status = "PHASEII"
  BY <1>5, <1>7, NullAssumption
  DEF TakesAccepted, DropsAccepted, ProposerReady
<1>9. /\ ReplyTaken(a, Master) /\ UNCHANGED submitted
  BY <1>2, <1>3, <1>6, TakenIs DEF DropAccepted, HandleAccepted, TakeReply
<1>10. s = Head(replies[a][Master]).slot
  BY <1>2, <1>3, <1>4
<1>11. CASE DropAccepted(a, n, m)
  <2>1. /\ old.status # "PHASEII" /\ UNCHANGED <<captains, requests, answered>>
    BY <1>3, <1>4, <1>8, <1>11 DEF DropAccepted
  <2> QED
    BY <1>3, <1>4, <1>9, <1>10, <2>1 DEF Records
<1>12. CASE HandleAccepted(a, n, m)
  <2>1. PICK p : p = WithAccepted(old, a, "yes")
    OBVIOUS
  <2>2. /\ old.status = "PHASEII"
        /\ \/ /\ ~EnoughAccepted(p)
              /\ Become(Master, WithProposer(c, s, p)) /\ UNCHANGED answered
           \/ EnoughAccepted(p) /\ AcceptedByQuorum(p) /\ Choose(Master, c, s, p)
           \/ EnoughAccepted(p) /\ ~AcceptedByQuorum(p)
    BY <1>3, <1>4, <1>5, <1>8, <1>12, <2>1 DEF HandleAccepted, WithProposer
  <2>3. /\ p \in Proposers /\ p.status = "PHASEII"
        /\ p.init_value = old.init_value /\ p.curr_value = old.curr_value
        /\ p.curr_ballot = old.curr_ballot
        /\ p.ack_accept = [old.ack_accept EXCEPT ![a] = "yes"]
    BY <1>7, <2>1, <2>2 DEF WithAccepted, Proposers, Replies
  <2>4. \A x \in Node : p.ack_accept[x] = IF x = a THEN "yes" ELSE old.ack_accept[x]
    BY <1>7, <2>3 DEF Proposers
  <2>5. s \in Active(c) /\ s \in Slot
    BY <1>3, <1>4, <2>2 DEF Active
  <2>6. CASE ~EnoughAccepted(p) /\ Become(Master, WithProposer(c, s, p))
             /\ UNCHANGED answered
    <3>1. PICK d : d = WithProposer(c, s, p)
      OBVIOUS
    <3>2. captains'[Master] = d /\ Alone(Master) /\ UNCHANGED requests
      BY <1>4, <2>6, <3>1, MasterOK DEF Become, TypeInv, Alone
    <3>3. ProposerReady(p) /\ p.status # "EMPTY"
      BY <1>7, <2>2, <2>3 DEF ProposerReady
    <3>4. d.proposers = [c.proposers EXCEPT ![s] = p]
      BY <1>7, <2>3, <2>5, <3>1, <3>3, ProposerKept
    <3>5. /\ d.acceptors = c.acceptors
          /\ d.max_slot = c.max_slot
          /\ d.last_slot = c.last_slot
          /\ d.chosen_values = c.chosen_values
          /\ d.max_chosen_without_hole = c.max_chosen_without_hole
          /\ d.tocommit_values = c.tocommit_values
      BY <1>7, <3>1 DEF WithProposer, Captains
    <3>6. /\ d.proposers[s] = p
          /\ \A t \in Slot \ {s} : d.proposers[t] = c.proposers[t]
      BY <1>7, <2>5, <3>4, CaptainFields
    <3>7. Marked(c, d, s, a, "PHASEII") /\ SameLog(c, d)
      BY <1>4, <2>3, <2>4, <3>5, <3>6 DEF Marked, SameLog
    <3> QED
      BY <1>3, <1>4, <1>9, <1>10, <2>2, <2>6, <3>2, <3>5, <3>6, <3>7 DEF Records
  <2>7. CASE EnoughAccepted(p) /\ Choose(Master, c, s, p)
    <3>1. EnoughAccepted(p) /\ Choose(Master, c, s, p) /\ a \in Node
      BY <2>7
    <3>2. /\ Alone(Master)
          /\ answered' = Append(answered, ValueIn(c, s))
          /\ \E e : /\ Ready(e) /\ Marked(c, e, s, a, "CHOSEN")
                    /\ EnoughAccepted(e.proposers[s])
                    /\ Logged(c, e, s, ValueIn(c, s))
                    /\ e.tocommit_values = Rest(c.tocommit_values)
                    /\ LET queue == c.tocommit_values
                       IN  \/ /\ queue = <<>> /\ captains'[Master] = e
                              /\ UNCHANGED requests
                           \/ /\ queue # <<>>
                              /\ OpensSlot(e, captains'[Master], Head(queue))
                              /\ Sent(OpenMsg(e, Head(queue)))
      BY <1>4, <1>5, <2>1, <2>5, <3>1, ChooseIs
    <3> QED
      BY <1>3, <1>4, <1>9, <1>10, <2>2, <3>2 DEF Records
  <2>8. EnoughAccepted(p) => AcceptedByQuorum(p)
    <3>1. \A x \in Node : p.ack_accept[x] # "none" <=> p.ack_accept[x] = "yes"
      BY <1>7, <2>3, <2>4 DEF Proposers, Replies
    <3>2. {x \in Node : p.ack_accept[x] # "none"} = AcceptedBy(p, "yes")
      BY <3>1 DEF AcceptedBy
    <3> QED
      BY <3>2 DEF EnoughAccepted, AcceptedByQuorum
  <2> QED
    BY <1>3, <2>2, <2>6, <2>7, <2>8
<1> QED
  BY <1>6, <1>11, <1>12

(* Every step of the captains is one of those. *)
LEMMA NextMaster ==
  OneMaster /\ WorkInv /\ MasterInv /\ Next => MasterStep
<1> SUFFICES ASSUME OneMaster, WorkInv, MasterInv, Next PROVE MasterStep
  OBVIOUS
<1>1. TypeInv
  BY DEF WorkInv
<1>2. CASE \E n \in Node, v \in Value : Commit(n, v)
  BY <1>2, CommitIs DEF MasterStep
<1>3. CASE \E n, a \in Node : Receive(n, a)
  BY <1>1, <1>3, HearsIs DEF MasterStep
<1>4. CASE \E n, a \in Node : ReceiveAnswer(a, n)
  BY <1>1, <1>4, RecordsIs DEF MasterStep
<1>5. CASE \E n, a \in Node : LoseRequest(n, a)
  BY <1>1, <1>5, LosesIs DEF MasterStep
<1>6. CASE \E n, a \in Node : LoseReply(a, n)
  BY <1>1, <1>6, LosesIs DEF MasterStep
<1> QED
  BY <1>2, <1>3, <1>4, <1>5, <1>6 DEF Next

-----------------------------------------------------------------------------
(* The invariant *)

LEMMA InitMaster == OneMaster /\ Init => MasterInv
<1> SUFFICES ASSUME OneMaster, Init PROVE MasterInv
  OBVIOUS
<1>1. PICK c : c = NewCaptain
  OBVIOUS
<1>2. \A n \in Node : captains[n] = c
  BY <1>1 DEF Init
<1>3. /\ \A s \in Slot : /\ c.acceptors[s] = NewAcceptor
                         /\ c.proposers[s] = NewProposer(Null)
                         /\ ~(s =< c.max_slot) /\ ~(s =< c.last_slot)
      /\ \A s : ChosenIn(c.chosen_values, s) = Null
  <2>1. DOMAIN <<>> = {}
    OBVIOUS
  <2> QED
    BY <1>1, <2>1, MaxSlotNat DEF NewCaptain, ChosenIn
<1>4. NewProposer(Null).status = "EMPTY"
  BY NewProposerOK
<1>5. Unopposed(c) /\ OwnLog(c) /\ ToldLog(c) /\ Follows(c, c)
  BY <1>3, <1>4 DEF Unopposed, OwnLog, ToldLog, Follows
<1>6. RequestsSay(requests, c) /\ RepliesSay(replies, c)
  BY EmptyEntries DEF Init, RequestsSay, RepliesSay
<1> QED
  BY <1>2, <1>5, <1>6, MasterOK DEF MasterInv

(* Messages stay true as the master goes on, and when one is taken. *)
LEMMA MessagesKept ==
  ASSUME NEW c \in Captains, NEW d \in Captains, Grows(c, d), TypeInv
  PROVE  /\ RequestsSay(requests, c) => RequestsSay(requests, d)
         /\ RepliesSay(replies, c) => RepliesSay(replies, d)
<1>1. \A n, a \in Node : /\ Entries(requests[n][a]) \subseteq Requests
                         /\ Entries(replies[a][n]) \subseteq Answers
  <2> SUFFICES ASSUME NEW n \in Node, NEW a \in Node
               PROVE  /\ Entries(requests[n][a]) \subseteq Requests
                      /\ Entries(replies[a][n]) \subseteq Answers
    OBVIOUS
  <2>1. requests[n][a] \in Seq(Requests) /\ replies[a][n] \in Seq(Answers)
    BY DEF TypeInv, RequestsOK, RepliesOK
  <2> QED
    BY <2>1, ElementOfSeq, LenProperties DEF Entries
<1>2. \A m \in Requests : RequestOK(c, m) => RequestOK(d, m)
  BY GrowsKeeps
<1>3. \A m \in Answers : AnswerOK(c, m) => AnswerOK(d, m)
  BY GrowsKeeps
<1> QED
  BY <1>1, <1>2, <1>3 DEF RequestsSay, RepliesSay

LEMMA MessagesTaken ==
  ASSUME NEW n \in Node, NEW a \in Node, NEW c, TypeInv
  PROVE  /\ RequestsSay(requests, c) /\ RequestTaken(n, a)
              => RequestsSay(requests', c)
         /\ RepliesSay(replies, c) /\ ReplyTaken(a, n)
              => RepliesSay(replies', c)
<1>1. ASSUME RequestsSay(requests, c), RequestTaken(n, a)
      PROVE  RequestsSay(requests', c)
  <2>1. PICK q : q = requests[n][a]
    OBVIOUS
  <2>2. Entries(Tail(q)) \subseteq Entries(q)
    BY <1>1, <2>1, TailEntries DEF TypeInv, RequestsOK, RequestTaken
  <2>3. \A x, y \in Node : Entries(requests'[x][y]) \subseteq Entries(requests[x][y])
    BY <1>1, <2>1, <2>2 DEF RequestTaken
  <2> QED
    BY <1>1, <2>3 DEF RequestsSay
<1>2. ASSUME RepliesSay(replies, c), ReplyTaken(a, n)
      PROVE  RepliesSay(replies', c)
  <2>1. PICK q : q = replies[a][n]
    OBVIOUS
  <2>2. Entries(Tail(q)) \subseteq Entries(q)
    BY <1>2, <2>1, TailEntries DEF TypeInv, RepliesOK, ReplyTaken
  <2>3. \A x, y \in Node : Entries(replies'[x][y]) \subseteq Entries(replies[x][y])
    BY <1>2, <2>1, <2>2 DEF ReplyTaken
  <2> QED
    BY <1>2, <2>3 DEF RepliesSay
<1> QED
  BY <1>1, <1>2

LEMMA MessagesSent ==
  ASSUME NEW c, TypeInv
  PROVE  /\ \A m \in Requests : RequestsSay(requests, c) /\ Sent(m)
              /\ RequestOK(c, m) => RequestsSay(requests', c)
         /\ \A m \in Answers, a \in Others(Master) :
              RepliesSay(replies, c) /\ Answered(a, m) /\ AnswerOK(c, m)
                => RepliesSay(replies', c)
<1>1. ASSUME NEW m \in Requests, RequestsSay(requests, c), Sent(m),
             RequestOK(c, m)
      PROVE  RequestsSay(requests', c)
  <2> SUFFICES ASSUME NEW x \in Node, NEW y \in Node,
                      NEW k \in Entries(requests'[x][y])
               PROVE  x = Master /\ y # Master /\ RequestOK(c, k)
    BY DEF RequestsSay
  <2>1. CASE x = Master /\ y # Master
    <3>1. PICK q : q = requests[x][y]
      OBVIOUS
    <3>2. q \in Seq(Requests) /\ requests'[x][y] = Append(q, m)
      BY <1>1, <2>1, <3>1 DEF TypeInv, RequestsOK, Sent
    <3>3. k \in Entries(q) \/ k = m
      BY <3>2, AppendEntries
    <3> QED
      BY <1>1, <2>1, <3>1, <3>3 DEF RequestsSay
  <2>2. CASE ~(x = Master /\ y # Master)
    <3>1. requests'[x][y] = requests[x][y]
      BY <1>1, <2>2 DEF Sent
    <3> QED
      BY <1>1, <3>1 DEF RequestsSay
  <2> QED
    BY <2>1, <2>2
<1>2. ASSUME NEW m \in Answers, NEW a \in Others(Master),
             RepliesSay(replies, c), Answered(a, m), AnswerOK(c, m)
      PROVE  RepliesSay(replies', c)
  <2> SUFFICES ASSUME NEW y \in Node, NEW x \in Node,
                      NEW k \in Entries(replies'[x][y])
               PROVE  y = Master /\ x # Master /\ AnswerOK(c, k)
    BY DEF RepliesSay
  <2>1. CASE x = a /\ y = Master
    <3>1. PICK q : q = replies[x][y]
      OBVIOUS
    <3>2. q \in Seq(Answers) /\ replies'[x][y] = Append(q, m)
      BY <1>2, <2>1, <3>1 DEF TypeInv, RepliesOK, Answered
    <3>3. k \in Entries(q) \/ k = m
      BY <1>2, <3>2, AppendEntries
    <3> QED
      BY <1>2, <2>1, <3>1, <3>3 DEF RepliesSay, Others
  <2>2. CASE ~(x = a /\ y = Master)
    <3>1. replies'[x][y] = replies[x][y]
      BY <1>2, <2>2 DEF Answered
    <3> QED
      BY <1>2, <3>1 DEF RepliesSay
  <2> QED
    BY <2>1, <2>2
<1> QED
  BY <1>1, <1>2

Sound(c) == Unopposed(c) /\ OwnLog(c) /\ ToldLog(c) /\ Follows(c, c)

(* The master opens a slot. *)
LEMMA OpensSound ==
  ASSUME OneMaster, NEW c, Ready(c), Sound(c), NEW d, Ready(d),
         NEW v \in Value, OpensSlot(c, d, v)
  PROVE  /\ Sound(d) /\ Grows(c, d)
         /\ OpenMsg(c, v) \in Requests /\ RequestOK(d, OpenMsg(c, v))
<1> DEFINE s == c.max_slot + 1
           told == c.last_slot + 1
           last == IF TellsLast(c) THEN told ELSE 0
           log == c.chosen_values
<1>1. /\ c \in Captains /\ d \in Captains /\ log \in Logs
      /\ c.max_slot \in Nat /\ c.last_slot \in Nat
      /\ Len(log) \in Nat /\ Len(log) =< MaxSlot
      /\ MaxSlot \in Nat /\ Slot = 1 .. MaxSlot
      /\ Master \in Node /\ MasterBallot \in Nat
  BY MasterOK, MaxSlotNat, CaptainFields, LenProperties
  DEF Ready, LogReady, Logs
<1>2. /\ s \in Slot /\ d.max_slot = s
      /\ d.last_slot = IF TellsLast(c) THEN told ELSE c.last_slot
      /\ SameLog(c, d)
      /\ \A t \in Slot \ {s} : /\ d.acceptors[t] = c.acceptors[t]
                               /\ d.proposers[t] = c.proposers[t]
      /\ d.acceptors[s] = Voted(v)
      /\ Fresh(d.proposers[s], v)
  BY DEF OpensSlot
<1>3. ASSUME TellsLast(c)
      PROVE  /\ told \in Slot /\ ChosenIn(log, told) = ValueIn(c, told)
             /\ c.proposers[told].status = "CHOSEN" /\ told =< c.max_slot
  <2>1. ChosenIn(log, told) # Null
    BY <1>3 DEF TellsLast
  <2>2. told \in 1 .. Len(log)
    BY <1>1, <2>1, ChosenInOK
  <2>3. told \in Slot
    <3>1. PICK len : len = Len(log)
      OBVIOUS
    <3> QED
      BY <1>1, <2>2, <3>1
  <2>4. c.proposers[told].status = "CHOSEN" /\ ChosenIn(log, told) = ValueIn(c, told)
    BY <2>1, <2>3 DEF Sound, OwnLog
  <2>5. ~(told > c.max_slot)
    BY <2>3, <2>4 DEF Ready
  <2> QED
    BY <1>1, <2>3, <2>4, <2>5
<1>3a. s \in Slot /\ d.max_slot = s
  BY <1>2
<1>3b. \A t \in Slot \ {s} : /\ d.acceptors[t] = c.acceptors[t]
                             /\ d.proposers[t] = c.proposers[t]
  BY <1>2
<1>4. \A t \in Slot : /\ t \in Nat /\ t > 0
                      /\ t =< s <=> (t =< c.max_slot \/ t = s)
                      /\ t =< c.max_slot => t # s
  BY <1>1
<1> HIDE DEF log, s, told
<1>5. c.proposers[s].status = "EMPTY"
  <2>1. ~(s =< c.max_slot)
    BY <1>4, <1>3a
  <2>2. s > c.max_slot
    BY <1>1, <1>4, <1>3a, <2>1
  <2> QED
    BY <1>2, <2>2 DEF Ready
<1>6. Grows(c, d)
  <2>1. d.last_slot = IF TellsLast(c) THEN told ELSE c.last_slot
    BY <1>2
  <2>2. c.last_slot =< d.last_slot
    BY <1>1, <2>1 DEF told
  <2>3. c.max_slot =< d.max_slot
    BY <1>1, <1>2 DEF s
  <2>4. \A t \in Slot : t =< c.max_slot => ValueIn(d, t) = ValueIn(c, t)
    BY <1>4, <1>3b DEF ValueIn
  <2> QED
    BY <2>2, <2>3, <2>4 DEF Grows
<1>7. Unopposed(d)
  <2> SUFFICES ASSUME NEW t \in Slot, t =< d.max_slot
               PROVE  LET p == d.proposers[t]
                      IN  /\ p.status \in {"PHASEII", "CHOSEN"}
                          /\ p.curr_ballot = MasterBallot
                          /\ p.curr_value = p.init_value
                          /\ \A a \in Node : p.ack_accept[a] # "no"
    BY DEF Unopposed
  <2>1. CASE t = s
    BY <1>2, <2>1 DEF Fresh
  <2>2. CASE t # s
    <3>1. t =< c.max_slot /\ d.proposers[t] = c.proposers[t]
      BY <1>4, <1>3a, <1>3b, <2>2
    <3> QED
      BY <3>1 DEF Sound, Unopposed
  <2> QED
    BY <2>1, <2>2
<1>8. OwnLog(d)
  <2> SUFFICES ASSUME NEW t \in Slot
               PROVE  ChosenIn(d.chosen_values, t) =
                        IF d.proposers[t].status = "CHOSEN"
                        THEN ValueIn(d, t) ELSE Null
    BY DEF OwnLog
  <2>1. d.chosen_values = log
    BY <1>2 DEF SameLog, log
  <2>2. ChosenIn(log, t) = IF c.proposers[t].status = "CHOSEN"
                           THEN ValueIn(c, t) ELSE Null
    BY DEF Sound, OwnLog, log
  <2>3. CASE t = s
    BY <1>2, <1>5, <2>1, <2>2, <2>3 DEF Fresh
  <2>4. CASE t # s
    <3>1. d.proposers[t] = c.proposers[t]
      BY <1>2, <2>4
    <3> QED
      BY <2>1, <2>2, <3>1 DEF ValueIn
  <2> QED
    BY <2>3, <2>4
<1>9. ToldLog(d)
  <2> SUFFICES ASSUME NEW t \in Slot, t =< d.last_slot
               PROVE  d.proposers[t].status = "CHOSEN"
    BY DEF ToldLog
  <2>1. t =< c.last_slot \/ (TellsLast(c) /\ t = told)
    <3>1. PICK l : l = d.last_slot
      OBVIOUS
    <3>2. l = IF TellsLast(c) THEN told ELSE c.last_slot
      BY <1>2, <3>1
    <3> QED
      BY <1>1, <1>4, <3>1, <3>2 DEF told
  <2>2. c.proposers[t].status = "CHOSEN"
    BY <1>3, <2>1 DEF Sound, ToldLog
  <2>3. t # s
    BY <1>5, <2>2
  <2> QED
    BY <1>2, <2>2, <2>3
<1>10. Follows(d, d)
  <2> SUFFICES ASSUME NEW t \in Slot
               PROVE  /\ \/ d.acceptors[t] = NewAcceptor
                         \/ /\ t =< d.max_slot
                            /\ d.acceptors[t] = Voted(ValueIn(d, t))
                      /\ \/ ChosenIn(d.chosen_values, t) = Null
                         \/ /\ t =< d.max_slot
                            /\ ChosenIn(d.chosen_values, t) = ValueIn(d, t)
    BY DEF Follows
  <2>1. Follows(d, c)
    BY <1>1, <1>6, GrowsKeeps DEF Sound
  <2>2. d.chosen_values = c.chosen_values
    BY <1>2 DEF SameLog
  <2>3. CASE t = s
    <3>1. t =< d.max_slot
      BY <1>4, <1>3a, <2>3
    <3>2. ValueIn(d, t) = v
      BY <1>2, <2>3 DEF Fresh, ValueIn
    <3> QED
      BY <1>2, <2>1, <2>2, <2>3, <3>1, <3>2 DEF Follows
  <2>4. CASE t # s
    BY <1>2, <2>1, <2>2, <2>4 DEF Follows
  <2> QED
    BY <2>3, <2>4
<1>11. PICK m, l, w : /\ l = last /\ w = ChosenIn(log, l)
                      /\ m = AcceptMsg(s, MasterBallot, v, l, w)
  OBVIOUS
<1>12. OpenMsg(c, v) = m
  BY <1>11 DEF OpenMsg, log, s, told
<1>13. /\ l \in {0} \cup Slot /\ w \in Value \cup {Null}
       /\ l # 0 => /\ TellsLast(c) /\ l = told
                   /\ w = ValueIn(c, told)
  BY <1>1, <1>3, <1>11, ChosenInOK
<1>14. m \in Requests
  BY <1>1, <1>2, <1>11, <1>13 DEF AcceptMsg, Requests
<1>15. RequestOK(d, m)
  <2>1. /\ m.type = "ACCEPT" /\ m.slot = s /\ m.ballot = MasterBallot
        /\ m.value = v /\ m.last_slot = l /\ m.last_value = w
    BY <1>11 DEF AcceptMsg
  <2>2. m.slot =< d.max_slot /\ m.value = ValueIn(d, m.slot)
    <3>1. m.slot =< d.max_slot
      BY <1>4, <1>3a, <2>1
    <3> QED
      BY <1>2, <2>1, <3>1 DEF Fresh, ValueIn
  <2>3. ASSUME l # 0
        PROVE  /\ l < s /\ l =< d.last_slot /\ w = ValueIn(d, l)
    <3>1. /\ TellsLast(c) /\ l = told /\ told \in Slot
          /\ told =< c.max_slot /\ d.last_slot = told
      BY <1>2, <1>3, <1>13, <2>3
    <3>2. l < s /\ l =< d.last_slot
      BY <1>1, <1>4, <3>1 DEF s
    <3>3. ValueIn(d, l) = ValueIn(c, l)
      BY <1>6, <3>1 DEF Grows
    <3> QED
      BY <1>13, <2>3, <3>1, <3>2, <3>3
  <2> QED
    BY <2>1, <2>2, <2>3 DEF RequestOK
<1> QED
  BY <1>6, <1>7, <1>8, <1>9, <1>10, <1>12, <1>14, <1>15 DEF Sound

(* An answer is recorded, and the slot may be chosen by it. *)
LEMMA MarkedSound ==
  ASSUME NEW c, Ready(c), Sound(c), NEW d, Ready(d), NEW s \in Slot,
         NEW a \in Node, c.proposers[s].status = "PHASEII",
         \/ Marked(c, d, s, a, "PHASEII") /\ SameLog(c, d)
         \/ /\ Marked(c, d, s, a, "CHOSEN")
            /\ Logged(c, d, s, ValueIn(c, s))
  PROVE  Sound(d) /\ Grows(c, d)
<1>1. PICK st \in {"PHASEII", "CHOSEN"} :
        /\ Marked(c, d, s, a, st)
        /\ st = "PHASEII" => SameLog(c, d)
        /\ st = "CHOSEN" => Logged(c, d, s, ValueIn(c, s))
  OBVIOUS
<1>2. /\ c \in Captains /\ d \in Captains /\ c.chosen_values \in Logs
      /\ c.max_slot \in Nat /\ c.last_slot \in Nat
      /\ ~(s > c.max_slot) /\ s \in Nat /\ Slot \subseteq Nat \ {0}
      /\ ValueIn(c, s) \in Value
  BY MaxSlotNat, CaptainFields DEF Ready, ProposerReady, ValueIn
<1>3. /\ d.max_slot = c.max_slot /\ d.last_slot = c.last_slot
      /\ d.acceptors = c.acceptors /\ s =< c.max_slot
      /\ \A t \in Slot \ {s} : d.proposers[t] = c.proposers[t]
  BY <1>1, <1>2 DEF Marked
<1>4. PICK p, q : p = c.proposers[s] /\ q = d.proposers[s]
  OBVIOUS
<1>5. /\ q.status = st /\ q.init_value = p.init_value
      /\ q.curr_value = p.curr_value /\ q.curr_ballot = p.curr_ballot
      /\ \A n \in Node : q.ack_accept[n] =
           IF n = a THEN "yes" ELSE p.ack_accept[n]
  BY <1>1, <1>4 DEF Marked
<1>6. \A t \in Slot : ValueIn(d, t) = ValueIn(c, t)
  BY <1>3, <1>4, <1>5 DEF ValueIn
<1>7. Grows(c, d)
  BY <1>2, <1>3, <1>6 DEF Grows
<1>8. Unopposed(d)
  <2>1. /\ p.curr_ballot = MasterBallot /\ p.curr_value = p.init_value
        /\ \A n \in Node : p.ack_accept[n] # "no"
    BY <1>3, <1>4 DEF Sound, Unopposed
  <2>2. /\ q.curr_ballot = MasterBallot /\ q.curr_value = q.init_value
        /\ q.status \in {"PHASEII", "CHOSEN"}
        /\ \A n \in Node : q.ack_accept[n] # "no"
    BY <1>5, <2>1
  <2> QED
    BY <1>3, <1>4, <2>2 DEF Sound, Unopposed
<1>9. \A t \in Slot : ChosenIn(d.chosen_values, t) =
        IF t = s /\ st = "CHOSEN" THEN ValueIn(c, s)
        ELSE ChosenIn(c.chosen_values, t)
  <2>1. ChosenIn(c.chosen_values, s) = Null
    BY DEF Sound, OwnLog
  <2>2. CASE st = "PHASEII"
    BY <1>1, <2>2 DEF SameLog
  <2>3. CASE st = "CHOSEN"
    <3>1. d.chosen_values = LogWith(c.chosen_values, s, ValueIn(c, s))
      BY <1>1, <2>3 DEF Logged
    <3>2. PICK v, log : v = ValueIn(c, s) /\ log = c.chosen_values
      OBVIOUS
    <3>3. log \in Logs /\ s \in Nat /\ v \in Value \cup {Null}
      BY <1>2, <3>2
    <3>4. \A t \in Nat \ {0} : ChosenIn(LogWith(log, s, v), t) =
            IF t = s /\ ChosenIn(log, s) = Null THEN v ELSE ChosenIn(log, t)
      BY <3>3, LogWithOK
    <3> QED
      BY <1>2, <2>1, <2>3, <3>1, <3>2, <3>4
  <2> QED
    BY <2>2, <2>3
<1>10. OwnLog(d)
  <2> SUFFICES ASSUME NEW t \in Slot
               PROVE  ChosenIn(d.chosen_values, t) =
                        IF d.proposers[t].status = "CHOSEN"
                        THEN ValueIn(d, t) ELSE Null
    BY DEF OwnLog
  <2>1. ChosenIn(c.chosen_values, t) = IF c.proposers[t].status = "CHOSEN"
                                       THEN ValueIn(c, t) ELSE Null
    BY DEF Sound, OwnLog
  <2>2. CASE t = s
    BY <1>4, <1>5, <1>6, <1>9, <2>1, <2>2
  <2>3. CASE t # s
    BY <1>3, <1>6, <1>9, <2>1, <2>3
  <2> QED
    BY <2>2, <2>3
<1>11. ToldLog(d)
  <2> SUFFICES ASSUME NEW t \in Slot, t =< d.last_slot
               PROVE  d.proposers[t].status = "CHOSEN"
    BY DEF ToldLog
  <2>1. c.proposers[t].status = "CHOSEN"
    BY <1>3 DEF Sound, ToldLog
  <2>2. t # s
    BY <2>1
  <2> QED
    BY <1>3, <2>1, <2>2
<1>12. Follows(d, d)
  BY <1>3, <1>6, <1>9 DEF Sound, Follows
<1> QED
  BY <1>7, <1>8, <1>10, <1>11, <1>12 DEF Sound

(* Only the queue changed. *)
LEMMA SameSound ==
  ASSUME NEW c, Ready(c), Sound(c), NEW d, SameSlots(c, d), SameLog(c, d)
  PROVE  Sound(d) /\ Grows(c, d)
<1>1. c.max_slot \in Nat /\ c.last_slot \in Nat
  BY CaptainFields DEF Ready
<1>2. Grows(c, d)
  BY <1>1 DEF SameSlots, Grows, ValueIn
<1> QED
  BY <1>2 DEF Sound, SameSlots, SameLog, Unopposed, OwnLog, ToldLog, Follows,
              ValueIn

(* The others follow the master where it goes. *)
LEMMA MasterMoves ==
  ASSUME OneMaster, TypeInv, TypeInv', MasterInv, Alone(Master),
         LET c == captains[Master]
             d == captains'[Master]
         IN  Sound(d) /\ Grows(c, d)
  PROVE  /\ \A n \in Node : Follows(captains'[Master], captains'[n])
         /\ RequestsSay(requests, captains'[Master])
         /\ RepliesSay(replies, captains'[Master])
<1>1. PICK c, d : c = captains[Master] /\ d = captains'[Master]
  OBVIOUS
<1>2. c \in Captains /\ d \in Captains /\ Grows(c, d) /\ Sound(d)
  BY <1>1, MasterOK DEF TypeInv
<1>3. \A x : Follows(c, x) => Follows(d, x)
  BY <1>2, GrowsKeeps
<1>4. \A n \in Node : Follows(d, captains'[n])
  BY <1>1, <1>2, <1>3 DEF MasterInv, Alone, Sound
<1>5. RequestsSay(requests, d) /\ RepliesSay(replies, d)
  BY <1>1, <1>2, MessagesKept DEF MasterInv
<1> QED
  BY <1>1, <1>4, <1>5

LEMMA SubmitsMaster ==
  ASSUME OneMaster, TypeInv, TypeInv', MasterInv, NEW v \in Value, Submits(v)
  PROVE  MasterInv'
<1>1. PICK c, d : c = captains[Master] /\ d = captains'[Master]
  OBVIOUS
<1>2. /\ Ready(c) /\ Ready(d) /\ Sound(c) /\ Alone(Master)
      /\ UNCHANGED replies
  BY <1>1, MasterOK DEF TypeInv, MasterInv, Sound, Submits
<1>3. CASE SameSlots(c, d) /\ SameLog(c, d) /\ UNCHANGED requests
  <2>1. Sound(d) /\ Grows(c, d)
    BY <1>2, <1>3, SameSound
  <2>2. /\ \A n \in Node : Follows(d, captains'[n])
        /\ RequestsSay(requests, d) /\ RepliesSay(replies, d)
    BY <1>1, <1>2, <2>1, MasterMoves
  <2> QED
    BY <1>1, <1>2, <1>3, <2>1, <2>2 DEF MasterInv, Sound
<1>4. CASE OpensSlot(c, d, v) /\ Sent(OpenMsg(c, v))
  <2>1. PICK m : m = OpenMsg(c, v)
    OBVIOUS
  <2>2. Sound(d) /\ Grows(c, d) /\ m \in Requests /\ RequestOK(d, m)
    BY <1>2, <1>4, <2>1, OpensSound
  <2>3. /\ \A n \in Node : Follows(d, captains'[n])
        /\ RequestsSay(requests, d) /\ RepliesSay(replies, d)
    BY <1>1, <1>2, <2>2, MasterMoves
  <2>4. RequestsSay(requests', d)
    BY <1>4, <2>1, <2>2, <2>3, MessagesSent
  <2> QED
    BY <1>1, <1>2, <2>2, <2>3, <2>4 DEF MasterInv, Sound
<1> QED
  BY <1>1, <1>3, <1>4 DEF Submits

(* What node a learns is what the master has given out. *)
LEMMA HearsMaster ==
  ASSUME OneMaster, TypeInv, TypeInv', MasterInv, NEW a \in Others(Master),
         Hears(a)
  PROVE  MasterInv'
<1>1. PICK c, x, y, m : /\ c = captains[Master] /\ x = captains[a]
                        /\ y = captains'[a] /\ m = Head(requests[Master][a])
  OBVIOUS
<1>2. /\ Master \in Node /\ a \in Node /\ a # Master
  BY MasterOK DEF Others
<1>3. /\ captains'[Master] = c /\ Sound(c)
      /\ x \in Captains /\ y \in Captains /\ c \in Captains /\ Follows(c, x)
      /\ RequestTaken(Master, a) /\ HearsIn(a, x, y, m)
      /\ \A n \in Node \ {a} : captains'[n] = captains[n]
  BY <1>1, <1>2 DEF TypeInv, MasterInv, Sound, Hears, Alone
<1>4. /\ m \in Requests /\ RequestOK(c, m) /\ m.slot \in Slot
      /\ m.last_slot \in {0} \cup Slot
      /\ m.last_value \in Value \cup {Null}
  BY <1>1, <1>2, <1>3, FirstRequest DEF RequestTaken
<1>5. /\ m.slot =< c.max_slot /\ m.value = ValueIn(c, m.slot)
      /\ m.last_slot # 0 => /\ m.last_slot \in Slot
                            /\ m.last_slot =< c.max_slot
                            /\ m.last_value = ValueIn(c, m.last_slot)
  <2>1. /\ m.slot =< c.max_slot /\ m.value = ValueIn(c, m.slot)
        /\ m.last_slot # 0 => /\ m.last_slot < m.slot
                              /\ m.last_value = ValueIn(c, m.last_slot)
    BY <1>4 DEF RequestOK
  <2>2. c.max_slot \in Nat /\ m.slot \in Nat /\ Slot \subseteq Nat
    BY <1>3, <1>4, CaptainFields, MaxSlotNat
  <2>3. ASSUME m.last_slot # 0
        PROVE  m.last_slot \in Slot /\ m.last_slot =< c.max_slot
    <3>1. PICK l, s, k : l = m.last_slot /\ s = m.slot /\ k = c.max_slot
      OBVIOUS
    <3>2. l \in Slot /\ l < s /\ s =< k /\ l \in Nat /\ s \in Nat /\ k \in Nat
      BY <1>4, <2>1, <2>2, <2>3, <3>1
    <3> QED
      BY <3>1, <3>2
  <2> QED
    BY <2>1, <2>3
<1>6. Follows(c, y)
  <2> SUFFICES ASSUME NEW t \in Slot
               PROVE  /\ \/ y.acceptors[t] = NewAcceptor
                         \/ /\ t =< c.max_slot
                            /\ y.acceptors[t] = Voted(ValueIn(c, t))
                      /\ \/ ChosenIn(y.chosen_values, t) = Null
                         \/ /\ t =< c.max_slot
                            /\ ChosenIn(y.chosen_values, t) = ValueIn(c, t)
    BY DEF Follows
  <2>1. /\ \/ x.acceptors[t] = NewAcceptor
           \/ t =< c.max_slot /\ x.acceptors[t] = Voted(ValueIn(c, t))
        /\ \/ ChosenIn(x.chosen_values, t) = Null
           \/ /\ t =< c.max_slot
              /\ ChosenIn(x.chosen_values, t) = ValueIn(c, t)
    BY <1>3 DEF Follows
  <2>2. y.acceptors[t] = IF t = m.slot THEN Voted(m.value) ELSE x.acceptors[t]
    BY <1>3 DEF HearsIn
  <2>3. \/ y.acceptors[t] = NewAcceptor
        \/ t =< c.max_slot /\ y.acceptors[t] = Voted(ValueIn(c, t))
    BY <1>5, <2>1, <2>2
  <2>4. \/ ChosenIn(y.chosen_values, t) = ChosenIn(x.chosen_values, t)
        \/ /\ m.last_slot # 0 /\ t = m.last_slot
           /\ ChosenIn(y.chosen_values, t) = m.last_value
    <3>1. CASE SameLog(x, y)
      BY <3>1 DEF SameLog
    <3>2. CASE m.last_slot # 0 /\ Logged(x, y, m.last_slot, m.last_value)
      <4>1. PICK s, v, log : /\ s = m.last_slot /\ v = m.last_value
                             /\ log = x.chosen_values
        OBVIOUS
      <4>2. /\ log \in Logs /\ s \in Nat /\ v \in Value \cup {Null}
            /\ t \in Nat \ {0}
        BY <1>3, <1>4, <1>5, <3>2, <4>1, CaptainFields, MaxSlotNat
      <4>3. ChosenIn(LogWith(log, s, v), t) =
              IF t = s /\ ChosenIn(log, s) = Null THEN v ELSE ChosenIn(log, t)
        BY <4>2, LogWithOK
      <4>4. y.chosen_values = LogWith(log, s, v)
        BY <3>2, <4>1 DEF Logged
      <4> QED
        BY <3>2, <4>1, <4>3, <4>4
    <3> QED
      BY <1>3, <3>1, <3>2 DEF HearsIn
  <2> QED
    BY <1>5, <2>1, <2>3, <2>4
<1>7. \A n \in Node : Follows(c, captains'[n])
  BY <1>1, <1>3, <1>6 DEF MasterInv
<1>8. RequestsSay(requests', c)
  BY <1>1, <1>2, <1>3, MessagesTaken DEF MasterInv
<1>9. RepliesSay(replies', c)
  <2>1. RepliesSay(replies, c)
    BY <1>1 DEF MasterInv
  <2>2. CASE UNCHANGED replies
    BY <2>1, <2>2
  <2>3. CASE Answered(a, AcceptedMsg(m.slot, MasterBallot, "yes"))
    <3>1. PICK k : k = AcceptedMsg(m.slot, MasterBallot, "yes")
      OBVIOUS
    <3>2. k \in Answers /\ AnswerOK(c, k)
      BY <1>4, <1>5, <3>1, MasterOK
      DEF AcceptedMsg, Answers, AnswerOK, Replies
    <3> QED
      BY <2>1, <2>3, <3>1, <3>2, MessagesSent
  <2> QED
    BY <1>3, <2>2, <2>3 DEF HearsIn
<1> QED
  BY <1>3, <1>7, <1>8, <1>9 DEF MasterInv, Sound

(* Answers are taken, and the slots they choose are the master's own. *)
LEMMA RecordsMaster ==
  ASSUME OneMaster, TypeInv, TypeInv', MasterInv, NEW a \in Others(Master),
         Records(a)
  PROVE  MasterInv'
<1>1. PICK c, d, m, s : /\ c = captains[Master] /\ d = captains'[Master]
                        /\ m = Head(replies[a][Master]) /\ s = m.slot
  OBVIOUS
<1>2. /\ Master \in Node /\ a \in Node /\ a # Master
  BY MasterOK DEF Others
<1>3. /\ Ready(c) /\ Ready(d) /\ Sound(c) /\ c.tocommit_values \in Seq(Value)
      /\ ReplyTaken(a, Master)
  BY <1>1, <1>2, CaptainFields DEF TypeInv, MasterInv, Sound, Records
<1>4. s \in Slot /\ RepliesSay(replies', c)
  <2>1. s \in Slot
    BY <1>1, <1>2, <1>3, FirstReply DEF ReplyTaken
  <2>2. RepliesSay(replies', c)
    BY <1>1, <1>2, <1>3, MessagesTaken DEF MasterInv
  <2> QED
    BY <2>1, <2>2
<1>5. CASE UNCHANGED <<captains, requests>>
  BY <1>1, <1>4, <1>5 DEF MasterInv
<1>6. ASSUME Sound(d), Grows(c, d), Alone(Master), RequestsSay(requests', d)
      PROVE  MasterInv'
  <2>1. /\ \A n \in Node : Follows(d, captains'[n])
        /\ RepliesSay(replies, d)
    BY <1>1, <1>6, MasterMoves
  <2>2. RepliesSay(replies', d)
    BY <1>2, <1>3, <2>1, MessagesTaken
  <2> QED
    BY <1>1, <1>6, <2>1, <2>2 DEF MasterInv, Sound
<1>7. CASE /\ c.proposers[s].status = "PHASEII" /\ Alone(Master)
           /\ Marked(c, d, s, a, "PHASEII") /\ SameLog(c, d)
           /\ UNCHANGED requests
  <2>1. Sound(d) /\ Grows(c, d)
    BY <1>2, <1>3, <1>4, <1>7, MarkedSound
  <2>2. RequestsSay(requests, d)
    BY <1>1, <1>7, <2>1, MasterMoves
  <2> QED
    BY <1>6, <1>7, <2>1, <2>2
<1>8. ASSUME c.proposers[s].status = "PHASEII", Alone(Master),
             NEW e, Ready(e), Marked(c, e, s, a, "CHOSEN"),
             Logged(c, e, s, ValueIn(c, s)),
             \/ d = e /\ UNCHANGED requests
             \/ /\ c.tocommit_values # <<>>
                /\ OpensSlot(e, d, Head(c.tocommit_values))
                /\ Sent(OpenMsg(e, Head(c.tocommit_values)))
      PROVE  MasterInv'
  <2>1. Sound(e) /\ Grows(c, e)
    BY <1>2, <1>3, <1>4, <1>8, MarkedSound
  <2>2. CASE d = e /\ UNCHANGED requests
    <3>1. RequestsSay(requests, d)
      BY <1>1, <1>8, <2>1, <2>2, MasterMoves
    <3> QED
      BY <1>6, <1>8, <2>1, <2>2, <3>1
  <2>3. CASE /\ c.tocommit_values # <<>>
             /\ OpensSlot(e, d, Head(c.tocommit_values))
             /\ Sent(OpenMsg(e, Head(c.tocommit_values)))
    <3>1. PICK v, k : v = Head(c.tocommit_values) /\ k = OpenMsg(e, v)
      OBVIOUS
    <3>2. v \in Value
      BY <1>3, <2>3, <3>1, HeadTailProperties
    <3>3. Sound(d) /\ Grows(e, d) /\ k \in Requests /\ RequestOK(d, k)
      BY <1>3, <1>8, <2>1, <2>3, <3>1, <3>2, OpensSound
    <3>4. Grows(c, d)
      <4>1. /\ c.max_slot \in Nat /\ e.max_slot \in Nat /\ d.max_slot \in Nat
            /\ c.last_slot \in Nat /\ e.last_slot \in Nat /\ d.last_slot \in Nat
        BY <1>3, <1>8, CaptainFields DEF Ready
      <4>2. e.max_slot = c.max_slot
        BY <1>8 DEF Marked
      <4> QED
        BY <2>1, <3>3, <4>1, <4>2 DEF Grows
    <3>5. RequestsSay(requests, d)
      BY <1>1, <1>8, <3>3, <3>4, MasterMoves
    <3>6. RequestsSay(requests', d)
      BY <2>3, <3>1, <3>3, <3>5, MessagesSent
    <3> QED
      BY <1>6, <1>8, <3>3, <3>4, <3>6
  <2> QED
    BY <1>8, <2>2, <2>3
<1> QED
  BY <1>1, <1>5, <1>7, <1>8 DEF Records

LEMMA LosesMaster ==
  ASSUME OneMaster, TypeInv, MasterInv, NEW a \in Others(Master), Loses(a)
  PROVE  MasterInv'
<1>1. PICK c : c = captains[Master]
  OBVIOUS
<1>2. Master \in Node /\ a \in Node /\ UNCHANGED captains
  BY MasterOK DEF Others, Loses
<1>3. RequestsSay(requests', c) /\ RepliesSay(replies', c)
  BY <1>1, <1>2, MessagesTaken DEF MasterInv, Loses
<1> QED
  BY <1>1, <1>2, <1>3 DEF MasterInv

LEMMA CrashMaster ==
  ASSUME OneMaster, TypeInv, MasterInv, NEW a \in Node, Crash(a)
  PROVE  MasterInv'
<1>1. PICK c : c = captains[Master]
  OBVIOUS
<1>2. /\ a # Master /\ captains' = [captains EXCEPT ![a] = NewCaptain]
      /\ UNCHANGED <<requests, replies>>
  BY MasterOK, RestartAssumption DEF Crash, RestartAssumption
<1>3. /\ captains'[a] = NewCaptain
      /\ \A n \in Node \ {a} : captains'[n] = captains[n]
  BY <1>2 DEF TypeInv
<1>4. Follows(c, NewCaptain)
  <2>1. DOMAIN <<>> = {}
    OBVIOUS
  <2> QED
    BY <2>1 DEF NewCaptain, Follows, ChosenIn
<1> QED
  BY <1>1, <1>2, <1>3, <1>4, MasterOK DEF MasterInv

LEMMA NextKeepsMaster ==
  OneMaster /\ WorkInv /\ MasterInv /\ [Next]_vars => MasterInv'
<1> SUFFICES ASSUME OneMaster, WorkInv, MasterInv, [Next]_vars
             PROVE  MasterInv'
  OBVIOUS
<1>1. TypeInv /\ TypeInv'
  BY NextWork DEF WorkInv
<1>2. CASE Next
  <2>1. MasterStep
    BY <1>2, NextMaster
  <2> QED
    BY <1>1, <2>1, SubmitsMaster, HearsMaster, RecordsMaster, LosesMaster
    DEF MasterStep
<1>3. CASE UNCHANGED vars
  BY <1>3 DEF vars, MasterInv
<1> QED
  BY <1>2, <1>3

LEMMA AllNextMaster ==
  OneMaster /\ WorkInv /\ MasterInv /\ [AllNext]_allvars => MasterInv'
<1> SUFFICES ASSUME OneMaster, WorkInv, MasterInv, [AllNext]_allvars
             PROVE  MasterInv'
  OBVIOUS
<1>1. CASE [Next]_vars
  BY <1>1, NextKeepsMaster
<1>2. CASE \E a \in Node : Crash(a)
  BY <1>2, CrashMaster DEF WorkInv
<1>3. [Next]_vars \/ \E a \in Node : Crash(a)
  BY DEF AllNext, allvars
<1> QED
  BY <1>1, <1>2, <1>3

(* Two replicas never hold different values in one slot of their logs,     *)
(* whatever is lost and whichever followers start again, as long as a      *)
(* single node commits.                                                    *)
THEOREM LogIsAgreed == OneMaster => (AllSpec => []LogAgreement)
<1> SUFFICES ASSUME OneMaster PROVE AllSpec => []LogAgreement
  OBVIOUS
<1>1. TypeInv /\ MasterInv => LogAgreement
  <2> SUFFICES ASSUME MasterInv, NEW m \in Node, NEW n \in Node,
                      NEW s \in Slot,
                      ChosenIn(captains[m].chosen_values, s) # Null,
                      ChosenIn(captains[n].chosen_values, s) # Null
               PROVE  ChosenIn(captains[m].chosen_values, s) =
                        ChosenIn(captains[n].chosen_values, s)
    BY DEF LogAgreement
  <2> QED
    BY DEF MasterInv, Follows
<1>2. AllInit => WorkInv /\ MasterInv
  BY InitWork, InitMaster DEF AllInit
<1>3. WorkInv /\ MasterInv /\ [AllNext]_allvars => WorkInv' /\ MasterInv'
  BY AllNextWork, AllNextMaster
<1>4. WorkInv => TypeInv
  BY DEF WorkInv
<1> QED
  BY <1>1, <1>2, <1>3, <1>4, PTL DEF AllSpec

-----------------------------------------------------------------------------
(* The order of the calls to commit *)

(* The values submitted are those of the slots, then those of the queue. *)
Ordered(values, c) ==
  LET queue == c.tocommit_values
  IN  /\ Len(values) = c.max_slot + Len(queue)
      /\ \A s \in Slot : s =< c.max_slot => values[s] = ValueIn(c, s)
      /\ \A i \in 1 .. Len(queue) : values[c.max_slot + i] = queue[i]

OrderInv == Ordered(submitted[Master], captains[Master])

(* A value joins the queue. *)
LEMMA QueuedOrdered ==
  ASSUME NEW c \in Captains, NEW d \in Captains, NEW v \in Value,
         NEW values \in Seq(Value), Ordered(values, c), SameSlots(c, d),
         d.tocommit_values = Append(c.tocommit_values, v)
  PROVE  Ordered(Append(values, v), d)
<1>1. PICK k, l, q, r, new : /\ k = c.max_slot /\ q = c.tocommit_values
                             /\ r = d.tocommit_values /\ l = Len(q)
                             /\ new = Append(values, v)
  OBVIOUS
<1>2. /\ k \in Nat /\ q \in Seq(Value) /\ l \in Nat /\ r = Append(q, v)
      /\ Len(values) = k + l /\ d.max_slot = k
      /\ \A s \in Slot : s =< k => values[s] = ValueIn(c, s)
      /\ \A i \in 1 .. l : values[k + i] = q[i]
      /\ \A s \in Slot : ValueIn(d, s) = ValueIn(c, s) /\ s \in Nat /\ s > 0
  BY <1>1, CaptainFields, LenProperties, MaxSlotNat
  DEF Ordered, SameSlots, ValueIn
<1>3. /\ Len(new) = k + l + 1 /\ new[k + l + 1] = v
      /\ \A i \in 1 .. k + l : new[i] = values[i]
  BY <1>1, <1>2, AppendProperties
<1>4. /\ Len(r) = l + 1 /\ r[l + 1] = v
      /\ \A i \in 1 .. l : r[i] = q[i]
  BY <1>1, <1>2, AppendProperties
<1>5. \A s \in Slot : s =< k => new[s] = ValueIn(d, s)
  <2> SUFFICES ASSUME NEW s \in Slot, s =< k PROVE new[s] = ValueIn(d, s)
    OBVIOUS
  <2>1. s \in 1 .. k + l
    BY <1>2
  <2> QED
    BY <1>2, <1>3, <2>1
<1>6. \A i \in 1 .. l + 1 : new[k + i] = r[i]
  <2> SUFFICES ASSUME NEW i \in 1 .. l + 1 PROVE new[k + i] = r[i]
    OBVIOUS
  <2>1. CASE i \in 1 .. l
    <3>1. k + i \in 1 .. k + l
      BY <1>2, <2>1
    <3>2. new[k + i] = values[k + i] /\ r[i] = q[i]
      BY <1>3, <1>4, <2>1, <3>1
    <3>3. values[k + i] = q[i]
      BY <1>2, <2>1
    <3> QED
      BY <3>2, <3>3
  <2>2. CASE i = l + 1
    <3>1. k + i = k + l + 1
      BY <1>2, <2>2
    <3> QED
      BY <1>3, <1>4, <2>2, <3>1
  <2>3. l \in Nat
    BY <1>2
  <2>4. i \in 1 .. l \/ i = l + 1
    BY <2>3
  <2> QED
    BY <2>1, <2>2, <2>4
<1>7. Len(new) = k + Len(r)
  BY <1>2, <1>3, <1>4
<1> QED
  BY <1>1, <1>2, <1>4, <1>5, <1>6, <1>7 DEF Ordered

(* The next value gets the next slot, from a client or from the queue. *)
LEMMA OpensOrdered ==
  ASSUME NEW c \in Captains, NEW d \in Captains, NEW v \in Value,
         NEW values \in Seq(Value),
         OpensSlot(c, d, v),
         Len(values) = c.max_slot + 1 + Len(c.tocommit_values),
         \A s \in Slot : s =< c.max_slot => values[s] = ValueIn(c, s),
         values[c.max_slot + 1] = v,
         \A i \in 1 .. Len(c.tocommit_values) :
           values[c.max_slot + 1 + i] = c.tocommit_values[i]
  PROVE  Ordered(values, d)
<1>1. PICK k, s : k = c.max_slot /\ s = k + 1
  OBVIOUS
<1>2. /\ k \in Nat /\ s \in Slot /\ d.max_slot = s
      /\ d.tocommit_values = c.tocommit_values
      /\ ValueIn(d, s) = v
      /\ \A t \in Slot : t # s => ValueIn(d, t) = ValueIn(c, t)
  BY <1>1, CaptainFields DEF OpensSlot, Fresh, ValueIn
<1>3. ASSUME NEW t \in Slot, t =< s PROVE values[t] = ValueIn(d, t)
  <2>1. t = s \/ (t # s /\ t =< k)
    BY <1>1, <1>2, <1>3, MaxSlotNat
  <2> QED
    BY <1>1, <1>2, <2>1
<1> QED
  BY <1>1, <1>2, <1>3 DEF Ordered

LEMMA InitOrder == OneMaster /\ Init => OrderInv
<1> SUFFICES ASSUME OneMaster, Init PROVE OrderInv
  OBVIOUS
<1>1. submitted[Master] = <<>> /\ captains[Master] = NewCaptain
  BY MasterOK DEF Init
<1>2. NewCaptain.max_slot = 0 /\ NewCaptain.tocommit_values = <<>>
  BY DEF NewCaptain
<1>3. Len(<<>>) = 0 /\ \A s \in Slot : ~(s =< 0)
  BY MaxSlotNat
<1> QED
  BY <1>1, <1>2, <1>3 DEF OrderInv, Ordered

LEMMA SubmitsOrder ==
  ASSUME OneMaster, TypeInv, TypeInv', OrderInv, NEW v \in Value, Submits(v)
  PROVE  OrderInv'
<1>1. PICK c, d, values : /\ c = captains[Master] /\ d = captains'[Master]
                          /\ values = submitted[Master]
  OBVIOUS
<1>2. /\ c \in Captains /\ d \in Captains /\ Master \in Node
      /\ values \in Seq(Value) /\ Ordered(values, c)
      /\ submitted'[Master] = Append(values, v)
  BY <1>1, MasterOK DEF TypeInv, HistoryOK, OrderInv, Submits
<1>3. CASE /\ SameSlots(c, d)
           /\ d.tocommit_values = Append(c.tocommit_values, v)
  BY <1>1, <1>2, <1>3, QueuedOrdered DEF OrderInv
<1>4. CASE c.tocommit_values = <<>> /\ OpensSlot(c, d, v)
  <2>1. PICK k, new : k = c.max_slot /\ new = Append(values, v)
    OBVIOUS
  <2>2. /\ k \in Nat /\ Len(values) = k + Len(<<>>) /\ Len(<<>>) = 0
        /\ \A s \in Slot : s =< k => values[s] = ValueIn(c, s)
        /\ \A s \in Slot : s \in Nat /\ s > 0
    BY <1>2, <1>4, <2>1, CaptainFields, MaxSlotNat DEF Ordered
  <2>3. /\ new \in Seq(Value) /\ Len(new) = k + 1 /\ new[k + 1] = v
        /\ \A i \in 1 .. k : new[i] = values[i]
    BY <1>2, <2>1, <2>2, AppendProperties
  <2>4. \A s \in Slot : s =< k => new[s] = ValueIn(c, s)
    <3> SUFFICES ASSUME NEW s \in Slot, s =< k PROVE new[s] = ValueIn(c, s)
      OBVIOUS
    <3>1. s \in 1 .. k
      BY <2>2
    <3> QED
      BY <2>2, <2>3, <3>1
  <2>5. Len(new) = k + 1 + Len(c.tocommit_values)
    BY <1>4, <2>2, <2>3
  <2>6. \A i \in 1 .. Len(c.tocommit_values) :
          new[k + 1 + i] = c.tocommit_values[i]
    BY <1>4, <2>2
  <2>7. Ordered(new, d)
    BY <1>2, <1>4, <2>1, <2>3, <2>4, <2>5, <2>6, OpensOrdered
  <2> QED
    BY <1>1, <1>2, <2>1, <2>7 DEF OrderInv
<1> QED
  BY <1>1, <1>3, <1>4 DEF Submits

LEMMA RecordsOrder ==
  ASSUME OneMaster, TypeInv, TypeInv', OrderInv, NEW a \in Others(Master),
         Records(a)
  PROVE  OrderInv'
<1>1. PICK c, d, m, s, values :
        /\ c = captains[Master] /\ d = captains'[Master]
        /\ m = Head(replies[a][Master]) /\ s = m.slot
        /\ values = submitted[Master]
  OBVIOUS
<1>2. /\ c \in Captains /\ d \in Captains /\ Master \in Node
      /\ values \in Seq(Value) /\ Ordered(values, c)
      /\ submitted' = submitted /\ c.tocommit_values \in Seq(Value)
  BY <1>1, MasterOK, CaptainFields DEF TypeInv, HistoryOK, OrderInv, Records
<1>3. ASSUME NEW e, NEW st, Marked(c, e, s, a, st)
      PROVE  /\ e.max_slot = c.max_slot
             /\ \A t \in Slot : ValueIn(e, t) = ValueIn(c, t)
  BY <1>3 DEF Marked, ValueIn
<1>4. CASE UNCHANGED captains
  BY <1>2, <1>4 DEF OrderInv
<1>5. ASSUME NEW st, Marked(c, d, s, a, st),
             d.tocommit_values = c.tocommit_values
      PROVE  Ordered(values, d)
  BY <1>2, <1>3, <1>5 DEF Ordered
<1>6. ASSUME NEW e, Ready(e), Marked(c, e, s, a, "CHOSEN"),
             e.tocommit_values = Tail(c.tocommit_values),
             c.tocommit_values # <<>>,
             OpensSlot(e, d, Head(c.tocommit_values))
      PROVE  Ordered(values, d)
  <2>1. PICK k, q, r, v : /\ k = c.max_slot /\ q = c.tocommit_values
                          /\ r = e.tocommit_values /\ v = Head(q)
    OBVIOUS
  <2>2. PICK l \in Nat : l = Len(q)
    BY <1>2, <2>1, LenProperties
  <2>3. /\ k \in Nat /\ e \in Captains /\ e.max_slot = k /\ r = Tail(q)
        /\ v \in Value /\ v = q[1] /\ l > 0 /\ Len(r) = l - 1
        /\ \A i \in 1 .. l - 1 : r[i] = q[i + 1]
    BY <1>2, <1>3, <1>6, <2>1, <2>2, CaptainFields, HeadTailProperties,
       EmptySeq DEF Ready
  <2>4. /\ Len(values) = k + l
        /\ \A t \in Slot : t =< k => values[t] = ValueIn(e, t)
        /\ \A i \in 1 .. l : values[k + i] = q[i]
    BY <1>2, <1>3, <1>6, <2>1, <2>2 DEF Ordered
  <2>5. values[k + 1] = v /\ Len(values) = k + 1 + Len(r)
    <3>1. 1 \in 1 .. l /\ k + l = k + 1 + (l - 1)
      BY <2>2, <2>3
    <3>2. values[k + 1] = q[1]
      BY <2>4, <3>1
    <3> QED
      BY <2>3, <2>4, <3>1, <3>2
  <2>6. \A i \in 1 .. Len(r) : values[k + 1 + i] = r[i]
    <3> SUFFICES ASSUME NEW i \in 1 .. l - 1 PROVE values[k + 1 + i] = r[i]
      BY <2>3
    <3>1. i + 1 \in 1 .. l /\ k + 1 + i = k + (i + 1)
      BY <2>2, <2>3
    <3> QED
      BY <2>3, <2>4, <3>1
  <2> QED
    BY ZenonT(60), <1>2, <1>6, <2>1, <2>3, <2>4, <2>5, <2>6, OpensOrdered
<1>7. UNCHANGED captains \/ Ordered(values, d)
  <2>1. CASE Marked(c, d, s, a, "PHASEII") /\ d.tocommit_values = c.tocommit_values
    BY <1>5, <2>1
  <2>2. ASSUME NEW e, Ready(e), Marked(c, e, s, a, "CHOSEN"),
               e.tocommit_values = Rest(c.tocommit_values),
               \/ c.tocommit_values = <<>> /\ d = e
               \/ /\ c.tocommit_values # <<>>
                  /\ OpensSlot(e, d, Head(c.tocommit_values))
        PROVE  Ordered(values, d)
    <3>1. CASE c.tocommit_values = <<>>
      BY <1>5, <2>2, <3>1 DEF Rest
    <3>2. CASE c.tocommit_values # <<>>
      BY <1>6, <2>2, <3>2 DEF Rest
    <3> QED
      BY <3>1, <3>2
  <2> QED
    BY <1>1, <2>1, <2>2 DEF Records
<1> QED
  BY <1>1, <1>2, <1>4, <1>7 DEF OrderInv

LEMMA NextKeepsOrder ==
  OneMaster /\ WorkInv /\ MasterInv /\ OrderInv /\ [Next]_vars => OrderInv'
<1> SUFFICES ASSUME OneMaster, WorkInv, MasterInv, OrderInv, [Next]_vars
             PROVE  OrderInv'
  OBVIOUS
<1>1. TypeInv /\ TypeInv' /\ Master \in Node
  BY NextWork, MasterOK DEF WorkInv
<1>2. CASE Next
  <2>1. MasterStep
    BY <1>2, NextMaster
  <2>2. ASSUME NEW a \in Others(Master), Hears(a) PROVE OrderInv'
    <3>1. captains'[Master] = captains[Master] /\ UNCHANGED submitted
      BY <1>1, <2>2 DEF Hears, Alone, Others
    <3> QED
      BY <3>1 DEF OrderInv
  <2>3. ASSUME NEW a \in Others(Master), Loses(a) PROVE OrderInv'
    BY <2>3 DEF Loses, OrderInv
  <2> QED
    BY <1>1, <2>1, <2>2, <2>3, SubmitsOrder, RecordsOrder DEF MasterStep
<1>3. CASE UNCHANGED vars
  BY <1>3 DEF vars, OrderInv
<1> QED
  BY <1>2, <1>3

LEMMA AllNextOrder ==
  OneMaster /\ WorkInv /\ MasterInv /\ OrderInv /\ [AllNext]_allvars
    => OrderInv'
<1> SUFFICES ASSUME OneMaster, WorkInv, MasterInv, OrderInv, [AllNext]_allvars
             PROVE  OrderInv'
  OBVIOUS
<1>1. CASE [Next]_vars
  BY <1>1, NextKeepsOrder
<1>2. CASE \E a \in Node : Crash(a)
  <2>1. captains'[Master] = captains[Master] /\ UNCHANGED submitted
    BY <1>2, MasterOK, RestartAssumption
    DEF Crash, RestartAssumption, WorkInv, TypeInv
  <2> QED
    BY <2>1 DEF OrderInv
<1>3. [Next]_vars \/ \E a \in Node : Crash(a)
  BY DEF AllNext, allvars
<1> QED
  BY <1>1, <1>2, <1>3

(* What the run checks follows. *)
LEMMA OrderImplied ==
  OneMaster /\ TypeInv /\ OrderInv => ArrivalOrder
<1> SUFFICES ASSUME OneMaster, TypeInv, OrderInv PROVE ArrivalOrder
  OBVIOUS
<1>1. PICK c, q, given, values :
        /\ c = captains[Master] /\ q = c.tocommit_values
        /\ given = [s \in 1 .. c.max_slot |-> ValueIn(c, s)]
        /\ values = submitted[Master]
  OBVIOUS
<1>2. PICK k, l : k = c.max_slot /\ l = Len(q)
  OBVIOUS
<1>3. /\ c \in Captains /\ Ready(c) /\ k \in Nat /\ k =< MaxSlot
      /\ q \in Seq(Value) /\ l \in Nat
      /\ values \in Seq(Value) /\ Ordered(values, c)
      /\ 1 .. k \subseteq Slot
  BY <1>1, <1>2, MasterOK, CaptainFields, LenProperties, MaxSlotNat
  DEF TypeInv, HistoryOK, OrderInv
<1>4. given \in Seq(Value) /\ Len(given) = k
  <2>1. ASSUME NEW s \in 1 .. k PROVE ValueIn(c, s) \in Value
    <3>1. s \in Slot /\ ~(s > c.max_slot)
      BY <1>2, <1>3, <2>1
    <3> QED
      BY <1>3, <3>1 DEF Ready, ProposerReady, ValueIn
  <2>2. given \in [1 .. k -> Value]
    BY <1>1, <1>2, <2>1
  <2>3. given \in Seq(Value)
    BY <1>3, <2>2, SeqDef
  <2>4. Len(given) \in Nat /\ 1 .. Len(given) = 1 .. k
    BY <2>2, <2>3, LenProperties
  <2> QED
    BY <1>3, <2>3, <2>4
<1>5. PICK all : all = given \o q
  OBVIOUS
<1>6. /\ all \in Seq(Value) /\ Len(all) = k + l
      /\ \A i \in 1 .. k + l : all[i] = IF i =< k THEN given[i] ELSE q[i - k]
  <2>1. /\ all \in Seq(Value) /\ Len(all) = Len(given) + Len(q)
        /\ \A i \in 1 .. Len(given) + Len(q) :
             all[i] = IF i =< Len(given) THEN given[i]
                      ELSE q[i - Len(given)]
    BY <1>3, <1>4, <1>5, ConcatProperties
  <2> QED
    BY <1>2, <1>4, <2>1
<1>7. Len(values) = k + l
  BY <1>1, <1>2, <1>3 DEF Ordered
<1>8. \A i \in 1 .. k + l : values[i] = all[i]
  <2> SUFFICES ASSUME NEW i \in 1 .. k + l PROVE values[i] = all[i]
    OBVIOUS
  <2>1. CASE i =< k
    <3>1. i \in Slot /\ i \in 1 .. k
      BY <1>3, <2>1
    <3>2. values[i] = ValueIn(c, i)
      BY <1>2, <1>3, <2>1, <3>1 DEF Ordered
    <3> QED
      BY <1>1, <1>2, <1>6, <2>1, <3>1, <3>2
  <2>2. CASE ~(i =< k)
    <3>1. i - k \in 1 .. l /\ k + (i - k) = i
      BY <1>3, <2>2
    <3>2. values[k + (i - k)] = q[i - k]
      BY <1>1, <1>2, <1>3, <3>1 DEF Ordered
    <3> QED
      BY <1>6, <2>2, <3>1, <3>2
  <2> QED
    BY <2>1, <2>2
<1>9. values = all
  BY <1>3, <1>6, <1>7, <1>8, SeqEqual
<1> QED
  BY <1>1, <1>5, <1>9, MasterOK DEF ArrivalOrder, ValueIn

(* Slots are given out in the order of the calls to commit, also when      *)
(* calls find values in the queue, and whatever is lost.                   *)
THEOREM ArrivalOrderKept == OneMaster => (AllSpec => []ArrivalOrder)
<1> SUFFICES ASSUME OneMaster PROVE AllSpec => []ArrivalOrder
  OBVIOUS
<1>1. AllInit => WorkInv /\ MasterInv /\ OrderInv
  BY InitWork, InitMaster, InitOrder DEF AllInit
<1>2. WorkInv /\ MasterInv /\ OrderInv /\ [AllNext]_allvars
        => WorkInv' /\ MasterInv' /\ OrderInv'
  BY AllNextWork, AllNextMaster, AllNextOrder
<1>3. WorkInv /\ OrderInv => ArrivalOrder
  BY OrderImplied DEF WorkInv
<1> QED
  BY <1>1, <1>2, <1>3, PTL DEF AllSpec

-----------------------------------------------------------------------------
(* The replicated log.  Votes are for what the master has given out; a slot*)
(* is decided as soon as a quorum has voted, and chosen by the master when *)
(* it has heard of it.                                                     *)

(* A vote for what captain c of the master has given slot s *)
Choice(c, s) == <<s, MasterBallot, ValueIn(c, s)>>

Voters(c, s) == {a \in Node : Choice(c, s) \in votes[a]}

(* Node a has voted in slots of c only, and wherever it shows it or has    *)
(* said so.                                                                *)
VotesOK(c, a) ==
  /\ \A v \in votes[a] : \E s \in Slot : s =< c.max_slot /\ v = Choice(c, s)
  /\ \A s \in Slot :
       captains[a].acceptors[s] # NewAcceptor => Choice(c, s) \in votes[a]
  /\ \A s \in Slot :
       s =< c.max_slot /\ c.proposers[s].ack_accept[a] = "yes"
         => Choice(c, s) \in votes[a]
  /\ \A m \in Entries(replies[a][Master]) : Choice(c, m.slot) \in votes[a]

VotesInv ==
  LET c == captains[Master]
  IN  /\ issued = {Choice(c, s) : s \in 1 .. c.max_slot}
      /\ \A a \in Node : VotesOK(c, a)
      /\ \A s \in Slot : c.proposers[s].status = "CHOSEN" =>
           Cardinality(Voters(c, s)) >= QuorumSize

Known(x) == {s \in Slot : ChosenIn(x.chosen_values, s) # Null}

(* Captain x has no slot that c has not chosen, and has not delivered      *)
(* beyond a hole.                                                          *)
Delivers(c, x) ==
  /\ \A s \in Known(x) : c.proposers[s].status = "CHOSEN"
  /\ \A i \in 1 .. x.max_chosen_without_hole : x.chosen_values[i] # Null

DeliveryInv == \A n \in Node : Delivers(captains[Master], captains[n])

LogInv == VotesInv /\ DeliveryInv /\ NoTwice(submitted[Master])

LEMMA VotesAre ==
  ASSUME OneMaster, TypeInv', BystanderInv', MasterInv', Recorded
  PROVE  /\ \A a \in Node : \A x : x \in votes'[a] <=>
              \/ x \in votes[a]
              \/ \E s \in Slot : /\ captains'[a].acceptors[s] # NewAcceptor
                                 /\ x = Choice(captains'[Master], s)
         /\ \A x : x \in issued' <=>
              \/ x \in issued
              \/ \E s \in Slot :
                   /\ captains'[Master].proposers[s].status = "PHASEII"
                   /\ x = Choice(captains'[Master], s)
<1>1. PICK d : d = captains'[Master]
  OBVIOUS
<1>2. /\ Master \in Node /\ d \in Captains /\ Ready(d) /\ Unopposed(d)
      /\ d.max_slot \in Nat /\ \A s \in Slot : s \in Nat
  BY <1>1, MasterOK, CaptainFields, MaxSlotNat DEF TypeInv, MasterInv
<1>3. ASSUME NEW a \in Node, NEW x
      PROVE  x \in votes'[a] <=>
               \/ x \in votes[a]
               \/ \E s \in Slot : /\ captains'[a].acceptors[s] # NewAcceptor
                                  /\ x = Choice(d, s)
  <2>1. PICK y : y = captains'[a]
    OBVIOUS
  <2>2. Follows(d, y)
    BY <1>1, <2>1 DEF MasterInv
  <2>3. votes'[a] = votes[a] \cup
          {<<s, y.acceptors[s].max_accepted_ballot, y.acceptors[s].max_value>> :
             s \in {s \in Slot : y.acceptors[s].max_value # Null}}
    BY <2>1 DEF Recorded
  <2>4. ASSUME NEW s \in Slot
        PROVE  /\ y.acceptors[s].max_value # Null <=>
                    y.acceptors[s] # NewAcceptor
               /\ y.acceptors[s] # NewAcceptor =>
                    <<s, y.acceptors[s].max_accepted_ballot,
                         y.acceptors[s].max_value>> = Choice(d, s)
    <3>1. CASE y.acceptors[s] = NewAcceptor
      BY <3>1 DEF NewAcceptor
    <3>2. CASE s =< d.max_slot /\ y.acceptors[s] = Voted(ValueIn(d, s))
      <4>1. ~(s > d.max_slot)
        BY <1>2, <3>2
      <4>2. ValueIn(d, s) \in Value
        BY <1>2, <4>1 DEF Ready, ProposerReady, ValueIn
      <4>3. ValueIn(d, s) # Null
        BY <4>2, NullAssumption DEF NullAssumption
      <4>4. /\ y.acceptors[s].max_value = ValueIn(d, s)
            /\ y.acceptors[s].max_accepted_ballot = MasterBallot
        BY <3>2 DEF Voted
      <4>5. y.acceptors[s] # NewAcceptor
        BY <4>3, <4>4 DEF NewAcceptor
      <4> QED
        BY <4>3, <4>4, <4>5 DEF Choice
    <3> QED
      BY <2>2, <3>1, <3>2 DEF Follows
  <2>5. \A s \in Slot : /\ captains'[a].acceptors[s] = y.acceptors[s]
    BY <2>1
  <2> HIDE DEF Choice
  <2> QED
    BY <2>3, <2>4, <2>5
<1>4. ASSUME NEW x
      PROVE  x \in issued' <=>
               \/ x \in issued
               \/ \E s \in Slot : /\ d.proposers[s].status = "PHASEII"
                                  /\ x = Choice(d, s)
  <2>1. issued' = issued \cup UNION
          {{<<s, captains'[n].proposers[s].curr_ballot,
                 captains'[n].proposers[s].curr_value>> :
              s \in {s \in Slot : captains'[n].proposers[s].status = "PHASEII"}} :
             n \in Node}
    BY DEF Recorded
  <2>2. \A n \in Node, s \in Slot :
          captains'[n].proposers[s].status = "PHASEII" => n = Master
    <3>1. ASSUME NEW n \in Node, NEW s \in Slot, n # Master,
                 captains'[n].proposers[s].status = "PHASEII"
          PROVE  FALSE
      <4>1. Active(captains'[n]) = {}
        BY <3>1, MasterOK DEF BystanderInv
      <4>2. s \in Active(captains'[n])
        BY <3>1 DEF Active
      <4> QED
        BY <4>1, <4>2
    <3> QED
      BY <3>1
  <2>3. ASSUME NEW s \in Slot, d.proposers[s].status = "PHASEII"
        PROVE  <<s, d.proposers[s].curr_ballot, d.proposers[s].curr_value>>
                 = Choice(d, s)
    <3>1. d.proposers[s].status # "EMPTY"
      BY <2>3
    <3>2. s =< d.max_slot
      BY <1>2, <3>1 DEF Ready
    <3> QED
      BY <1>2, <3>2 DEF Unopposed, Choice, ValueIn
  <2>4. x \in issued' <=>
          \/ x \in issued
          \/ \E n \in Node : \E s \in Slot :
               /\ captains'[n].proposers[s].status = "PHASEII"
               /\ x = <<s, captains'[n].proposers[s].curr_ballot,
                           captains'[n].proposers[s].curr_value>>
    BY <2>1
  <2>5. x \in issued' <=>
          \/ x \in issued
          \/ \E s \in Slot :
               /\ d.proposers[s].status = "PHASEII"
               /\ x = <<s, d.proposers[s].curr_ballot,
                           d.proposers[s].curr_value>>
    BY <1>1, <1>2, <2>2, <2>4
  <2> QED
    BY <2>3, <2>5
<1> QED
  BY <1>1, <1>3, <1>4

(* Votes are never taken back, and what the master gave out stays. *)
LEMMA VotesKept ==
  ASSUME OneMaster, TypeInv, TypeInv', BystanderInv', MasterInv, MasterInv',
         VotesInv, Recorded, NEW c, c = captains[Master],
         NEW d, d = captains'[Master], Grows(c, d),
         \A s \in Slot : s > c.max_slot /\ s =< d.max_slot =>
           d.proposers[s].status = "PHASEII",
         \A s \in Slot : d.proposers[s].status = "CHOSEN" =>
           c.proposers[s].status = "CHOSEN" \/ EnoughAccepted(d.proposers[s]),
         \A a \in Node : \A s \in Slot :
           s =< d.max_slot /\ d.proposers[s].ack_accept[a] = "yes" =>
             \/ s =< c.max_slot /\ c.proposers[s].ack_accept[a] = "yes"
             \/ captains'[a].acceptors[s] # NewAcceptor
             \/ \E m \in Entries(replies[a][Master]) : m.slot = s,
         \A a \in Node : \A m \in Entries(replies'[a][Master]) :
           \/ m \in Entries(replies[a][Master])
           \/ m.slot \in Slot /\ captains'[a].acceptors[m.slot] # NewAcceptor
  PROVE  VotesInv'
<1>1. /\ Master \in Node /\ Ready(c) /\ Ready(d)
      /\ c \in Captains /\ d \in Captains /\ Unopposed(d)
      /\ c.max_slot \in Nat /\ d.max_slot \in Nat /\ c.max_slot =< d.max_slot
      /\ c.max_slot =< MaxSlot /\ d.max_slot =< MaxSlot /\ MaxSlot \in Nat
      /\ \A s \in Slot : s \in Nat
      /\ Slot = 1 .. MaxSlot
      /\ \A s \in Slot : s =< c.max_slot => Choice(d, s) = Choice(c, s)
  BY MasterOK, CaptainFields, MaxSlotNat DEF TypeInv, MasterInv, Grows, Choice
<1>2. /\ \A a \in Node : \A x : x \in votes'[a] <=>
           \/ x \in votes[a]
           \/ \E s \in Slot : /\ captains'[a].acceptors[s] # NewAcceptor
                              /\ x = Choice(d, s)
      /\ \A x : x \in issued' <=>
           \/ x \in issued
           \/ \E s \in Slot : /\ d.proposers[s].status = "PHASEII"
                              /\ x = Choice(d, s)
  BY VotesAre
<1>3. issued' = {Choice(d, s) : s \in 1 .. d.max_slot}
  <2>1. issued = {Choice(c, s) : s \in 1 .. c.max_slot}
    BY DEF VotesInv
  <2>2. ASSUME NEW x \in issued' PROVE \E s \in 1 .. d.max_slot : x = Choice(d, s)
    <3>1. CASE x \in issued
      <4>1. PICK s \in 1 .. c.max_slot : x = Choice(c, s)
        BY <2>1, <3>1
      <4>2. s \in Slot /\ s =< c.max_slot /\ s \in 1 .. d.max_slot
        BY <1>1, <4>1
      <4> QED
        BY <1>1, <4>1, <4>2
    <3>2. ASSUME NEW s \in Slot, d.proposers[s].status = "PHASEII",
                 x = Choice(d, s)
          PROVE  \E t \in 1 .. d.max_slot : x = Choice(d, t)
      <4>1. ~(s > d.max_slot)
        BY <1>1, <3>2 DEF Ready
      <4>2. s \in 1 .. d.max_slot
        BY <1>1, <4>1
      <4> QED
        BY <3>2, <4>2
    <3> QED
      BY <1>2, <2>2, <3>1, <3>2
  <2>3. ASSUME NEW s \in 1 .. d.max_slot PROVE Choice(d, s) \in issued'
    <3>1. s \in Slot /\ s \in Nat
      BY <1>1
    <3>2. CASE s =< c.max_slot
      <4>1. s \in 1 .. c.max_slot
        BY <1>1, <3>2
      <4>2. Choice(c, s) \in issued
        BY <2>1, <4>1
      <4> QED
        BY <1>1, <1>2, <3>1, <3>2, <4>2
    <3>3. CASE s > c.max_slot
      BY <1>2, <3>1, <3>3
    <3> QED
      BY <1>1, <3>1, <3>2, <3>3
  <2> QED
    BY <2>2, <2>3
<1>4. ASSUME NEW a \in Node
      PROVE  /\ \A v \in votes'[a] :
                  \E s \in Slot : s =< d.max_slot /\ v = Choice(d, s)
             /\ \A s \in Slot : captains'[a].acceptors[s] # NewAcceptor =>
                  Choice(d, s) \in votes'[a]
             /\ \A s \in Slot :
                  s =< d.max_slot /\ d.proposers[s].ack_accept[a] = "yes"
                    => Choice(d, s) \in votes'[a]
             /\ \A m \in Entries(replies'[a][Master]) :
                  Choice(d, m.slot) \in votes'[a]
  <2>1. VotesOK(c, a)
    BY DEF VotesInv
  <2>2. \A v \in votes'[a] : \E s \in Slot : s =< d.max_slot /\ v = Choice(d, s)
    <3> SUFFICES ASSUME NEW v \in votes'[a]
                 PROVE  \E s \in Slot : s =< d.max_slot /\ v = Choice(d, s)
      OBVIOUS
    <3>1. CASE v \in votes[a]
      <4>1. PICK s \in Slot : s =< c.max_slot /\ v = Choice(c, s)
        BY <2>1, <3>1 DEF VotesOK
      <4>2. s =< d.max_slot
        BY <1>1, <4>1
      <4> QED
        BY <1>1, <4>1, <4>2
    <3>2. ASSUME NEW s \in Slot, captains'[a].acceptors[s] # NewAcceptor,
                 v = Choice(d, s)
          PROVE  s =< d.max_slot
      BY <3>2 DEF MasterInv, Follows
    <3> QED
      BY <1>2, <3>1, <3>2
  <2>3. \A s \in Slot : captains'[a].acceptors[s] # NewAcceptor =>
          Choice(d, s) \in votes'[a]
    BY <1>2
  <2>4. ASSUME NEW m \in Entries(replies[a][Master])
        PROVE  /\ m.slot \in Slot /\ m.slot =< c.max_slot
               /\ Choice(d, m.slot) \in votes'[a]
    <3>1. AnswerOK(c, m)
      BY <1>1 DEF MasterInv, RepliesSay
    <3>2. m \in Answers
      <4>1. replies[a][Master] \in Seq(Answers)
        BY <1>1 DEF TypeInv, RepliesOK
      <4> QED
        BY <4>1, ElementOfSeq, LenProperties DEF Entries
    <3>3. m.slot \in Slot /\ m.slot =< c.max_slot
      BY <3>1, <3>2 DEF AnswerOK, Answers
    <3>4. Choice(c, m.slot) \in votes[a]
      BY <2>1 DEF VotesOK
    <3> QED
      BY <1>1, <1>2, <3>3, <3>4
  <2>5. \A s \in Slot : s =< d.max_slot /\ d.proposers[s].ack_accept[a] = "yes"
          => Choice(d, s) \in votes'[a]
    <3> SUFFICES ASSUME NEW s \in Slot, s =< d.max_slot,
                        d.proposers[s].ack_accept[a] = "yes"
                 PROVE  Choice(d, s) \in votes'[a]
      OBVIOUS
    <3>1. CASE s =< c.max_slot /\ c.proposers[s].ack_accept[a] = "yes"
      <4>1. Choice(c, s) \in votes[a]
        BY <2>1, <3>1 DEF VotesOK
      <4> QED
        BY <1>1, <1>2, <3>1, <4>1
    <3> QED
      BY <2>3, <2>4, <3>1
  <2>6. \A m \in Entries(replies'[a][Master]) : Choice(d, m.slot) \in votes'[a]
    BY <2>3, <2>4
  <2> QED
    BY <2>2, <2>3, <2>5, <2>6
<1>5. ASSUME NEW s \in Slot, d.proposers[s].status = "CHOSEN"
      PROVE  Cardinality(Voters(d, s)') >= QuorumSize
  <2>1. s =< d.max_slot
    <3>1. ~(s > d.max_slot)
      BY <1>1, <1>5 DEF Ready
    <3> QED
      BY <1>1, <3>1
  <2>2. PICK V : V = {a \in Node : Choice(d, s) \in votes'[a]}
    OBVIOUS
  <2>3. IsFiniteSet(V) /\ Cardinality(V) \in Nat /\ QuorumSize \in Nat
    BY <2>2, NodeFinite, FS_Subset, FS_CardinalityType DEF QuorumSize
  <2>4. CASE c.proposers[s].status = "CHOSEN"
    <3>1. s =< c.max_slot
      <4>1. ~(s > c.max_slot)
        BY <1>1, <2>4 DEF Ready
      <4> QED
        BY <1>1, <4>1
    <3>2. PICK W : W = {a \in Node : Choice(c, s) \in votes[a]}
      OBVIOUS
    <3>3. Cardinality(W) >= QuorumSize
      BY <2>4, <3>2 DEF VotesInv, Voters
    <3>4. W \subseteq V
      BY <1>1, <1>2, <2>2, <3>1, <3>2
    <3>5. Cardinality(W) =< Cardinality(V) /\ Cardinality(W) \in Nat
      BY <2>3, <3>4, FS_Subset, FS_CardinalityType
    <3>6. Cardinality(V) >= QuorumSize
      BY <2>3, <3>3, <3>5
    <3> QED
      BY <2>2, <3>6 DEF Voters
  <2>5. CASE EnoughAccepted(d.proposers[s])
    <3>1. PICK p : p = d.proposers[s]
      OBVIOUS
    <3>2. PICK W : W = {a \in Node : p.ack_accept[a] # "none"}
      OBVIOUS
    <3>3. Cardinality(W) >= QuorumSize
      BY <2>5, <3>1, <3>2 DEF EnoughAccepted
    <3>4. \A a \in W : a \in Node /\ p.ack_accept[a] = "yes"
      <4>1. p \in Proposers
        BY <1>1, <3>1, CaptainFields
      <4>2. \A a \in Node : p.ack_accept[a] \in {"none", "yes", "no"}
        BY <4>1 DEF Proposers, Replies
      <4>3. \A a \in Node : p.ack_accept[a] # "no"
        BY <1>1, <2>1, <3>1 DEF Unopposed
      <4> QED
        BY <3>2, <4>2, <4>3
    <3>5. W \subseteq V
      BY <1>4, <2>1, <2>2, <3>1, <3>4
    <3>6. Cardinality(W) =< Cardinality(V) /\ Cardinality(W) \in Nat
      BY <2>3, <3>5, FS_Subset, FS_CardinalityType
    <3>7. Cardinality(V) >= QuorumSize
      BY <2>3, <3>3, <3>6
    <3> QED
      BY <2>2, <3>7 DEF Voters
  <2> QED
    BY <1>5, <2>4, <2>5
<1>6. \A a \in Node : VotesOK(d, a)'
  BY <1>4 DEF VotesOK
<1> QED
  BY <1>3, <1>5, <1>6 DEF VotesInv

(* What the master does to its slots: the vote of node a in slot t is      *)
(* recorded, if t is a slot, and new slots are opened with its own vote.   *)
Proceeds(c, d, a, t) ==
  /\ Grows(c, d)
  /\ \A s \in Slot : s =< c.max_slot =>
       /\ d.acceptors[s] = c.acceptors[s]
       /\ c.proposers[s].status = "CHOSEN" => d.proposers[s].status = "CHOSEN"
  /\ \A s \in Slot : s > c.max_slot /\ s =< d.max_slot =>
       d.proposers[s].status = "PHASEII"
  /\ \A s \in Slot : d.proposers[s].status = "CHOSEN" =>
       c.proposers[s].status = "CHOSEN" \/ EnoughAccepted(d.proposers[s])
  /\ \A s \in Slot, b \in Node :
       s =< d.max_slot /\ d.proposers[s].ack_accept[b] = "yes" =>
         \/ s =< c.max_slot /\ c.proposers[s].ack_accept[b] = "yes"
         \/ b = Master /\ d.acceptors[s] # NewAcceptor
         \/ b = a /\ s = t

LEMMA SameProceeds ==
  ASSUME NEW c \in Captains, NEW d \in Captains, SameSlots(c, d), NEW a, NEW t
  PROVE  Proceeds(c, d, a, t)
<1>1. /\ d.max_slot = c.max_slot /\ d.last_slot = c.last_slot
      /\ d.proposers = c.proposers /\ d.acceptors = c.acceptors
      /\ c.max_slot \in Nat /\ c.last_slot \in Nat
      /\ \A s \in Slot : s \in Nat
  BY CaptainFields, MaxSlotNat DEF SameSlots
<1>2. Grows(c, d)
  BY <1>1 DEF Grows, ValueIn
<1> QED
  BY <1>1, <1>2 DEF Proceeds

LEMMA MarkedProceeds ==
  ASSUME NEW c \in Captains, NEW d \in Captains, Grows(c, d),
         NEW s \in Slot, NEW a \in Node, NEW st, Marked(c, d, s, a, st),
         c.proposers[s].status = "PHASEII",
         st = "CHOSEN" => EnoughAccepted(d.proposers[s])
  PROVE  Proceeds(c, d, a, s)
<1>1. /\ d.max_slot = c.max_slot /\ d.acceptors = c.acceptors
      /\ \A t \in Slot \ {s} : d.proposers[t] = c.proposers[t]
      /\ d.proposers[s].status = st
      /\ \A n \in Node : d.proposers[s].ack_accept[n] =
           IF n = a THEN "yes" ELSE c.proposers[s].ack_accept[n]
      /\ c.max_slot \in Nat /\ \A t \in Slot : t \in Nat
  BY CaptainFields, MaxSlotNat DEF Marked
<1>2. \A t \in Slot, b \in Node :
        t =< d.max_slot /\ d.proposers[t].ack_accept[b] = "yes" =>
          \/ t =< c.max_slot /\ c.proposers[t].ack_accept[b] = "yes"
          \/ b = a /\ t = s
  <2> SUFFICES ASSUME NEW t \in Slot, NEW b \in Node, t =< d.max_slot,
                      d.proposers[t].ack_accept[b] = "yes"
               PROVE  \/ t =< c.max_slot /\ c.proposers[t].ack_accept[b] = "yes"
                      \/ b = a /\ t = s
    OBVIOUS
  <2>1. CASE t = s
    BY <1>1, <2>1
  <2>2. CASE t # s
    BY <1>1, <2>2
  <2> QED
    BY <2>1, <2>2
<1>3. \A t \in Slot : d.proposers[t].status = "CHOSEN" =>
        c.proposers[t].status = "CHOSEN" \/ EnoughAccepted(d.proposers[t])
  <2> SUFFICES ASSUME NEW t \in Slot, d.proposers[t].status = "CHOSEN"
               PROVE  \/ c.proposers[t].status = "CHOSEN"
                      \/ EnoughAccepted(d.proposers[t])
    OBVIOUS
  <2> QED
    BY <1>1
<1>4. \A t \in Slot : ~(t > c.max_slot /\ t =< d.max_slot)
  BY <1>1
<1>5. \A t \in Slot : c.proposers[t].status = "CHOSEN" =>
        d.proposers[t].status = "CHOSEN"
  BY <1>1
<1> QED
  BY <1>1, <1>2, <1>3, <1>4, <1>5 DEF Proceeds

LEMMA OpensProceeds ==
  ASSUME OneMaster, NEW c \in Captains, NEW e \in Captains,
         NEW d \in Captains, NEW a, NEW t, Proceeds(c, e, a, t),
         e.max_slot = c.max_slot, e.acceptors = c.acceptors,
         Grows(c, d), NEW v \in Value, OpensSlot(e, d, v)
  PROVE  Proceeds(c, d, a, t)
<1>1. PICK s : s = c.max_slot + 1
  OBVIOUS
<1>2. /\ s \in Slot /\ d.max_slot = s /\ c.max_slot \in Nat
      /\ \A r \in Slot : r \in Nat
      /\ \A r \in Slot \ {s} : /\ d.acceptors[r] = c.acceptors[r]
                               /\ d.proposers[r] = e.proposers[r]
      /\ d.acceptors[s] = Voted(v) /\ Fresh(d.proposers[s], v)
  BY <1>1, CaptainFields, MaxSlotNat DEF OpensSlot
<1>3. /\ d.acceptors[s] # NewAcceptor
      /\ d.proposers[s].status = "PHASEII"
      /\ \A b \in Node : d.proposers[s].ack_accept[b] = "yes" => b = Master
  <2>1. v # Null
    BY NullAssumption DEF NullAssumption
  <2>2. d.acceptors[s] # NewAcceptor
    BY <1>2, <2>1 DEF Voted, NewAcceptor
  <2> QED
    BY <1>2, <2>2 DEF Fresh
<1>4. ASSUME NEW r \in Slot, r =< c.max_slot
      PROVE  /\ d.acceptors[r] = c.acceptors[r]
             /\ c.proposers[r].status = "CHOSEN" =>
                  d.proposers[r].status = "CHOSEN"
  <2>1. r # s
    BY <1>1, <1>2, <1>4
  <2> QED
    BY <1>2, <1>4, <2>1 DEF Proceeds
<1>5. \A r \in Slot : r > c.max_slot /\ r =< d.max_slot => r = s
  BY <1>1, <1>2
<1>6. \A r \in Slot : r # s /\ r =< d.max_slot => r =< c.max_slot
  BY <1>1, <1>2
<1>7. ASSUME NEW r \in Slot, d.proposers[r].status = "CHOSEN"
      PROVE  c.proposers[r].status = "CHOSEN" \/ EnoughAccepted(d.proposers[r])
  <2>1. r # s /\ d.proposers[r] = e.proposers[r]
    BY <1>2, <1>3, <1>7
  <2> QED
    BY <1>7, <2>1 DEF Proceeds
<1>8. ASSUME NEW r \in Slot, NEW b \in Node, r =< d.max_slot,
             d.proposers[r].ack_accept[b] = "yes"
      PROVE  \/ r =< c.max_slot /\ c.proposers[r].ack_accept[b] = "yes"
             \/ b = Master /\ d.acceptors[r] # NewAcceptor
             \/ b = a /\ r = t
  <2>1. CASE r = s
    BY <1>3, <1>8, <2>1
  <2>2. CASE r # s
    <3>1. /\ r =< e.max_slot /\ e.proposers[r].ack_accept[b] = "yes"
          /\ e.acceptors[r] = d.acceptors[r]
      BY <1>2, <1>6, <1>8, <2>2
    <3> QED
      BY <3>1 DEF Proceeds
  <2> QED
    BY <2>1, <2>2
<1> QED
  BY <1>3, <1>4, <1>5, <1>7, <1>8 DEF Proceeds

LEMMA SubmitsProceeds ==
  ASSUME OneMaster, TypeInv, TypeInv', MasterInv, NEW v \in Value, Submits(v)
  PROVE  Proceeds(captains[Master], captains'[Master], Master, 0)
<1>1. PICK c, d : c = captains[Master] /\ d = captains'[Master]
  OBVIOUS
<1>2. /\ Ready(c) /\ Ready(d) /\ Sound(c) /\ c \in Captains /\ d \in Captains
  BY <1>1, MasterOK DEF TypeInv, MasterInv, Sound
<1>3. CASE SameSlots(c, d)
  BY <1>1, <1>2, <1>3, SameProceeds
<1>4. CASE OpensSlot(c, d, v)
  <2>1. Grows(c, d)
    BY <1>2, <1>4, OpensSound
  <2>2. Proceeds(c, c, Master, 0)
    BY <1>2, SameProceeds DEF SameSlots
  <2>3. Proceeds(c, d, Master, 0)
    BY <1>2, <1>4, <2>1, <2>2, OpensProceeds
  <2> QED
    BY <1>1, <2>3
<1> QED
  BY <1>1, <1>3, <1>4 DEF Submits

LEMMA RecordsProceeds ==
  ASSUME OneMaster, TypeInv, TypeInv', MasterInv, NEW a \in Others(Master),
         Records(a)
  PROVE  /\ Alone(Master)
         /\ Proceeds(captains[Master], captains'[Master], a,
                     Head(replies[a][Master]).slot)
<1>1. PICK c, d, s : /\ c = captains[Master] /\ d = captains'[Master]
                     /\ s = Head(replies[a][Master]).slot
  OBVIOUS
<1>2. /\ Ready(c) /\ Ready(d) /\ Sound(c) /\ c \in Captains /\ d \in Captains
      /\ Master \in Node /\ a \in Node /\ a # Master
  BY <1>1, MasterOK DEF TypeInv, MasterInv, Sound, Others
<1>3. s \in Slot /\ c.tocommit_values \in Seq(Value)
  BY <1>1, <1>2, FirstReply, CaptainFields DEF Records, ReplyTaken
<1>4. CASE UNCHANGED captains
  <2>1. SameSlots(c, d)
    BY <1>1, <1>4 DEF SameSlots
  <2> QED
    BY <1>1, <1>2, <1>4, <2>1, SameProceeds DEF Alone
<1>5. CASE /\ c.proposers[s].status = "PHASEII" /\ Alone(Master)
           /\ Marked(c, d, s, a, "PHASEII") /\ SameLog(c, d)
  <2>1. Grows(c, d)
    BY <1>2, <1>3, <1>5, MarkedSound
  <2>2. Proceeds(c, d, a, s)
    BY <1>2, <1>3, <1>5, <2>1, MarkedProceeds
  <2> QED
    BY <1>1, <1>5, <2>2
<1>6. ASSUME c.proposers[s].status = "PHASEII", Alone(Master),
             NEW e, Ready(e), Marked(c, e, s, a, "CHOSEN"),
             EnoughAccepted(e.proposers[s]), Logged(c, e, s, ValueIn(c, s)),
             \/ d = e
             \/ /\ c.tocommit_values # <<>>
                /\ OpensSlot(e, d, Head(c.tocommit_values))
      PROVE  Alone(Master) /\ Proceeds(c, d, a, s)
  <2>1. Sound(e) /\ Grows(c, e) /\ e \in Captains
    BY <1>2, <1>3, <1>6, MarkedSound DEF Ready
  <2>2. Proceeds(c, e, a, s)
    BY <1>2, <1>3, <1>6, <2>1, MarkedProceeds
  <2>3. CASE d = e
    BY <1>6, <2>2, <2>3
  <2>4. ASSUME c.tocommit_values # <<>>,
               OpensSlot(e, d, Head(c.tocommit_values))
        PROVE  Proceeds(c, d, a, s)
    <3>1. PICK v : v = Head(c.tocommit_values)
      OBVIOUS
    <3>2. v \in Value
      BY <1>3, <2>4, <3>1, HeadTailProperties
    <3>3. Grows(e, d)
      BY <1>2, <1>6, <2>1, <2>4, <3>1, <3>2, OpensSound
    <3>4. e.max_slot = c.max_slot /\ e.acceptors = c.acceptors
      BY <1>6 DEF Marked
    <3>5. Grows(c, d)
      <4>1. /\ c.max_slot \in Nat /\ d.max_slot \in Nat
            /\ c.last_slot \in Nat /\ e.last_slot \in Nat /\ d.last_slot \in Nat
        BY <1>2, <2>1, CaptainFields
      <4> QED
        BY <2>1, <3>3, <3>4, <4>1 DEF Grows
    <3> QED
      BY <1>2, <2>1, <2>2, <2>4, <3>1, <3>2, <3>4, <3>5, OpensProceeds
  <2> QED
    BY <1>6, <2>3, <2>4
<1> QED
  BY <1>1, <1>4, <1>5, <1>6 DEF Records

LEMMA MasterVotes ==
  ASSUME OneMaster, TypeInv, TypeInv', BystanderInv', MasterInv, MasterInv',
         VotesInv, Recorded, Alone(Master), NEW a \in Node, NEW t,
         Proceeds(captains[Master], captains'[Master], a, t),
         t = 0 \/ \E m \in Entries(replies[a][Master]) : m.slot = t,
         \A b \in Node : Entries(replies'[b][Master])
                           \subseteq Entries(replies[b][Master])
  PROVE  VotesInv'
<1>1. PICK c, d : c = captains[Master] /\ d = captains'[Master]
  OBVIOUS
<1>2. Proceeds(c, d, a, t) /\ Master \in Node
  BY <1>1, MasterOK
<1>3. Grows(c, d)
  BY <1>2 DEF Proceeds
<1>4. \A s \in Slot : s > c.max_slot /\ s =< d.max_slot =>
        d.proposers[s].status = "PHASEII"
  BY <1>2 DEF Proceeds
<1>5. \A s \in Slot : d.proposers[s].status = "CHOSEN" =>
        c.proposers[s].status = "CHOSEN" \/ EnoughAccepted(d.proposers[s])
  BY <1>2 DEF Proceeds
<1>6. \A b \in Node : \A s \in Slot :
        s =< d.max_slot /\ d.proposers[s].ack_accept[b] = "yes" =>
          \/ s =< c.max_slot /\ c.proposers[s].ack_accept[b] = "yes"
          \/ captains'[b].acceptors[s] # NewAcceptor
          \/ \E m \in Entries(replies[b][Master]) : m.slot = s
  <2> SUFFICES ASSUME NEW b \in Node, NEW s \in Slot, s =< d.max_slot,
                      d.proposers[s].ack_accept[b] = "yes"
               PROVE  \/ s =< c.max_slot
                         /\ c.proposers[s].ack_accept[b] = "yes"
                      \/ captains'[b].acceptors[s] # NewAcceptor
                      \/ \E m \in Entries(replies[b][Master]) : m.slot = s
    OBVIOUS
  <2>1. s # 0
    BY MaxSlotNat
  <2>2. \/ s =< c.max_slot /\ c.proposers[s].ack_accept[b] = "yes"
        \/ b = Master /\ d.acceptors[s] # NewAcceptor
        \/ b = a /\ s = t
    BY <1>2 DEF Proceeds
  <2> QED
    BY <1>1, <2>1, <2>2
<1>7. \A b \in Node : \A m \in Entries(replies'[b][Master]) :
        \/ m \in Entries(replies[b][Master])
        \/ m.slot \in Slot /\ captains'[b].acceptors[m.slot] # NewAcceptor
  OBVIOUS
<1> QED
  BY <1>1, <1>3, <1>4, <1>5, <1>6, <1>7, VotesKept

LEMMA LosesVotes ==
  ASSUME OneMaster, TypeInv, TypeInv', BystanderInv', MasterInv, MasterInv',
         VotesInv, Recorded, NEW a \in Others(Master), Loses(a)
  PROVE  VotesInv'
<1>1. UNCHANGED captains /\ a \in Node /\ Master \in Node
  BY MasterOK DEF Loses, Others
<1>2. Alone(Master)
  BY <1>1 DEF Alone
<1>3. Proceeds(captains[Master], captains'[Master], Master, 0)
  <2>1. PICK c : c = captains[Master]
    OBVIOUS
  <2>2. c \in Captains /\ SameSlots(c, c)
    BY <1>1, <2>1 DEF TypeInv, SameSlots
  <2> QED
    BY <1>1, <2>1, <2>2, SameProceeds
<1>4. \A b \in Node : Entries(replies'[b][Master])
                        \subseteq Entries(replies[b][Master])
  <2>1. CASE UNCHANGED replies
    BY <2>1
  <2>2. CASE ReplyTaken(a, Master)
    <3>1. PICK q : q = replies[a][Master]
      OBVIOUS
    <3>2. Entries(Tail(q)) \subseteq Entries(q)
      BY <1>1, <2>2, <3>1, TailEntries DEF TypeInv, RepliesOK, ReplyTaken
    <3> QED
      BY <1>1, <2>2, <3>1, <3>2 DEF ReplyTaken
  <2> QED
    BY <2>1, <2>2 DEF Loses
<1> QED
  BY <1>1, <1>2, <1>3, <1>4, MasterVotes

LEMMA SubmitsVotes ==
  ASSUME OneMaster, TypeInv, TypeInv', BystanderInv', MasterInv, MasterInv',
         VotesInv, Recorded, NEW v \in Value, Submits(v)
  PROVE  VotesInv'
<1>1. Master \in Node /\ Alone(Master) /\ UNCHANGED replies
  BY MasterOK DEF Submits
<1>2. \A b \in Node : Entries(replies'[b][Master])
                        \subseteq Entries(replies[b][Master])
  BY <1>1
<1> QED
  BY <1>1, <1>2, SubmitsProceeds, MasterVotes

LEMMA RecordsVotes ==
  ASSUME OneMaster, TypeInv, TypeInv', BystanderInv', MasterInv, MasterInv',
         VotesInv, Recorded, NEW a \in Others(Master), Records(a)
  PROVE  VotesInv'
<1>1. Master \in Node /\ a \in Node /\ ReplyTaken(a, Master)
  BY MasterOK DEF Others, Records
<1>2. PICK q, m : q = replies[a][Master] /\ m = Head(q)
  OBVIOUS
<1>3. Entries(Tail(q)) \subseteq Entries(q) /\ m \in Entries(q)
  BY <1>1, <1>2, TailEntries DEF TypeInv, RepliesOK, ReplyTaken
<1>4. \A b \in Node : Entries(replies'[b][Master])
                        \subseteq Entries(replies[b][Master])
  BY <1>1, <1>2, <1>3 DEF ReplyTaken
<1>5. \E k \in Entries(replies[a][Master]) : k.slot = m.slot
  BY <1>2, <1>3
<1>6. /\ Alone(Master)
      /\ Proceeds(captains[Master], captains'[Master], a, m.slot)
  BY <1>2, RecordsProceeds
<1> QED
  BY <1>1, <1>4, <1>5, <1>6, MasterVotes

(* A follower votes, and answers after that. *)
LEMMA HearsVotes ==
  ASSUME OneMaster, TypeInv, TypeInv', BystanderInv', MasterInv, MasterInv',
         VotesInv, Recorded, NEW a \in Others(Master), Hears(a)
  PROVE  VotesInv'
<1>1. PICK c, x, y, m : /\ c = captains[Master] /\ x = captains[a]
                        /\ y = captains'[a] /\ m = Head(requests[Master][a])
  OBVIOUS
<1>2. /\ Master \in Node /\ a \in Node /\ a # Master
      /\ captains'[Master] = c /\ HearsIn(a, x, y, m)
      /\ RequestTaken(Master, a) /\ c \in Captains
  BY <1>1, MasterOK DEF Others, Hears, Alone, TypeInv
<1>3. m.slot \in Slot /\ m.value \in Value
  BY <1>1, <1>2, FirstRequest DEF RequestTaken
<1>4. y.acceptors[m.slot] # NewAcceptor
  <2>1. m.value # Null
    BY <1>3, NullAssumption DEF NullAssumption
  <2>2. y.acceptors[m.slot] = Voted(m.value)
    BY <1>2, <1>3 DEF HearsIn
  <2> QED
    BY <2>1, <2>2 DEF Voted, NewAcceptor
<1>5. Grows(c, c)
  <2>1. c.max_slot \in Nat /\ c.last_slot \in Nat
    BY <1>2, CaptainFields
  <2> QED
    BY <2>1 DEF Grows
<1>6. \A s \in Slot : ~(s > c.max_slot /\ s =< c.max_slot)
  BY <1>2, CaptainFields, MaxSlotNat
<1>7. \A b \in Node : \A k \in Entries(replies'[b][Master]) :
        \/ k \in Entries(replies[b][Master])
        \/ k.slot \in Slot /\ captains'[b].acceptors[k.slot] # NewAcceptor
  <2> SUFFICES ASSUME NEW b \in Node, NEW k \in Entries(replies'[b][Master]),
                      k \notin Entries(replies[b][Master])
               PROVE  /\ k.slot \in Slot
                      /\ captains'[b].acceptors[k.slot] # NewAcceptor
    OBVIOUS
  <2>1. PICK n : n = AcceptedMsg(m.slot, MasterBallot, "yes")
    OBVIOUS
  <2>2. Answered(a, n)
    BY <1>2, <2>1 DEF HearsIn
  <2>3. n.slot = m.slot /\ n \in Answers
    BY <1>3, <2>1, MasterOK DEF AcceptedMsg, Answers, Replies
  <2>4. CASE b = a
    <3>1. PICK q : q = replies[b][Master]
      OBVIOUS
    <3>2. q \in Seq(Answers) /\ replies'[b][Master] = Append(q, n)
      BY <1>2, <2>2, <2>4, <3>1 DEF TypeInv, RepliesOK, Answered
    <3>3. k = n
      BY <2>3, <3>1, <3>2, AppendEntries
    <3> QED
      BY <1>1, <1>3, <1>4, <2>3, <2>4, <3>3
  <2>5. CASE b # a
    BY <1>2, <2>2, <2>5 DEF Answered
  <2> QED
    BY <2>4, <2>5
<1> QED
  BY <1>1, <1>2, <1>5, <1>6, <1>7, VotesKept

(* A follower that starts again has forgotten its votes; they are history. *)
LEMMA CrashVotes ==
  ASSUME OneMaster, TypeInv, TypeInv', BystanderInv', MasterInv, MasterInv',
         VotesInv, Recorded, NEW a \in Node, Crash(a)
  PROVE  VotesInv'
<1>1. PICK c : c = captains[Master]
  OBVIOUS
<1>2. /\ captains'[Master] = c /\ UNCHANGED replies /\ c \in Captains
  BY <1>1, MasterOK, RestartAssumption DEF Crash, RestartAssumption, TypeInv
<1>3. Grows(c, c)
  <2>1. c.max_slot \in Nat /\ c.last_slot \in Nat
    BY <1>2, CaptainFields
  <2> QED
    BY <2>1 DEF Grows
<1>4. \A s \in Slot : ~(s > c.max_slot /\ s =< c.max_slot)
  BY <1>2, CaptainFields, MaxSlotNat
<1> QED
  BY <1>1, <1>2, <1>3, <1>4, VotesKept

LEMMA AllNextVotes ==
  ASSUME OneMaster, WorkInv, WorkInv', MasterInv, MasterInv', VotesInv,
         [AllNext]_allvars
  PROVE  VotesInv'
<1>1. TypeInv /\ TypeInv' /\ BystanderInv'
  BY DEF WorkInv
<1>2. CASE Next /\ Recorded
  <2>1. MasterStep
    BY <1>2, NextMaster
  <2> QED
    BY <1>1, <1>2, <2>1, SubmitsVotes, HearsVotes, RecordsVotes, LosesVotes
    DEF MasterStep
<1>3. CASE (\E a \in Node : Crash(a)) /\ Recorded
  BY <1>1, <1>3, CrashVotes
<1>4. CASE UNCHANGED allvars
  BY <1>4 DEF allvars, vars, VotesInv, VotesOK, Voters
<1> QED
  BY <1>2, <1>3, <1>4 DEF AllNext

LEMMA InitVotes == OneMaster /\ AllInit => VotesInv
<1> SUFFICES ASSUME OneMaster, AllInit PROVE VotesInv
  OBVIOUS
<1>1. /\ Master \in Node /\ captains[Master] = NewCaptain
      /\ \A a \in Node : /\ captains[a] = NewCaptain /\ votes[a] = {}
                         /\ replies[a][Master] = <<>>
      /\ issued = {}
  BY MasterOK DEF AllInit, Init
<1>2. /\ NewCaptain.max_slot = 0
      /\ \A s \in Slot : /\ NewCaptain.acceptors[s] = NewAcceptor
                         /\ NewCaptain.proposers[s].status = "EMPTY"
                         /\ ~(s =< 0)
  BY MaxSlotNat DEF NewCaptain, NewProposer
<1>3. \A a \in Node : VotesOK(NewCaptain, a)
  BY <1>1, <1>2, EmptyEntries DEF VotesOK
<1>4. {Choice(NewCaptain, s) : s \in 1 .. 0} = {}
  OBVIOUS
<1> QED
  BY <1>1, <1>2, <1>3, <1>4 DEF VotesInv

(* The log of captain x is that of y, or y has one slot more, which the    *)
(* master has chosen.                                                      *)
LogStep(d, x, y) ==
  \/ SameLog(x, y)
  \/ \E s \in Slot, v \in Value : /\ d.proposers[s].status = "CHOSEN"
                                  /\ Logged(x, y, s, v)

LEMMA LoggedKnown ==
  ASSUME NEW x \in Captains, LogReady(x), NEW y \in Captains,
         NEW s \in Slot, NEW v \in Value, Logged(x, y, s, v),
         \A i \in 1 .. x.max_chosen_without_hole : x.chosen_values[i] # Null
  PROVE  /\ Known(y) \subseteq Known(x) \cup {s}
         /\ x.max_chosen_without_hole =< y.max_chosen_without_hole
         /\ y.max_chosen_without_hole =< Len(y.chosen_values)
         /\ \A i \in 1 .. y.max_chosen_without_hole :
              y.chosen_values[i] # Null
         /\ \A i \in 1 .. x.max_chosen_without_hole :
              y.chosen_values[i] = x.chosen_values[i]
<1>1. PICK log, new, k, j :
        /\ log = x.chosen_values /\ new = y.chosen_values
        /\ k = x.max_chosen_without_hole /\ j = y.max_chosen_without_hole
  OBVIOUS
<1>2. /\ log \in Logs /\ new \in Logs /\ k \in Nat /\ j \in Nat
      /\ Len(log) \in Nat /\ Len(new) \in Nat /\ k =< Len(log)
      /\ s \in Nat /\ v \in Value \cup {Null} /\ \A t \in Slot : t \in Nat \ {0}
      /\ new = LogWith(log, s, v) /\ j = DeliverFrom(new, k)
      /\ \A i \in 1 .. k : log[i] # Null
  BY <1>1, CaptainFields, MaxSlotNat, LenProperties DEF LogReady, Logged, Logs
<1>3. /\ Len(new) = IF s > Len(log) THEN s ELSE Len(log)
      /\ \A i \in Nat \ {0} : ChosenIn(new, i) =
           IF i = s /\ ChosenIn(log, s) = Null THEN v ELSE ChosenIn(log, i)
  <2>1. PICK w : w = LogWith(log, s, v)
    OBVIOUS
  <2>2. /\ w \in Logs
        /\ Len(w) = IF s > Len(log) THEN s ELSE Len(log)
        /\ \A i \in Nat \ {0} : ChosenIn(w, i) =
             IF i = s /\ ChosenIn(log, s) = Null THEN v ELSE ChosenIn(log, i)
    <3>1. log \in Logs /\ s \in Nat /\ v \in Value \cup {Null}
      BY <1>2
    <3> QED
      BY <2>1, <3>1, LogWithOK
  <2>3. w = new
    BY <1>2, <2>1
  <2> QED
    BY <2>2, <2>3
<1>4. k =< Len(new)
  BY <1>2, <1>3
<1>5. j \in k .. Len(new) /\ \A i \in k + 1 .. j : new[i] # Null
  BY <1>2, <1>4, DeliverFromOK
<1>6. ASSUME NEW i \in 1 .. k PROVE new[i] = log[i]
  <2>1. /\ i \in Nat \ {0} /\ i \in 1 .. Len(log) /\ i \in 1 .. Len(new)
    BY <1>2, <1>4
  <2>2. ChosenIn(log, i) = log[i] /\ ChosenIn(new, i) = new[i]
    BY <1>2, <2>1, ChosenInOK
  <2>3. log[i] # Null
    BY <1>2
  <2> QED
    BY <1>3, <2>1, <2>2, <2>3
<1>7. \A i \in 1 .. j : new[i] # Null
  <2> SUFFICES ASSUME NEW i \in 1 .. j PROVE new[i] # Null
    OBVIOUS
  <2>1. i \in 1 .. k \/ i \in k + 1 .. j
    BY <1>2
  <2> QED
    BY <1>2, <1>5, <1>6, <2>1
<1>8. Known(y) \subseteq Known(x) \cup {s}
  BY <1>1, <1>2, <1>3 DEF Known
<1> QED
  BY <1>1, <1>2, <1>5, <1>6, <1>7, <1>8

LEMMA LogStepDelivers ==
  ASSUME NEW c, NEW d, NEW x, Ready(x), NEW y, Ready(y), Delivers(c, x),
         \A s \in Slot : c.proposers[s].status = "CHOSEN" =>
                           d.proposers[s].status = "CHOSEN",
         LogStep(d, x, y)
  PROVE  Delivers(d, y)
<1>1. \A s \in Known(x) : d.proposers[s].status = "CHOSEN"
  BY DEF Delivers, Known
<1>2. CASE SameLog(x, y)
  BY <1>1, <1>2 DEF SameLog, Delivers, Known
<1>3. ASSUME NEW s \in Slot, NEW v \in Value,
             d.proposers[s].status = "CHOSEN", Logged(x, y, s, v)
      PROVE  Delivers(d, y)
  <2>1. /\ Known(y) \subseteq Known(x) \cup {s}
        /\ \A i \in 1 .. y.max_chosen_without_hole : y.chosen_values[i] # Null
    BY <1>3, LoggedKnown DEF Ready, Delivers
  <2> QED
    BY <1>1, <1>3, <2>1 DEF Delivers
<1> QED
  BY <1>2, <1>3 DEF LogStep

(* What a step of the master's log is: some node n has a log step. *)
LogMoves(n) ==
  /\ Alone(n)
  /\ \A s \in Slot : captains[Master].proposers[s].status = "CHOSEN" =>
                       captains'[Master].proposers[s].status = "CHOSEN"
  /\ LogStep(captains'[Master], captains[n], captains'[n])

LEMMA ProceedsChosen ==
  ASSUME NEW c, Ready(c), NEW d, NEW a, NEW t, Proceeds(c, d, a, t),
         NEW s \in Slot, c.proposers[s].status = "CHOSEN"
  PROVE  s =< c.max_slot /\ d.proposers[s].status = "CHOSEN"
<1>1. c.max_slot \in Nat /\ s \in Nat /\ ~(s > c.max_slot)
  BY CaptainFields, MaxSlotNat DEF Ready
<1> QED
  BY <1>1 DEF Proceeds

LEMMA SubmitsMoves ==
  ASSUME OneMaster, TypeInv, TypeInv', MasterInv, NEW v \in Value, Submits(v)
  PROVE  LogMoves(Master)
<1>1. PICK c, d : c = captains[Master] /\ d = captains'[Master]
  OBVIOUS
<1>2. Proceeds(c, d, Master, 0) /\ Ready(c)
  BY <1>1, SubmitsProceeds, MasterOK DEF TypeInv
<1>3. SameLog(c, d)
  BY <1>1 DEF Submits, OpensSlot
<1>4. \A s \in Slot : c.proposers[s].status = "CHOSEN" =>
                        d.proposers[s].status = "CHOSEN"
  BY <1>2, ProceedsChosen
<1> QED
  BY <1>1, <1>3, <1>4 DEF LogMoves, LogStep, Submits

LEMMA HearsMoves ==
  ASSUME OneMaster, TypeInv, TypeInv', MasterInv, NEW a \in Others(Master),
         Hears(a)
  PROVE  LogMoves(a)
<1>1. PICK c, x, y, m : /\ c = captains[Master] /\ x = captains[a]
                        /\ y = captains'[a] /\ m = Head(requests[Master][a])
  OBVIOUS
<1>2. /\ Master \in Node /\ a \in Node /\ a # Master /\ Alone(a)
      /\ captains'[Master] = c /\ HearsIn(a, x, y, m)
      /\ RequestTaken(Master, a) /\ Ready(c) /\ ToldLog(c)
  BY <1>1, MasterOK DEF Others, Hears, Alone, TypeInv, MasterInv
<1>3. m.last_slot \in {0} \cup Slot /\ RequestOK(c, m)
  BY <1>1, <1>2, FirstRequest DEF RequestTaken
<1>4. CASE m.last_slot # 0 /\ Logged(x, y, m.last_slot, m.last_value)
  <2>1. PICK s, v : s = m.last_slot /\ v = m.last_value
    OBVIOUS
  <2>2. s \in Slot /\ s =< c.last_slot /\ v = ValueIn(c, s)
    BY <1>3, <1>4, <2>1 DEF RequestOK
  <2>3. c.proposers[s].status = "CHOSEN"
    BY <1>2, <2>2 DEF ToldLog
  <2>4. v \in Value
    BY <1>2, <2>2, <2>3 DEF Ready, ProposerReady, ValueIn
  <2>5. LogStep(c, x, y)
    BY <1>4, <2>1, <2>2, <2>3, <2>4 DEF LogStep
  <2> QED
    BY <1>1, <1>2, <2>5 DEF LogMoves
<1>5. CASE SameLog(x, y)
  BY <1>1, <1>2, <1>5 DEF LogMoves, LogStep
<1> QED
  BY <1>2, <1>4, <1>5 DEF HearsIn

LEMMA RecordsMoves ==
  ASSUME OneMaster, TypeInv, TypeInv', MasterInv, NEW a \in Others(Master),
         Records(a)
  PROVE  LogMoves(Master)
<1>1. PICK c, d, s : /\ c = captains[Master] /\ d = captains'[Master]
                     /\ s = Head(replies[a][Master]).slot
  OBVIOUS
<1>2. /\ Proceeds(c, d, a, s) /\ Ready(c) /\ Alone(Master)
      /\ Master \in Node /\ a \in Node
  BY <1>1, RecordsProceeds, MasterOK DEF TypeInv, Others
<1>3. s \in Slot
  BY <1>1, <1>2, FirstReply DEF Records, ReplyTaken
<1>4. LogStep(d, c, d)
  <2>1. CASE UNCHANGED captains
    BY <1>1, <2>1 DEF LogStep, SameLog
  <2>2. CASE SameLog(c, d)
    BY <2>2 DEF LogStep
  <2>3. ASSUME c.proposers[s].status = "PHASEII",
               NEW e, Ready(e), Marked(c, e, s, a, "CHOSEN"),
               Logged(c, e, s, ValueIn(c, s)),
               \/ d = e
               \/ OpensSlot(e, d, Head(c.tocommit_values))
        PROVE  LogStep(d, c, d)
    <3>1. ValueIn(c, s) \in Value
      BY <1>2, <1>3, <2>3 DEF Ready, ProposerReady, ValueIn
    <3>2. e.proposers[s].status = "CHOSEN"
      BY <2>3 DEF Marked
    <3>3. CASE d = e
      BY <1>3, <2>3, <3>1, <3>2, <3>3 DEF LogStep
    <3>4. CASE OpensSlot(e, d, Head(c.tocommit_values))
      <4>1. s =< e.max_slot
        <5>1. /\ ~(s > e.max_slot) /\ e.max_slot \in Nat /\ s \in Nat
          BY <1>3, <2>3, <3>2, CaptainFields, MaxSlotNat DEF Ready
        <5> QED
          BY <5>1
      <4>2. s # e.max_slot + 1
        <5>1. e.max_slot \in Nat /\ s \in Nat
          BY <1>3, <2>3, CaptainFields, MaxSlotNat DEF Ready
        <5> QED
          BY <4>1, <5>1
      <4>3. d.proposers[s] = e.proposers[s] /\ SameLog(e, d)
        BY <1>3, <3>4, <4>2 DEF OpensSlot
      <4>4. Logged(c, d, s, ValueIn(c, s))
        BY <2>3, <4>3 DEF SameLog, Logged
      <4> QED
        BY <1>3, <3>1, <3>2, <4>3, <4>4 DEF LogStep
    <3> QED
      BY <2>3, <3>3, <3>4
  <2> QED
    BY <1>1, <2>1, <2>2, <2>3 DEF Records
<1>5. \A t \in Slot : c.proposers[t].status = "CHOSEN" =>
                        d.proposers[t].status = "CHOSEN"
  BY <1>2, ProceedsChosen
<1> QED
  BY <1>1, <1>2, <1>4, <1>5 DEF LogMoves

LEMMA LosesMoves ==
  ASSUME OneMaster, NEW a \in Others(Master), Loses(a)
  PROVE  LogMoves(Master)
BY MasterOK DEF Loses, LogMoves, LogStep, SameLog, Alone

LEMMA NextMoves ==
  ASSUME OneMaster, WorkInv, WorkInv', MasterInv, Next
  PROVE  \E n \in Node : LogMoves(n)
<1>1. MasterStep /\ TypeInv /\ TypeInv' /\ Master \in Node
  BY NextMaster, MasterOK DEF WorkInv
<1>2. Others(Master) \subseteq Node
  BY DEF Others
<1> QED
  BY <1>1, <1>2, SubmitsMoves, HearsMoves, RecordsMoves, LosesMoves
  DEF MasterStep

LEMMA AllNextDelivery ==
  ASSUME OneMaster, WorkInv, WorkInv', MasterInv, DeliveryInv,
         [AllNext]_allvars
  PROVE  DeliveryInv'
<1>1. Master \in Node /\ TypeInv /\ TypeInv'
  BY MasterOK DEF WorkInv
<1>2. CASE Next
  <2>1. PICK n \in Node : LogMoves(n)
    BY <1>2, NextMoves
  <2>2. PICK c, d : c = captains[Master] /\ d = captains'[Master]
    OBVIOUS
  <2>3. \A s \in Slot : c.proposers[s].status = "CHOSEN" =>
                          d.proposers[s].status = "CHOSEN"
    BY <2>1, <2>2 DEF LogMoves
  <2>4. ASSUME NEW b \in Node PROVE Delivers(d, captains'[b])
    <3>1. PICK x, y : x = captains[b] /\ y = captains'[b]
      OBVIOUS
    <3>2. Ready(x) /\ Ready(y) /\ Delivers(c, x)
      BY <1>1, <2>2, <3>1 DEF TypeInv, DeliveryInv
    <3>3. LogStep(d, x, y)
      BY <2>1, <2>2, <3>1 DEF LogMoves, Alone, LogStep, SameLog
    <3>4. Delivers(d, y)
      BY <2>3, <3>2, <3>3, LogStepDelivers
    <3> QED
      BY <3>1, <3>4
  <2> QED
    BY <2>2, <2>4 DEF DeliveryInv
<1>3. ASSUME NEW a \in Node, Crash(a) PROVE DeliveryInv'
  <2>1. /\ captains'[Master] = captains[Master]
        /\ captains'[a] = NewCaptain
        /\ \A n \in Node \ {a} : captains'[n] = captains[n]
    BY <1>1, <1>3, MasterOK, RestartAssumption
    DEF Crash, RestartAssumption, TypeInv
  <2>2. \A c : Delivers(c, NewCaptain)
    <3>1. DOMAIN <<>> = {} /\ 1 .. 0 = {}
      OBVIOUS
    <3> QED
      BY <3>1 DEF Delivers, Known, NewCaptain, ChosenIn
  <2> QED
    BY <2>1, <2>2 DEF DeliveryInv
<1>4. CASE UNCHANGED allvars
  BY <1>4 DEF allvars, vars, DeliveryInv
<1> QED
  BY <1>2, <1>3, <1>4 DEF AllNext

LEMMA InitDelivery == Init => DeliveryInv
<1> SUFFICES ASSUME Init PROVE DeliveryInv
  OBVIOUS
<1>1. \A c : Delivers(c, NewCaptain)
  <2>1. DOMAIN <<>> = {} /\ 1 .. 0 = {}
    OBVIOUS
  <2> QED
    BY <2>1 DEF Delivers, Known, NewCaptain, ChosenIn
<1>2. \A n \in Node : captains[n] = NewCaptain
  BY DEF Init
<1> QED
  BY <1>1, <1>2 DEF DeliveryInv

(* No value is committed twice. *)
LEMMA AllNextOnce ==
  ASSUME OneMaster, WorkInv, MasterInv, NoTwice(submitted[Master]),
         [AllNext]_allvars
  PROVE  NoTwice(submitted'[Master])
<1>1. TypeInv /\ Master \in Node
  BY MasterOK DEF WorkInv
<1>2. CASE UNCHANGED submitted
  BY <1>2
<1>3. ASSUME NEW v \in Value, Submits(v) PROVE NoTwice(submitted'[Master])
  <2>1. PICK values : values = submitted[Master]
    OBVIOUS
  <2>2. values \in Seq(Value) /\ submitted'[Master] = Append(values, v)
    BY <1>1, <1>3, <2>1 DEF TypeInv, HistoryOK, Submits
  <2>3. v \notin Entries(values)
    BY <1>1, <1>3, <2>1 DEF Submits, IsNew, Entries
  <2> QED
    BY <2>1, <2>2, <2>3, AppendEntries
<1>4. CASE Next
  <2>1. MasterStep
    BY <1>4, NextMaster
  <2> QED
    BY <1>2, <1>3, <2>1 DEF MasterStep, Hears, Records, Loses
<1> QED
  BY <1>2, <1>4 DEF AllNext, Crash, allvars, vars

LEMMA InitLog == OneMaster /\ AllInit => LogInv
<1> SUFFICES ASSUME OneMaster, AllInit PROVE LogInv
  OBVIOUS
<1>1. NoTwice(submitted[Master])
  BY MasterOK, EmptyEntries DEF AllInit, Init
<1> QED
  BY <1>1, InitVotes, InitDelivery DEF AllInit, LogInv

LEMMA AllNextLog ==
  OneMaster /\ WorkInv /\ MasterInv /\ LogInv /\ [AllNext]_allvars => LogInv'
<1> SUFFICES ASSUME OneMaster, WorkInv, MasterInv, LogInv, [AllNext]_allvars
             PROVE  LogInv'
  OBVIOUS
<1>1. WorkInv' /\ MasterInv'
  BY AllNextWork, AllNextMaster
<1> QED
  BY <1>1, AllNextVotes, AllNextDelivery, AllNextOnce DEF LogInv

(* What is decided in slot s: what c gave it, once a quorum has voted. *)
Decision(c, s) ==
  IF s =< c.max_slot /\ Cardinality(Voters(c, s)) >= QuorumSize
  THEN ValueIn(c, s) ELSE Null

AllDecisions ==
  \A s \in Slot : DecidedIn(s) = Decision(captains[Master], s)

LEMMA DecidedIs == OneMaster /\ TypeInv /\ VotesInv => AllDecisions
<1> SUFFICES ASSUME OneMaster, TypeInv, VotesInv, NEW s \in Slot
             PROVE  DecidedIn(s) = Decision(captains[Master], s)
  BY DEF AllDecisions
<1>1. PICK c : c = captains[Master]
  OBVIOUS
<1>2. /\ c.max_slot \in Nat /\ s \in Nat /\ s > 0
      /\ issued = {Choice(c, t) : t \in 1 .. c.max_slot}
  BY <1>1, MasterOK, CaptainFields, MaxSlotNat DEF TypeInv, VotesInv
<1> DEFINE voters(x) == {a \in Node : <<s, x[2], x[3]>> \in votes[a]}
           decided == {x \in issued :
                         x[1] = s /\ Cardinality(voters(x)) >= QuorumSize}
<1>3. DecidedIn(s) = IF decided = {} THEN Null ELSE (CHOOSE x \in decided : TRUE)[3]
  BY DEF DecidedIn
<1>4. \A x \in issued : x[1] = s => s =< c.max_slot /\ x = Choice(c, s)
  <2> SUFFICES ASSUME NEW x \in issued, x[1] = s
               PROVE  s =< c.max_slot /\ x = Choice(c, s)
    OBVIOUS
  <2>1. PICK t \in 1 .. c.max_slot : x = Choice(c, t)
    BY <1>2
  <2>2. t = s
    BY <2>1 DEF Choice
  <2> QED
    BY <1>2, <2>1, <2>2
<1>5. /\ Choice(c, s)[1] = s /\ Choice(c, s)[3] = ValueIn(c, s)
      /\ voters(Choice(c, s)) = Voters(c, s)
  BY DEF Choice, Voters
<1>6. s =< c.max_slot => Choice(c, s) \in issued
  BY <1>2
<1>7. CASE s =< c.max_slot /\ Cardinality(Voters(c, s)) >= QuorumSize
  <2>1. Choice(c, s) \in decided
    BY <1>5, <1>6, <1>7
  <2>2. \A x \in decided : x = Choice(c, s)
    BY <1>4
  <2>3. (CHOOSE x \in decided : TRUE) = Choice(c, s)
    BY <2>1, <2>2
  <2> HIDE DEF decided
  <2> QED
    BY <1>1, <1>3, <1>5, <1>7, <2>1, <2>3 DEF Decision
<1>8. CASE ~(s =< c.max_slot /\ Cardinality(Voters(c, s)) >= QuorumSize)
  <2>1. decided = {}
    <3> SUFFICES ASSUME NEW x \in decided PROVE FALSE
      OBVIOUS
    <3>1. s =< c.max_slot /\ x = Choice(c, s)
      BY <1>4
    <3> QED
      BY <1>5, <1>8, <3>1
  <2> QED
    BY <1>1, <1>3, <1>8, <2>1 DEF Decision
<1> QED
  BY <1>7, <1>8

(* What a captain has in its log is decided. *)
LogsDecided ==
  /\ \A s \in Slot : captains[Master].proposers[s].status = "CHOSEN" =>
       DecidedIn(s) = ValueIn(captains[Master], s)
  /\ \A n \in Node : \A s \in Known(captains[n]) :
       DecidedIn(s) = ChosenIn(captains[n].chosen_values, s)

LEMMA KnownDecided ==
  OneMaster /\ TypeInv /\ MasterInv /\ LogInv => LogsDecided
<1> SUFFICES ASSUME OneMaster, TypeInv, MasterInv, LogInv PROVE LogsDecided
  OBVIOUS
<1>1. PICK c : c = captains[Master]
  OBVIOUS
<1>2. Ready(c) /\ c.max_slot \in Nat /\ \A s \in Slot : s \in Nat
  BY <1>1, MasterOK, CaptainFields, MaxSlotNat DEF TypeInv
<1>3. ASSUME NEW s \in Slot, c.proposers[s].status = "CHOSEN"
      PROVE  DecidedIn(s) = ValueIn(c, s)
  <2>1. s =< c.max_slot
    <3>1. ~(s > c.max_slot)
      BY <1>2, <1>3 DEF Ready
    <3> QED
      BY <1>2, <3>1
  <2>2. Cardinality(Voters(c, s)) >= QuorumSize
    BY <1>1, <1>3 DEF LogInv, VotesInv
  <2>3. DecidedIn(s) = Decision(c, s)
    BY <1>1, DecidedIs DEF LogInv, AllDecisions
  <2> QED
    BY <2>1, <2>2, <2>3 DEF Decision
<1>4. ASSUME NEW n \in Node, NEW s \in Known(captains[n])
      PROVE  DecidedIn(s) = ChosenIn(captains[n].chosen_values, s)
  <2>1. s \in Slot /\ ChosenIn(captains[n].chosen_values, s) # Null
    BY DEF Known
  <2>2. c.proposers[s].status = "CHOSEN"
    BY <1>1 DEF LogInv, DeliveryInv, Delivers
  <2>3. ChosenIn(captains[n].chosen_values, s) = ValueIn(c, s)
    BY <1>1, <2>1 DEF MasterInv, Follows
  <2> QED
    BY <1>3, <2>1, <2>2, <2>3
<1> QED
  BY <1>1, <1>3, <1>4 DEF LogsDecided

LEMMA DecidedNow ==
  ASSUME OneMaster, TypeInv, VotesInv, NEW c, c = captains[Master],
         NEW s \in Slot, NEW V, V = {a \in Node : Choice(c, s) \in votes[a]}
  PROVE  DecidedIn(s) = IF s =< c.max_slot /\ Cardinality(V) >= QuorumSize
                        THEN ValueIn(c, s) ELSE Null
BY DecidedIs DEF AllDecisions, Decision, Voters

LEMMA DecidedNext ==
  ASSUME OneMaster, TypeInv', VotesInv', NEW d, d = captains'[Master],
         NEW t \in Slot, NEW V, V = {a \in Node : Choice(d, t) \in votes'[a]}
  PROVE  DecidedIn(t)' = IF t =< d.max_slot /\ Cardinality(V) >= QuorumSize
                         THEN ValueIn(d, t) ELSE Null
<1>1. (OneMaster /\ TypeInv /\ VotesInv)' => AllDecisions'
  BY DecidedIs, PTL
<1>2. OneMaster'
  BY DEF OneMaster
<1>3. DecidedIn(t)' = Decision(captains[Master], t)'
  BY <1>1, <1>2 DEF AllDecisions
<1> QED
  BY <1>3 DEF Decision, Voters

LEMMA QuorumTwo == QuorumSize \in Nat /\ QuorumSize >= 2
BY NodeFinite, NodeAssumption DEF NodeAssumption, QuorumSize

(* A decision stays, and is the master's. *)
LEMMA DecisionStays ==
  ASSUME OneMaster, TypeInv, TypeInv', BystanderInv', MasterInv', VotesInv,
         VotesInv', Recorded, NEW c, c = captains[Master],
         NEW d, d = captains'[Master], Grows(c, d), NEW s \in Slot
  PROVE  /\ DecidedIn(s) # Null => DecidedIn(s)' = DecidedIn(s)
         /\ DecidedIn(s)' # Null =>
              s =< d.max_slot /\ DecidedIn(s)' = ValueIn(d, s)
<1>1. /\ c \in Captains /\ d \in Captains
      /\ c.max_slot \in Nat /\ d.max_slot \in Nat /\ s \in Nat
      /\ c.max_slot =< d.max_slot
      /\ s =< c.max_slot => /\ ValueIn(d, s) = ValueIn(c, s)
                            /\ Choice(d, s) = Choice(c, s)
  BY MasterOK, CaptainFields, MaxSlotNat DEF TypeInv, Grows, Choice
<1>2. PICK V, W : /\ V = {a \in Node : Choice(c, s) \in votes[a]}
                  /\ W = {a \in Node : Choice(d, s) \in votes'[a]}
  OBVIOUS
<1>3. DecidedIn(s) = IF s =< c.max_slot /\ Cardinality(V) >= QuorumSize
                     THEN ValueIn(c, s) ELSE Null
  BY <1>2, DecidedNow
<1>4. DecidedIn(s)' = IF s =< d.max_slot /\ Cardinality(W) >= QuorumSize
                      THEN ValueIn(d, s) ELSE Null
  BY <1>2, DecidedNext
<1>5. ASSUME s =< c.max_slot, Cardinality(V) >= QuorumSize
      PROVE  DecidedIn(s)' = ValueIn(c, s)
  <2>1. \A a \in Node : \A x \in votes[a] : x \in votes'[a]
    BY VotesAre
  <2>2. V \subseteq W
    BY <1>1, <1>2, <1>5, <2>1
  <2>3. IsFiniteSet(W) /\ Cardinality(W) \in Nat /\ QuorumSize \in Nat
    BY <1>2, NodeFinite, FS_Subset, FS_CardinalityType, QuorumTwo
  <2>4. Cardinality(V) =< Cardinality(W) /\ Cardinality(V) \in Nat
    BY <2>2, <2>3, FS_Subset, FS_CardinalityType
  <2>5. Cardinality(W) >= QuorumSize
    BY <1>5, <2>3, <2>4
  <2>6. s =< d.max_slot
    BY <1>1, <1>5
  <2> QED
    BY <1>1, <1>4, <1>5, <2>5, <2>6
<1> QED
  BY <1>3, <1>4, <1>5

(* Nothing is decided by what the master does alone. *)
LEMMA NothingDecided ==
  ASSUME OneMaster, TypeInv, TypeInv', BystanderInv', MasterInv, MasterInv',
         VotesInv, VotesInv', Recorded, NEW c, c = captains[Master],
         NEW d, d = captains'[Master], Grows(c, d), NEW s \in Slot,
         \A a \in Node : captains'[a].acceptors[s] # NewAcceptor =>
           \/ captains[a].acceptors[s] # NewAcceptor
           \/ s > c.max_slot /\ a = Master
  PROVE  DecidedIn(s)' = DecidedIn(s)
<1>1. /\ c \in Captains /\ d \in Captains /\ Master \in Node
      /\ c.max_slot \in Nat /\ d.max_slot \in Nat /\ s \in Nat
      /\ c.max_slot =< d.max_slot
      /\ s =< c.max_slot => /\ ValueIn(d, s) = ValueIn(c, s)
                            /\ Choice(d, s) = Choice(c, s)
  BY MasterOK, CaptainFields, MaxSlotNat DEF TypeInv, Grows, Choice
<1>2. PICK V, W : /\ V = {a \in Node : Choice(c, s) \in votes[a]}
                  /\ W = {a \in Node : Choice(d, s) \in votes'[a]}
  OBVIOUS
<1>3. DecidedIn(s) = IF s =< c.max_slot /\ Cardinality(V) >= QuorumSize
                     THEN ValueIn(c, s) ELSE Null
  BY <1>2, DecidedNow
<1>4. DecidedIn(s)' = IF s =< d.max_slot /\ Cardinality(W) >= QuorumSize
                      THEN ValueIn(d, s) ELSE Null
  BY <1>2, DecidedNext
<1>5. ASSUME NEW a \in Node
      PROVE  Choice(d, s) \in votes'[a] <=>
               \/ Choice(d, s) \in votes[a]
               \/ captains'[a].acceptors[s] # NewAcceptor
  <2>1. \A x : x \in votes'[a] <=>
          \/ x \in votes[a]
          \/ \E t \in Slot : /\ captains'[a].acceptors[t] # NewAcceptor
                             /\ x = Choice(d, t)
    BY VotesAre
  <2>2. \A t \in Slot : Choice(d, s) = Choice(d, t) => t = s
    BY DEF Choice
  <2> QED
    BY <2>1, <2>2
<1>6. CASE s =< c.max_slot
  <2>1. ~(s > c.max_slot) /\ s =< d.max_slot
    BY <1>1, <1>6
  <2>2. \A a \in Node : captains[a].acceptors[s] # NewAcceptor =>
                          Choice(c, s) \in votes[a]
    BY DEF VotesInv, VotesOK
  <2>3. V = W
    BY <1>1, <1>2, <1>5, <1>6, <2>1, <2>2
  <2> QED
    BY <1>1, <1>3, <1>4, <1>6, <2>1, <2>3
<1>7. CASE s > c.max_slot
  <2>1. ~(s =< c.max_slot)
    BY <1>1, <1>7
  <2>2. \A a \in Node : Choice(d, s) \notin votes[a]
    <3> SUFFICES ASSUME NEW a \in Node, Choice(d, s) \in votes[a] PROVE FALSE
      OBVIOUS
    <3>1. PICK t \in Slot : t =< c.max_slot /\ Choice(d, s) = Choice(c, t)
      BY DEF VotesInv, VotesOK
    <3>2. t = s
      BY <3>1 DEF Choice
    <3> QED
      BY <2>1, <3>1, <3>2
  <2>3. \A a \in Node : captains[a].acceptors[s] = NewAcceptor
    BY <2>1 DEF MasterInv, Follows
  <2>4. W \subseteq {Master}
    BY <1>2, <1>5, <2>2, <2>3
  <2>5. Cardinality(W) =< 1 /\ Cardinality(W) \in Nat
    <3>1. IsFiniteSet({Master}) /\ Cardinality({Master}) = 1
      BY FS_Singleton
    <3>2. IsFiniteSet(W) /\ Cardinality(W) =< Cardinality({Master})
      BY <2>4, <3>1, FS_Subset
    <3> QED
      BY <3>1, <3>2, FS_CardinalityType
  <2>6. ~(Cardinality(W) >= QuorumSize)
    BY <2>5, QuorumTwo
  <2> QED
    BY <1>3, <1>4, <2>1, <2>6
<1> QED
  BY <1>1, <1>6, <1>7

LEMMA DeliveredOf ==
  ASSUME NEW x, Ready(x)
  PROVE  LET k == x.max_chosen_without_hole
         IN  /\ Delivered(x) \in Seq(Value \cup {Null})
             /\ Len(Delivered(x)) = k
             /\ \A i \in 1 .. k : Delivered(x)[i] = x.chosen_values[i]
<1>1. PICK k, log : k = x.max_chosen_without_hole /\ log = x.chosen_values
  OBVIOUS
<1>2. /\ k \in Nat /\ log \in Seq(Value \cup {Null}) /\ Len(log) \in Nat
      /\ k =< Len(log)
  BY <1>1, CaptainFields, LenProperties DEF Ready, LogReady, Logs
<1>3. \A i \in 1 .. k : log[i] \in Value \cup {Null}
  BY <1>2, ElementOfSeq
<1>4. PICK q : q = SubSeq(log, 1, k)
  OBVIOUS
<1>5. /\ 1 \in Int /\ k \in Int /\ k - 1 + 1 = k /\ \A i \in 1 .. k : 1 + i - 1 = i
      /\ (IF 1 =< k THEN k - 1 + 1 ELSE 0) = k
  BY <1>2
<1>6. /\ q \in Seq(Value \cup {Null}) /\ Len(q) = k
      /\ \A i \in 1 .. k : q[i] = log[i]
  BY <1>3, <1>4, <1>5, SubSeqProperties
<1> QED
  BY <1>1, <1>4, <1>6 DEF Delivered

(* The first k slots of a log *)
Beginning(log, k) == [s \in 1 .. k |-> log[s]]

(* The map new has what captain y has in its log. *)
Covers(new, y) ==
  \A s \in Known(y) : new[s] = ChosenIn(y.chosen_values, s)

(* What a captain delivers in a step are the next decisions, if it         *)
(* delivers anything.                                                      *)
LEMMA LogStepDelivered ==
  ASSUME NEW d, NEW x, Ready(x), NEW y, Ready(y), LogStep(d, x, y),
         \A i \in 1 .. x.max_chosen_without_hole : x.chosen_values[i] # Null,
         NEW new, Covers(new, y)
  PROVE  \/ Delivered(y) = Delivered(x)
         \/ \E k \in Slot : /\ k > Len(Delivered(x))
                            /\ \A s \in 1 .. k : new[s] # Null
                            /\ Delivered(y) = Beginning(new, k)
<1>1. PICK j, k, log : /\ j = x.max_chosen_without_hole
                       /\ k = y.max_chosen_without_hole
                       /\ log = y.chosen_values
  OBVIOUS
<1>2. /\ j \in Nat /\ k \in Nat /\ k =< Len(log) /\ Len(log) =< MaxSlot
      /\ Len(log) \in Nat /\ MaxSlot \in Nat /\ Slot = 1 .. MaxSlot
      /\ log \in Logs
  BY <1>1, CaptainFields, MaxSlotNat, LenProperties DEF Ready, LogReady, Logs
<1>3. /\ Delivered(x) \in Seq(Value \cup {Null}) /\ Len(Delivered(x)) = j
      /\ \A i \in 1 .. j : Delivered(x)[i] = x.chosen_values[i]
      /\ Delivered(y) \in Seq(Value \cup {Null}) /\ Len(Delivered(y)) = k
      /\ \A i \in 1 .. k : Delivered(y)[i] = log[i]
  BY <1>1, DeliveredOf
<1>4. CASE SameLog(x, y)
  BY <1>4 DEF SameLog, Delivered
<1>5. ASSUME NEW s \in Slot, NEW v \in Value, Logged(x, y, s, v)
      PROVE  \/ Delivered(y) = Delivered(x)
             \/ \E l \in Slot : /\ l > Len(Delivered(x))
                                /\ \A t \in 1 .. l : new[t] # Null
                                /\ Delivered(y) = Beginning(new, l)
  <2>1. /\ j =< k
        /\ \A i \in 1 .. k : log[i] # Null
        /\ \A i \in 1 .. j : log[i] = x.chosen_values[i]
    BY <1>1, <1>5, LoggedKnown DEF Ready
  <2>2. CASE j = k
    BY <1>3, <2>1, <2>2, SeqEqual
  <2>3. CASE j # k
    <3>1. k \in Slot /\ k > j
      BY <1>2, <2>1, <2>3
    <3>2. ASSUME NEW i \in 1 .. k PROVE new[i] = log[i] /\ new[i] # Null
      <4>1. i \in Slot /\ i \in 1 .. Len(log)
        BY <1>2
      <4>2. ChosenIn(log, i) = log[i]
        BY <1>2, <4>1, ChosenInOK
      <4>3. i \in Known(y)
        BY <1>1, <2>1, <4>1, <4>2 DEF Known
      <4> QED
        BY <1>1, <2>1, <4>2, <4>3 DEF Covers
    <3>3. PICK f : f = Beginning(new, k) /\ f = [t \in 1 .. k |-> new[t]]
      BY DEF Beginning
    <3>4. /\ f \in Seq(Value \cup {Null}) /\ Len(f) = k
          /\ \A i \in 1 .. k : f[i] = Delivered(y)[i]
      <4>1. \A i \in 1 .. k : f[i] = Delivered(y)[i]
        BY <1>3, <3>2, <3>3
      <4>2. \A i \in 1 .. k : Delivered(y)[i] \in Value \cup {Null}
        BY <1>3, ElementOfSeq
      <4>3. f \in [1 .. k -> Value \cup {Null}]
        BY <3>3, <4>1, <4>2
      <4>4. f \in Seq(Value \cup {Null})
        BY <1>2, <4>3, SeqDef
      <4>5. Len(f) \in Nat /\ 1 .. Len(f) = 1 .. k
        BY <4>3, <4>4, LenProperties
      <4>6. Len(f) = k
        BY <1>2, <4>5
      <4> QED
        BY <4>1, <4>4, <4>6
    <3>5. Delivered(y) = f
      BY <1>3, <3>4, SeqEqual
    <3> QED
      BY <1>3, <3>1, <3>2, <3>3, <3>5
  <2> QED
    BY <2>2, <2>3
<1> QED
  BY <1>4, <1>5 DEF LogStep

(* The variables of module ReplicatedLog, step by step *)
AllSubmitted ==
  UNION {{submitted[n][i] : i \in DOMAIN submitted[n]} : n \in Node}

SameDecisions == \A s \in Slot : DecidedIn(s)' = DecidedIn(s)

Decides(s, v) ==
  /\ v \in AllSubmitted /\ \A t \in Slot : DecidedIn(t) # v
  /\ DecidedIn(s) = Null /\ DecidedIn(s)' = v
  /\ \A t \in Slot \ {s} : DecidedIn(t)' = DecidedIn(t)

SameDeliveries == \A n \in Node : Delivered(captains'[n]) = Delivered(captains[n])

DeliversOn(n) ==
  /\ Alone(n)
  /\ \E k \in Slot : /\ k > Len(Delivered(captains[n]))
                     /\ \A s \in 1 .. k : DecidedIn(s)' # Null
                     /\ Delivered(captains'[n]) = [s \in 1 .. k |-> DecidedIn(s)']

Informs(v) ==
  /\ \E s \in Slot : DecidedIn(s)' = v
  /\ v \notin Told /\ answered' = Append(answered, v)

LEMMA ProgressMapped ==
  ASSUME UNCHANGED submitted,
         SameDecisions \/ \E s \in Slot, v \in Value : Decides(s, v),
         SameDeliveries \/ \E n \in Node : DeliversOn(n),
         UNCHANGED answered \/ \E v \in Value : Informs(v)
  PROVE  Log!Progress
<1> DEFINE log == [s \in Slot |-> DecidedIn(s)]
           seen == [n \in Node |-> Delivered(captains[n])]
<1>1. /\ \A s \in Slot : log[s] = DecidedIn(s) /\ log'[s] = DecidedIn(s)'
      /\ \A n \in Node : /\ seen[n] = Delivered(captains[n])
                         /\ seen'[n] = Delivered(captains'[n])
      /\ log = [s \in Slot |-> log[s]] /\ log' = [s \in Slot |-> log'[s]]
      /\ seen = [n \in Node |-> seen[n]] /\ seen' = [n \in Node |-> seen'[n]]
  OBVIOUS
<1>2. UNCHANGED log \/ \E s \in Slot, v \in Value : Log!Decide(s, v)
  <2>1. CASE SameDecisions
    BY <2>1 DEF SameDecisions
  <2>2. ASSUME NEW s \in Slot, NEW v \in Value, Decides(s, v)
        PROVE  Log!Decide(s, v)
    <3>1. log' = [log EXCEPT ![s] = v]
      <4>1. ASSUME NEW t \in Slot PROVE log'[t] = [log EXCEPT ![s] = v][t]
        BY <1>1, <2>2 DEF Decides
      <4> HIDE DEF log
      <4> QED
        BY <1>1, <4>1
    <3>2. /\ v \in AllSubmitted /\ ~(\E t \in Slot : log[t] = v)
          /\ log[s] = Null
      BY <1>1, <2>2 DEF Decides
    <3> QED
      BY <3>1, <3>2 DEF Log!Decide, Log!IsDecided, AllSubmitted
  <2> QED
    BY <2>1, <2>2
<1>3. UNCHANGED seen \/ \E n \in Node : Log!Deliver(n)
  <2>1. CASE SameDeliveries
    BY <2>1 DEF SameDeliveries
  <2>2. ASSUME NEW n \in Node, DeliversOn(n) PROVE Log!Deliver(n)
    <3>1. PICK k \in Slot :
            /\ k > Len(Delivered(captains[n]))
            /\ \A s \in 1 .. k : DecidedIn(s)' # Null
            /\ Delivered(captains'[n]) = [s \in 1 .. k |-> DecidedIn(s)']
      BY <2>2 DEF DeliversOn
    <3>2. \A s \in 1 .. k : s \in Slot
      BY MaxSlotNat
    <3>3. [s \in 1 .. k |-> DecidedIn(s)'] = [s \in 1 .. k |-> log'[s]]
      BY <1>1, <3>2
    <3>4. seen' = [seen EXCEPT ![n] = [s \in 1 .. k |-> log'[s]]]
      <4>1. ASSUME NEW x \in Node
            PROVE  seen'[x] = IF x = n THEN [s \in 1 .. k |-> log'[s]] ELSE seen[x]
        BY <1>1, <2>2, <3>1, <3>3 DEF DeliversOn, Alone
      <4> HIDE DEF seen, log
      <4> QED
        BY <1>1, <4>1
    <3>5. k > Len(seen[n]) /\ \A s \in 1 .. k : log'[s] # Null
      BY <1>1, <3>1, <3>2
    <3> QED
      BY <3>4, <3>5 DEF Log!Deliver, Log!FirstOf
  <2> QED
    BY <2>1, <2>2
<1>4. UNCHANGED answered \/ \E v \in Value : Log!Answer(v)
  <2>1. ASSUME NEW v \in Value, Informs(v) PROVE Log!Answer(v)
    <3>1. \E s \in Slot : log'[s] = v
      BY <1>1, <2>1 DEF Informs
    <3>2. \A i \in DOMAIN answered : answered[i] # v
      BY <2>1 DEF Informs, Told, Entries
    <3> QED
      BY <2>1, <3>1, <3>2 DEF Informs, Log!Answer, Log!IsDecided
  <2> QED
    BY <2>1
<1>5. AllSubmitted' = AllSubmitted
  BY DEF AllSubmitted
<1> QED
  BY <1>2, <1>3, <1>4, <1>5 DEF Log!Progress, AllSubmitted

LEMMA SubmitMapped ==
  ASSUME NEW v, v \notin AllSubmitted,
         AllSubmitted' = AllSubmitted \cup {v},
         SameDecisions, SameDeliveries, UNCHANGED answered
  PROVE  Log!Submit(v)
BY DEF AllSubmitted, SameDecisions, SameDeliveries, Log!Submit

LEMMA ForgetMapped ==
  ASSUME NEW a \in Restarts, UNCHANGED submitted, SameDecisions,
         \A n \in Node : Delivered(captains'[n]) =
           IF n = a THEN <<>> ELSE Delivered(captains[n]),
         UNCHANGED answered
  PROVE  Log!Forget(a)
<1>1. [n \in Node |-> Delivered(captains'[n])] =
        [[n \in Node |-> Delivered(captains[n])] EXCEPT ![a] = <<>>]
  BY RestartAssumption DEF RestartAssumption
<1> QED
  BY <1>1 DEF SameDecisions, Log!Forget

LEMMA StutterMapped ==
  ASSUME UNCHANGED submitted, SameDecisions, SameDeliveries, UNCHANGED answered
  PROVE  UNCHANGED Log!vars
BY DEF SameDecisions, SameDeliveries, Log!vars

LEMMA InitMapped ==
  ASSUME AllInit
  PROVE  Log!Init
<1>1. \A s \in Slot : DecidedIn(s) = Null
  BY DEF AllInit, DecidedIn
<1>2. Delivered(NewCaptain) = <<>>
  BY DEF Delivered, NewCaptain
<1>3. \A n \in Node : captains[n] = NewCaptain /\ submitted[n] = <<>>
  BY DEF AllInit, Init
<1>4. DOMAIN <<>> = {}
  OBVIOUS
<1>5. UNION {{submitted[n][i] : i \in DOMAIN submitted[n]} : n \in Node} = {}
  BY <1>3, <1>4
<1>6. [s \in Slot |-> DecidedIn(s)] = [s \in Slot |-> Null]
  BY <1>1
<1>7. [n \in Node |-> Delivered(captains[n])] = [n \in Node |-> <<>>]
  BY <1>2, <1>3
<1>8. answered = <<>>
  BY DEF AllInit, Init
<1> QED
  BY <1>5, <1>6, <1>7, <1>8 DEF Log!Init

LEMMA MovesDeliver ==
  ASSUME OneMaster, TypeInv, TypeInv', MasterInv', DeliveryInv, LogInv',
         NEW n \in Node, LogMoves(n)
  PROVE  SameDeliveries \/ DeliversOn(n)
<1>1. PICK x, y, d : /\ x = captains[n] /\ y = captains'[n]
                     /\ d = captains'[Master]
  OBVIOUS
<1>2. /\ Ready(x) /\ Ready(y) /\ LogStep(d, x, y) /\ Alone(n)
      /\ \A i \in 1 .. x.max_chosen_without_hole : x.chosen_values[i] # Null
  BY <1>1 DEF TypeInv, LogMoves, DeliveryInv, Delivers
<1>3. PICK new : new = [s \in Slot |-> DecidedIn(s)']
  OBVIOUS
<1>4. ASSUME NEW s \in Known(y) PROVE new[s] = ChosenIn(y.chosen_values, s)
  <2>1. (OneMaster /\ TypeInv /\ MasterInv /\ LogInv)' => LogsDecided'
    BY KnownDecided, PTL
  <2>2. LogsDecided'
    BY <2>1 DEF OneMaster
  <2>3. s \in Slot /\ s \in Known(captains[n])'
    BY <1>1 DEF Known
  <2>4. DecidedIn(s)' = ChosenIn(captains[n].chosen_values, s)'
    BY <2>2, <2>3 DEF LogsDecided
  <2> QED
    BY <1>1, <1>3, <2>3, <2>4
<1>5. \/ Delivered(y) = Delivered(x)
      \/ \E k \in Slot : /\ k > Len(Delivered(x))
                         /\ \A s \in 1 .. k : new[s] # Null
                         /\ Delivered(y) = Beginning(new, k)
  <2>1. Covers(new, y)
    BY <1>4 DEF Covers
  <2> QED
    BY <1>2, <2>1, LogStepDelivered
<1>6. CASE Delivered(y) = Delivered(x)
  BY <1>1, <1>2, <1>6 DEF Alone, SameDeliveries
<1>7. ASSUME NEW k \in Slot, k > Len(Delivered(x)),
             \A s \in 1 .. k : new[s] # Null,
             Delivered(y) = Beginning(new, k)
      PROVE  DeliversOn(n)
  <2>1. \A s \in 1 .. k : s \in Slot
    BY MaxSlotNat
  <2>2. \A s \in 1 .. k : new[s] = DecidedIn(s)'
    BY <1>3, <2>1
  <2>3. Beginning(new, k) = [s \in 1 .. k |-> DecidedIn(s)']
    BY <2>2 DEF Beginning
  <2>4. \A s \in 1 .. k : DecidedIn(s)' # Null
    BY <1>7, <2>2
  <2> QED
    BY <1>1, <1>2, <1>7, <2>3, <2>4 DEF DeliversOn
<1> QED
  BY <1>5, <1>6, <1>7

(* What the master does decides nothing: it votes only when it opens a     *)
(* slot, and no quorum is that small.                                      *)
LEMMA ProceedsDecides ==
  ASSUME OneMaster, TypeInv, TypeInv', BystanderInv', MasterInv, MasterInv',
         VotesInv, VotesInv', Recorded, Alone(Master), NEW a, NEW t,
         Proceeds(captains[Master], captains'[Master], a, t)
  PROVE  SameDecisions
<1>1. PICK c, d : c = captains[Master] /\ d = captains'[Master]
  OBVIOUS
<1>2. c.max_slot \in Nat /\ d.max_slot \in Nat /\ \A s \in Slot : s \in Nat
  BY <1>1, MasterOK, CaptainFields, MaxSlotNat DEF TypeInv
<1>3. Proceeds(c, d, a, t) /\ Grows(c, d)
  BY <1>1 DEF Proceeds
<1>4. ASSUME NEW s \in Slot PROVE DecidedIn(s)' = DecidedIn(s)
  <2>1. ASSUME NEW b \in Node, captains'[b].acceptors[s] # NewAcceptor
        PROVE  \/ captains[b].acceptors[s] # NewAcceptor
               \/ s > c.max_slot /\ b = Master
    <3>1. CASE b = Master /\ s =< c.max_slot
      BY <1>1, <1>3, <2>1, <3>1 DEF Proceeds
    <3>2. CASE b # Master
      BY <2>1, <3>2 DEF Alone
    <3> QED
      BY <1>2, <3>1, <3>2
  <2> QED
    BY <1>1, <1>3, <2>1, NothingDecided
<1> QED
  BY <1>4 DEF SameDecisions

(* A follower may decide the slot it votes in, for what was submitted.     *)
LEMMA HearsDecides ==
  ASSUME OneMaster, TypeInv, TypeInv', BystanderInv', MasterInv, MasterInv',
         OrderInv, NoTwice(submitted[Master]),
         VotesInv, VotesInv', Recorded, NEW a \in Others(Master), Hears(a)
  PROVE  SameDecisions \/ \E s \in Slot, v \in Value : Decides(s, v)
<1>1. PICK c, m, r : /\ c = captains[Master] /\ m = Head(requests[Master][a])
                     /\ r = m.slot
  OBVIOUS
<1>2. /\ Master \in Node /\ a \in Node /\ a # Master /\ Alone(a)
      /\ captains'[Master] = c /\ HearsIn(a, captains[a], captains'[a], m)
      /\ RequestTaken(Master, a) /\ c \in Captains /\ Ready(c)
  BY <1>1, MasterOK DEF Others, Hears, Alone, TypeInv
<1>3. r \in Slot
  BY <1>1, <1>2, FirstRequest DEF RequestTaken
<1>4. Grows(c, c)
  <2>1. c.max_slot \in Nat /\ c.last_slot \in Nat
    BY <1>2, CaptainFields
  <2> QED
    BY <2>1 DEF Grows
<1>5. ASSUME NEW s \in Slot, s # r PROVE DecidedIn(s)' = DecidedIn(s)
  <2>1. \A b \in Node : captains'[b].acceptors[s] # NewAcceptor =>
          captains[b].acceptors[s] # NewAcceptor
    BY <1>1, <1>2, <1>5 DEF HearsIn, Alone
  <2> QED
    BY <1>1, <1>2, <1>4, <2>1, NothingDecided
<1>6. CASE DecidedIn(r)' = DecidedIn(r)
  BY <1>5, <1>6 DEF SameDecisions
<1>7. CASE DecidedIn(r)' # DecidedIn(r)
  <2>1. PICK v : v = ValueIn(c, r)
    OBVIOUS
  <2>2. /\ DecidedIn(r) # Null => DecidedIn(r)' = DecidedIn(r)
        /\ DecidedIn(r)' # Null => r =< c.max_slot /\ DecidedIn(r)' = ValueIn(c, r)
    BY <1>1, <1>2, <1>3, <1>4, DecisionStays
  <2>3. /\ DecidedIn(r) = Null /\ DecidedIn(r)' = v /\ r =< c.max_slot
    BY <1>7, <2>1, <2>2
  <2>4. PICK values : values = submitted[Master]
    OBVIOUS
  <2>5. /\ c.max_slot \in Nat /\ values \in Seq(Value) /\ Len(values) \in Nat
        /\ DOMAIN values = 1 .. Len(values) /\ Len(c.tocommit_values) \in Nat
        /\ \A s \in Slot : s \in Nat /\ s >= 1
    BY <1>2, <2>4, CaptainFields, LenProperties, MaxSlotNat
    DEF TypeInv, HistoryOK
  <2>6. /\ Len(values) >= c.max_slot
        /\ \A s \in Slot : s =< c.max_slot =>
             s \in DOMAIN values /\ values[s] = ValueIn(c, s)
    BY <1>1, <2>4, <2>5 DEF OrderInv, Ordered
  <2>7. v \in Value
    BY <1>3, <2>1, <2>3, <2>5, <2>6, ElementOfSeq
  <2>8. v \in AllSubmitted
    BY <1>2, <1>3, <2>1, <2>3, <2>4, <2>6 DEF AllSubmitted
  <2>9. ASSUME NEW t \in Slot PROVE DecidedIn(t) # v
    <3>1. v # Null
      BY <2>7, NullAssumption DEF NullAssumption
    <3>2. CASE t = r
      BY <2>3, <3>1, <3>2
    <3>3. CASE t # r
      <4>1. DecidedIn(t) = Decision(c, t)
        BY <1>1, DecidedIs DEF AllDecisions
      <4>2. DecidedIn(t) = Null \/ (t =< c.max_slot /\ DecidedIn(t) = ValueIn(c, t))
        BY <4>1 DEF Decision
      <4>3. t =< c.max_slot => ValueIn(c, t) # v
        BY <1>3, <2>1, <2>3, <2>4, <2>6, <3>3 DEF NoTwice
      <4> QED
        BY <3>1, <4>2, <4>3
    <3> QED
      BY <3>2, <3>3
  <2>10. Decides(r, v)
    BY <1>3, <1>5, <2>3, <2>8, <2>9 DEF Decides
  <2> QED
    BY <1>3, <2>7, <2>10
<1> QED
  BY <1>6, <1>7

(* A client is told of a value that is decided, and of none twice. *)
LEMMA RecordsInforms ==
  ASSUME OneMaster, TypeInv, TypeInv', MasterInv, MasterInv', AccountInv,
         LogInv', NEW a \in Others(Master), Records(a)
  PROVE  UNCHANGED answered \/ \E v \in Value : Informs(v)
<1>1. PICK c, d, s : /\ c = captains[Master] /\ d = captains'[Master]
                     /\ s = Head(replies[a][Master]).slot
  OBVIOUS
<1>2. /\ Master \in Node /\ a \in Node /\ Ready(c) /\ c.max_slot \in Nat
      /\ Proceeds(c, d, a, s)
  BY <1>1, MasterOK, RecordsProceeds, CaptainFields DEF Others, TypeInv
<1>3. s \in Slot
  BY <1>1, <1>2, FirstReply DEF Records, ReplyTaken
<1>4. s \in Nat
  BY <1>3, MaxSlotNat
<1>5. ASSUME c.proposers[s].status = "PHASEII",
             answered' = Append(answered, ValueIn(c, s)),
             d.proposers[s].status = "CHOSEN"
      PROVE  \E v \in Value : Informs(v)
  <2>1. PICK v : v = ValueIn(c, s)
    OBVIOUS
  <2>2. v \in Value
    BY <1>2, <1>3, <1>5, <2>1 DEF Ready, ProposerReady, ValueIn
  <2>3. v \notin Told
    <3>1. s \in Active(c) /\ v = c.proposers[s].init_value
      BY <1>3, <1>5, <2>1 DEF Active, ValueIn
    <3>2. v \in Worked(c)
      BY <3>1 DEF Worked
    <3>3. (Queued(c) \cup Worked(c)) \cap Told = {}
      BY <1>1, <1>2 DEF AccountInv, Divided
    <3> QED
      BY <3>2, <3>3
  <2>4. (OneMaster /\ TypeInv /\ MasterInv /\ LogInv)' => LogsDecided'
    BY KnownDecided, PTL
  <2>5. LogsDecided'
    BY <2>4 DEF OneMaster
  <2>6. DecidedIn(s)' = ValueIn(d, s)
    BY <1>1, <1>3, <1>5, <2>5 DEF LogsDecided
  <2>7. ValueIn(d, s) = v
    <3>1. s =< c.max_slot
      <4>1. ~(s > c.max_slot)
        BY <1>2, <1>3, <1>5 DEF Ready
      <4> QED
        BY <1>2, <1>4, <4>1
    <3> QED
      BY <1>2, <1>3, <2>1, <3>1 DEF Proceeds, Grows
  <2> QED
    BY <1>3, <1>5, <2>1, <2>2, <2>3, <2>6, <2>7 DEF Informs
<1>6. ASSUME c.proposers[s].status = "PHASEII",
             answered' = Append(answered, ValueIn(c, s)),
             NEW e, Ready(e), Marked(c, e, s, a, "CHOSEN"),
             d = e \/ OpensSlot(e, d, Head(c.tocommit_values))
      PROVE  d.proposers[s].status = "CHOSEN"
  <2>1. e.proposers[s].status = "CHOSEN"
    BY <1>6 DEF Marked
  <2>2. s # e.max_slot + 1
    <3>1. ~(s > e.max_slot) /\ e.max_slot \in Nat
      BY <1>3, <1>6, <2>1, CaptainFields DEF Ready
    <3> QED
      BY <1>3, <3>1
  <2> QED
    BY <1>3, <1>6, <2>1, <2>2 DEF OpensSlot
<1> QED
  BY <1>1, <1>5, <1>6 DEF Records

(* Nothing is decided by a step in which nobody votes. *)
LEMMA StillDecides ==
  ASSUME OneMaster, TypeInv, TypeInv', BystanderInv', MasterInv, MasterInv',
         VotesInv, VotesInv', Recorded,
         captains'[Master] = captains[Master],
         \A a \in Node : captains'[a] = captains[a] \/ captains'[a] = NewCaptain
  PROVE  SameDecisions
<1>1. PICK c : c = captains[Master]
  OBVIOUS
<1>2. c \in Captains
  BY <1>1, MasterOK DEF TypeInv
<1>3. Grows(c, c)
  <2>1. c.max_slot \in Nat /\ c.last_slot \in Nat
    BY <1>2, CaptainFields
  <2> QED
    BY <2>1 DEF Grows
<1>4. \A s \in Slot : NewCaptain.acceptors[s] = NewAcceptor
  BY DEF NewCaptain
<1>5. ASSUME NEW s \in Slot PROVE DecidedIn(s)' = DecidedIn(s)
  <2>1. \A b \in Node : captains'[b].acceptors[s] # NewAcceptor =>
          captains[b].acceptors[s] # NewAcceptor
    BY <1>4
  <2> QED
    BY <1>1, <1>3, <2>1, NothingDecided
<1> QED
  BY <1>5 DEF SameDecisions

(* A value joins those submitted. *)
LEMMA SubmitsAsked ==
  ASSUME OneMaster, TypeInv, NEW v \in Value, Submits(v)
  PROVE  v \notin AllSubmitted /\ AllSubmitted' = AllSubmitted \cup {v}
<1>1. PICK values : values = submitted[Master]
  OBVIOUS
<1>2. /\ Master \in Node /\ submitted \in [Node -> Seq(Value)]
      /\ values \in Seq(Value)
      /\ submitted' = [submitted EXCEPT ![Master] = Append(values, v)]
  BY <1>1, MasterOK DEF TypeInv, HistoryOK, Submits
<1>3. \A n \in Node : submitted'[n] =
        IF n = Master THEN Append(values, v) ELSE submitted[n]
  BY <1>2
<1>4. /\ \A x : x \in AllSubmitted <=> \E n \in Node : x \in Entries(submitted[n])
      /\ \A x : x \in AllSubmitted' <=> \E n \in Node : x \in Entries(submitted'[n])
  BY DEF AllSubmitted, Entries
<1>5. Entries(Append(values, v)) = Entries(values) \cup {v}
  BY <1>2, AppendEntries
<1>6. v \notin AllSubmitted
  BY <1>4 DEF Submits, IsNew, Entries
<1>7. \A x : x \in AllSubmitted' <=> x \in AllSubmitted \/ x = v
  BY <1>1, <1>2, <1>3, <1>4, <1>5
<1> QED
  BY <1>6, <1>7

(* A step of the captains is a step of the log, or changes nothing of it. *)
LEMMA NextMapped ==
  ASSUME OneMaster, WorkInv, WorkInv', MasterInv, MasterInv', OrderInv,
         LogInv, LogInv', [AllNext]_allvars
  PROVE  [Log!Next]_(Log!vars)
<1>1. /\ TypeInv /\ TypeInv' /\ BystanderInv' /\ AccountInv
      /\ VotesInv /\ VotesInv' /\ DeliveryInv
      /\ NoTwice(submitted[Master]) /\ Master \in Node
      /\ \A a \in Others(Master) : a \in Node
  BY MasterOK DEF WorkInv, LogInv, Others
<1>2. ASSUME NEW v \in Value, Submits(v), Recorded PROVE Log!Submit(v)
  <2>1. v \notin AllSubmitted /\ AllSubmitted' = AllSubmitted \cup {v}
    BY <1>1, <1>2, SubmitsAsked
  <2>2. Alone(Master) /\ UNCHANGED answered
    BY <1>2 DEF Submits
  <2>3. Proceeds(captains[Master], captains'[Master], Master, 0)
    BY <1>1, <1>2, SubmitsProceeds
  <2>4. SameDecisions
    BY <1>1, <1>2, <2>2, <2>3, ProceedsDecides
  <2>5. SameLog(captains[Master], captains'[Master])
    BY <1>2 DEF Submits, OpensSlot
  <2>6. SameDeliveries
    BY <2>2, <2>5 DEF SameDeliveries, Alone, SameLog, Delivered
  <2> QED
    BY <2>1, <2>2, <2>4, <2>6, SubmitMapped
<1>3. ASSUME NEW a \in Others(Master), Hears(a), Recorded PROVE Log!Progress
  <2>1. SameDecisions \/ \E s \in Slot, v \in Value : Decides(s, v)
    BY <1>1, <1>3, HearsDecides
  <2>2. SameDeliveries \/ DeliversOn(a)
    BY <1>1, <1>3, HearsMoves, MovesDeliver
  <2>3. UNCHANGED submitted /\ UNCHANGED answered
    BY <1>3 DEF Hears
  <2> QED
    BY <1>1, <2>1, <2>2, <2>3, ProgressMapped
<1>4. ASSUME NEW a \in Others(Master), Records(a), Recorded PROVE Log!Progress
  <2>1. /\ Alone(Master)
        /\ Proceeds(captains[Master], captains'[Master], a,
                    Head(replies[a][Master]).slot)
    BY <1>1, <1>4, RecordsProceeds
  <2>2. SameDecisions
    BY <1>1, <1>4, <2>1, ProceedsDecides
  <2>3. SameDeliveries \/ DeliversOn(Master)
    BY <1>1, <1>4, RecordsMoves, MovesDeliver
  <2>4. UNCHANGED answered \/ \E v \in Value : Informs(v)
    BY <1>1, <1>4, RecordsInforms
  <2>5. UNCHANGED submitted
    BY <1>4 DEF Records
  <2> QED
    BY <1>1, <2>2, <2>3, <2>4, <2>5, ProgressMapped
<1>5. ASSUME NEW a \in Others(Master), Loses(a), Recorded
      PROVE  UNCHANGED Log!vars
  <2>1. UNCHANGED captains /\ UNCHANGED submitted /\ UNCHANGED answered
    BY <1>5 DEF Loses
  <2>2. SameDecisions
    BY <1>1, <1>5, <2>1, StillDecides
  <2>3. SameDeliveries
    BY <2>1 DEF SameDeliveries
  <2> QED
    BY <2>1, <2>2, <2>3, StutterMapped
<1>6. ASSUME NEW a \in Node, Crash(a), Recorded PROVE Log!Forget(a) /\ a \in Node
  <2>1. /\ a \in Restarts /\ UNCHANGED submitted /\ UNCHANGED answered
        /\ captains'[Master] = captains[Master]
        /\ captains'[a] = NewCaptain
        /\ \A n \in Node \ {a} : captains'[n] = captains[n]
    BY <1>1, <1>6, MasterOK, RestartAssumption
    DEF Crash, RestartAssumption, TypeInv
  <2>2. SameDecisions
    BY <1>1, <1>6, <2>1, StillDecides
  <2>3. Delivered(NewCaptain) = <<>>
    BY DEF Delivered, NewCaptain
  <2>4. \A n \in Node : Delivered(captains'[n]) =
          IF n = a THEN <<>> ELSE Delivered(captains[n])
    BY <2>1, <2>3
  <2> QED
    BY <2>1, <2>2, <2>4, ForgetMapped
<1>7. CASE UNCHANGED allvars
  <2>1. /\ UNCHANGED captains /\ UNCHANGED submitted /\ UNCHANGED answered
        /\ UNCHANGED votes /\ UNCHANGED issued
    BY <1>7 DEF allvars, vars
  <2>2. SameDecisions
    BY <2>1 DEF SameDecisions, DecidedIn
  <2>3. SameDeliveries
    BY <2>1 DEF SameDeliveries
  <2> QED
    BY <2>1, <2>2, <2>3, StutterMapped
<1>8. CASE Next /\ Recorded
  <2>1. MasterStep
    BY <1>1, <1>8, NextMaster
  <2> QED
    BY <1>2, <1>3, <1>4, <1>5, <1>8, <2>1 DEF MasterStep, Log!Next
<1> QED
  BY <1>6, <1>7, <1>8 DEF AllNext, Log!Next

(* The captains implement the replicated log: every slot is decided once,  *)
(* with a value that was submitted and is decided nowhere else; every node *)
(* delivers the decided values in order and without gaps, all over again   *)
(* if it was restarted; a client is told once, of a value that is decided. *)
THEOREM CaptainsImplementLog == OneMaster => (AllSpec => ImplementsLog)
<1> SUFFICES ASSUME OneMaster PROVE AllSpec => ImplementsLog
  OBVIOUS
<1> DEFINE Inv == WorkInv /\ MasterInv /\ OrderInv /\ LogInv
<1>1. AllInit => Inv
  BY InitWork, InitMaster, InitOrder, InitLog DEF AllInit
<1>2. Inv /\ [AllNext]_allvars => Inv'
  BY AllNextWork, AllNextMaster, AllNextOrder, AllNextLog
<1>3. AllInit => Log!Init
  BY InitMapped
<1>4. Inv /\ Inv' /\ [AllNext]_allvars => [Log!Next]_(Log!vars)
  <2>1. SUFFICES ASSUME Inv, Inv', [AllNext]_allvars
                 PROVE  [Log!Next]_(Log!vars)
    OBVIOUS
  <2> QED
    BY <2>1, NextMapped
<1> HIDE DEF Inv
<1> QED
  BY <1>1, <1>2, <1>3, <1>4, PTL DEF AllSpec, ImplementsLog, Log!Spec

-----------------------------------------------------------------------------
(* No losses.  A connection that loses nothing is a pipe: what follower x  *)
(* has done, what it will still hear and what the master will still hear   *)
(* of it are consecutive slots.                                            *)

(* The messages of queue are those of the slots after k, up to l. *)
Run(queue, k, l) ==
  k + Len(queue) = l /\ \A i \in 1 .. Len(queue) : queue[i].slot = k + i

(* The decisions told in queue are those of the slots after k, up to l, in *)
(* this order.                                                             *)
Tells(queue, k, l) ==
  /\ k =< l
  /\ \A i \in 1 .. Len(queue) :
       queue[i].last_slot # 0 => queue[i].last_slot \in k + 1 .. l
  /\ \A i, j \in 1 .. Len(queue) :
       i < j /\ queue[i].last_slot # 0 /\ queue[j].last_slot # 0
         => queue[i].last_slot < queue[j].last_slot
  /\ \A s \in k + 1 .. l : \E i \in 1 .. Len(queue) : queue[i].last_slot = s

(* The log has no holes and has been delivered to its end. *)
Level(x) ==
  /\ \A s \in 1 .. Len(x.chosen_values) : x.chosen_values[s] # Null
  /\ x.max_chosen_without_hole = Len(x.chosen_values)

(* Captain c of the master chooses slot after slot. *)
Chain(c) ==
  /\ Level(c)
  /\ \A s \in Slot :
       c.proposers[s].status = "CHOSEN" <=> s =< Len(c.chosen_values)
  /\ \A s \in Slot : s =< c.max_slot =>
       LET p == c.proposers[s]
       IN  /\ p.ack_accept[Master] = "yes"
           /\ EnoughAccepted(p) => p.status = "CHOSEN"

(* It tells what it has chosen no later than a window behind. *)
Lag(c) == c.max_slot =< c.last_slot + WindowSize

(* Captain x has accepted in the slots up to y. *)
Reached(x, y) == \A s \in Slot : s =< y => x.acceptors[s] # NewAcceptor

(* The answers of node a have been recorded up to slot z. *)
Noted(c, a, z) == \A s \in Slot : s =< c.max_slot =>
  LET p == c.proposers[s]
  IN  /\ p.ack_accept[a] = "yes" => s =< z
      /\ s =< z /\ p.status = "PHASEII" => p.ack_accept[a] = "yes"

(* Follower a, with captain x, is behind the requests reqs and ahead of    *)
(* the answers reps.                                                       *)
Piped(c, x, reqs, reps, a) ==
  /\ Level(x)
  /\ Tells(reqs, Len(x.chosen_values), c.last_slot)
  /\ \E y, z \in Nat : /\ Run(reqs, y, c.max_slot) /\ Run(reps, z, y)
                       /\ Reached(x, y) /\ Noted(c, a, z)

PipesInv == \A a \in Others(Master) :
  Piped(captains[Master], captains[a],
        requests[Master][a], replies[a][Master], a)

LosslessInv == Chain(captains[Master]) /\ Lag(captains[Master]) /\ PipesInv

(* A message of the next slot is sent. *)
LEMMA RunSent ==
  ASSUME NEW S, NEW q \in Seq(S), NEW m \in S, NEW k \in Nat, NEW l \in Nat,
         Run(q, k, l), m.slot = l + 1
  PROVE  Run(Append(q, m), k, l + 1)
<1>1. PICK p, n : p = Append(q, m) /\ n = Len(q)
  OBVIOUS
<1>2. /\ n \in Nat /\ Len(p) = n + 1 /\ p[n + 1] = m
      /\ \A i \in 1 .. n : p[i] = q[i]
  BY <1>1, LenProperties, AppendProperties
<1>3. k + n = l /\ \A i \in 1 .. n : q[i].slot = k + i
  BY <1>1 DEF Run
<1>4. ASSUME NEW i \in 1 .. n + 1 PROVE p[i].slot = k + i
  <2>1. i \in 1 .. n \/ i = n + 1
    BY <1>2
  <2>2. l + 1 = k + (n + 1)
    BY <1>2, <1>3
  <2> QED
    BY <1>2, <1>3, <2>1, <2>2
<1>5. k + (n + 1) = l + 1
  BY <1>2, <1>3
<1> QED
  BY <1>1, <1>2, <1>4, <1>5 DEF Run

(* The first message is taken: it is that of the slot after k. *)
LEMMA RunTaken ==
  ASSUME NEW S, NEW q \in Seq(S), q # <<>>, NEW k \in Nat, NEW l \in Nat,
         Run(q, k, l)
  PROVE  Head(q).slot = k + 1 /\ Run(Tail(q), k + 1, l)
<1>1. PICK p, n : p = Tail(q) /\ n = Len(q)
  OBVIOUS
<1>2. /\ n \in Nat \ {0} /\ Len(p) = n - 1 /\ Head(q) = q[1]
      /\ \A i \in 1 .. n - 1 : p[i] = q[i + 1]
  BY <1>1, LenProperties, EmptySeq, HeadTailProperties
<1>3. k + n = l /\ \A i \in 1 .. n : q[i].slot = k + i
  BY <1>1 DEF Run
<1>4. ASSUME NEW i \in 1 .. n - 1 PROVE p[i].slot = k + 1 + i
  <2>1. i + 1 \in 1 .. n /\ k + (i + 1) = k + 1 + i
    BY <1>2
  <2> QED
    BY <1>2, <1>3, <2>1
<1>5. k + 1 + (n - 1) = l /\ 1 \in 1 .. n
  BY <1>2, <1>3
<1> QED
  BY <1>1, <1>2, <1>3, <1>4, <1>5 DEF Run

(* A request that tells nothing, or the next decision, is sent. *)
LEMMA TellsSent ==
  ASSUME NEW S, NEW q \in Seq(S), NEW m \in S, NEW k \in Nat, NEW l \in Nat,
         Tells(q, k, l)
  PROVE  /\ m.last_slot = 0 => Tells(Append(q, m), k, l)
         /\ m.last_slot = l + 1 => Tells(Append(q, m), k, l + 1)
<1>1. PICK p, n : p = Append(q, m) /\ n = Len(q)
  OBVIOUS
<1>2. /\ n \in Nat /\ Len(p) = n + 1 /\ p[n + 1] = m
      /\ \A i \in 1 .. n : p[i] = q[i]
  BY <1>1, LenProperties, AppendProperties
<1>3. /\ k =< l
      /\ \A i \in 1 .. n : q[i].last_slot # 0 => q[i].last_slot \in k + 1 .. l
      /\ \A i, j \in 1 .. n :
           i < j /\ q[i].last_slot # 0 /\ q[j].last_slot # 0
             => q[i].last_slot < q[j].last_slot
      /\ \A s \in k + 1 .. l : \E i \in 1 .. n : q[i].last_slot = s
  BY <1>1 DEF Tells
<1>4. \A i \in 1 .. n + 1 : i \in 1 .. n \/ i = n + 1
  BY <1>2
<1>5. \A i \in 1 .. n : i \in 1 .. n + 1 /\ ~(n + 1 < i)
  BY <1>2
<1>6. ASSUME NEW t \in Nat, t >= l,
             m.last_slot = 0 \/ m.last_slot = l + 1, m.last_slot =< t,
             \A s \in l + 1 .. t : s = m.last_slot
      PROVE  Tells(p, k, t)
  <2>1. \A i \in 1 .. n + 1 :
          p[i].last_slot # 0 => p[i].last_slot \in k + 1 .. t
    <3> SUFFICES ASSUME NEW i \in 1 .. n + 1, p[i].last_slot # 0
                 PROVE  p[i].last_slot \in k + 1 .. t
      OBVIOUS
    <3>1. CASE i \in 1 .. n
      BY <1>2, <1>3, <1>6, <3>1
    <3>2. CASE i = n + 1
      BY <1>2, <1>3, <1>6, <3>2
    <3> QED
      BY <1>4, <3>1, <3>2
  <2>2. \A i, j \in 1 .. n + 1 :
          i < j /\ p[i].last_slot # 0 /\ p[j].last_slot # 0
            => p[i].last_slot < p[j].last_slot
    <3> SUFFICES ASSUME NEW i \in 1 .. n + 1, NEW j \in 1 .. n + 1, i < j,
                        p[i].last_slot # 0, p[j].last_slot # 0
                 PROVE  p[i].last_slot < p[j].last_slot
      OBVIOUS
    <3>1. i \in 1 .. n
      BY <1>2
    <3>2. CASE j \in 1 .. n
      <4>1. q[i].last_slot < q[j].last_slot
        BY <1>2, <1>3, <3>1, <3>2
      <4> QED
        BY <1>2, <3>1, <3>2, <4>1
    <3>3. CASE j = n + 1
      <4>1. p[j] = m /\ p[i] = q[i] /\ m.last_slot = l + 1
        BY <1>2, <1>6, <3>1, <3>3
      <4>2. q[i].last_slot \in k + 1 .. l
        BY <1>3, <3>1, <4>1
      <4> QED
        BY <4>1, <4>2
    <3> QED
      BY <1>4, <3>2, <3>3
  <2>3. \A s \in k + 1 .. t : \E i \in 1 .. n + 1 : p[i].last_slot = s
    <3> SUFFICES ASSUME NEW s \in k + 1 .. t
                 PROVE  \E i \in 1 .. n + 1 : p[i].last_slot = s
      OBVIOUS
    <3>1. CASE s =< l
      <4>1. s \in k + 1 .. l
        BY <3>1
      <4>2. PICK i \in 1 .. n : q[i].last_slot = s
        BY <1>3, <4>1
      <4> QED
        BY <1>2, <1>5, <4>2
    <3>2. CASE ~(s =< l)
      <4>1. s \in l + 1 .. t /\ n + 1 \in 1 .. n + 1
        BY <1>2, <3>2
      <4> QED
        BY <1>2, <1>6, <4>1
    <3> QED
      BY <3>1, <3>2
  <2>4. k =< t
    BY <1>3, <1>6
  <2> QED
    BY <1>2, <2>1, <2>2, <2>3, <2>4 DEF Tells
<1>7. ASSUME m.last_slot = 0 PROVE Tells(p, k, l)
  BY <1>6, <1>7
<1>8. ASSUME m.last_slot = l + 1 PROVE Tells(p, k, l + 1)
  BY <1>6, <1>8
<1> QED
  BY <1>1, <1>7, <1>8

(* The first request is taken: it tells nothing, or the decision after k. *)
LEMMA TellsTaken ==
  ASSUME NEW S, NEW q \in Seq(S), q # <<>>, NEW k \in Nat, NEW l \in Nat,
         Tells(q, k, l)
  PROVE  /\ Head(q).last_slot = 0 => Tells(Tail(q), k, l)
         /\ Head(q).last_slot # 0 => /\ Head(q).last_slot = k + 1
                                     /\ Tells(Tail(q), k + 1, l)
<1>1. PICK p, n, h : p = Tail(q) /\ n = Len(q) /\ h = Head(q).last_slot
  OBVIOUS
<1>2. /\ n \in Nat \ {0} /\ Len(p) = n - 1 /\ h = q[1].last_slot
      /\ \A i \in 1 .. n - 1 : p[i] = q[i + 1]
  BY <1>1, LenProperties, EmptySeq, HeadTailProperties
<1>3. /\ k =< l
      /\ \A i \in 1 .. n : q[i].last_slot # 0 => q[i].last_slot \in k + 1 .. l
      /\ \A i, j \in 1 .. n :
           i < j /\ q[i].last_slot # 0 /\ q[j].last_slot # 0
             => q[i].last_slot < q[j].last_slot
      /\ \A s \in k + 1 .. l : \E i \in 1 .. n : q[i].last_slot = s
  BY <1>1 DEF Tells
<1>4. \A i \in 1 .. n - 1 : /\ i + 1 \in 1 .. n /\ 1 < i + 1
                            /\ p[i] = q[i + 1]
  BY <1>2
<1>5. 1 \in 1 .. n /\ \A i \in 1 .. n : i = 1 \/ (i - 1 \in 1 .. n - 1 /\ i - 1 + 1 = i)
  BY <1>2
<1>6. ASSUME h # 0 PROVE h = k + 1
  <2>1. h \in k + 1 .. l
    BY <1>2, <1>3, <1>5, <1>6
  <2>2. k + 1 \in k + 1 .. l
    BY <2>1
  <2>3. PICK i \in 1 .. n : q[i].last_slot = k + 1
    BY <1>3, <2>2
  <2>4. CASE i # 1
    <3>1. 1 < i /\ q[i].last_slot # 0
      BY <1>2, <2>3, <2>4
    <3>2. h < k + 1
      BY <1>2, <1>3, <1>5, <1>6, <2>3, <3>1
    <3> QED
      BY <2>1, <3>2
  <2> QED
    BY <1>2, <2>3, <2>4
<1>7. ASSUME NEW t \in Nat, t = IF h = 0 THEN k ELSE k + 1
      PROVE  Tells(p, t, l)
  <2>1. t =< l
    BY <1>2, <1>3, <1>5, <1>7
  <2>2. \A i \in 1 .. n - 1 :
          p[i].last_slot # 0 => p[i].last_slot \in t + 1 .. l
    <3> SUFFICES ASSUME NEW i \in 1 .. n - 1, p[i].last_slot # 0
                 PROVE  p[i].last_slot \in t + 1 .. l
      OBVIOUS
    <3>1. p[i].last_slot \in k + 1 .. l
      BY <1>3, <1>4
    <3>2. h # 0 => h < p[i].last_slot
      <4>1. PICK j \in 1 .. n : j = i + 1 /\ 1 < j /\ p[i] = q[j]
        BY <1>4
      <4> QED
        BY <1>2, <1>3, <1>5, <4>1
    <3> QED
      BY <1>6, <1>7, <3>1, <3>2
  <2>3. \A i, j \in 1 .. n - 1 :
          i < j /\ p[i].last_slot # 0 /\ p[j].last_slot # 0
            => p[i].last_slot < p[j].last_slot
    <3> SUFFICES ASSUME NEW i \in 1 .. n - 1, NEW j \in 1 .. n - 1, i < j,
                        p[i].last_slot # 0, p[j].last_slot # 0
                 PROVE  p[i].last_slot < p[j].last_slot
      OBVIOUS
    <3>1. PICK x \in 1 .. n, y \in 1 .. n :
            x = i + 1 /\ y = j + 1 /\ p[i] = q[x] /\ p[j] = q[y]
      BY <1>4
    <3>2. x < y
      BY <3>1
    <3> QED
      BY <1>3, <3>1, <3>2
  <2>4. \A s \in t + 1 .. l : \E i \in 1 .. n - 1 : p[i].last_slot = s
    <3> SUFFICES ASSUME NEW s \in t + 1 .. l
                 PROVE  \E i \in 1 .. n - 1 : p[i].last_slot = s
      OBVIOUS
    <3>1. s \in k + 1 .. l /\ s # h
      BY <1>6, <1>7
    <3>2. PICK i \in 1 .. n : q[i].last_slot = s
      BY <1>3, <3>1
    <3>3. i # 1
      BY <1>2, <3>1, <3>2
    <3>4. i - 1 \in 1 .. n - 1 /\ p[i - 1] = q[i]
      BY <1>4, <1>5, <3>3
    <3> QED
      BY <3>2, <3>4
  <2> QED
    BY <1>2, <2>1, <2>2, <2>3, <2>4 DEF Tells
<1>8. h = 0 => Tells(p, k, l)
  BY <1>7
<1>9. h # 0 => Tells(p, k + 1, l)
  BY <1>7
<1> QED
  BY <1>1, <1>6, <1>8, <1>9

(* The slot after the end of a level log is written. *)
LEMMA LoggedLevel ==
  ASSUME NEW c \in Captains, LogReady(c), Level(c), NEW d, NEW s \in Slot,
         s = Len(c.chosen_values) + 1, NEW v \in Value, Logged(c, d, s, v)
  PROVE  Level(d) /\ Len(d.chosen_values) = s
<1>1. PICK log, new, n : /\ log = c.chosen_values /\ new = d.chosen_values
                         /\ n = Len(log)
  OBVIOUS
<1>2. /\ log \in Logs /\ n \in Nat /\ s = n + 1 /\ v # Null
      /\ c.max_chosen_without_hole = n
      /\ \A i \in 1 .. n : log[i] # Null
      /\ new = LogWith(log, s, v)
      /\ d.max_chosen_without_hole = DeliverFrom(new, n)
  BY <1>1, CaptainFields, LenProperties, NullAssumption
  DEF Level, Logged, NullAssumption, Logs
<1>3. /\ new \in Logs /\ Len(new) = s
      /\ \A i \in Nat \ {0} : ChosenIn(new, i) =
           IF i = s /\ ChosenIn(log, s) = Null THEN v ELSE ChosenIn(log, i)
  <2>1. s \in Nat /\ s > n /\ v \in Value \cup {Null}
    BY <1>2
  <2>2. PICK w : w = LogWith(log, s, v)
    OBVIOUS
  <2>3. /\ w \in Logs
        /\ Len(w) = IF s > Len(log) THEN s ELSE Len(log)
        /\ \A i \in Nat \ {0} : ChosenIn(w, i) =
             IF i = s /\ ChosenIn(log, s) = Null THEN v ELSE ChosenIn(log, i)
    BY <1>2, <2>1, <2>2, LogWithOK
  <2>4. w = new
    BY <1>2, <2>2
  <2>5. Len(new) = s
    BY <1>1, <2>1, <2>3, <2>4
  <2> QED
    BY <2>3, <2>4, <2>5
<1>4. ChosenIn(log, s) = Null
  BY <1>1, <1>2, ChosenInOK
<1>5. \A i \in 1 .. s : new[i] # Null
  <2> SUFFICES ASSUME NEW i \in 1 .. s PROVE ChosenIn(new, i) # Null
    BY <1>3, ChosenInOK
  <2>1. CASE i = s
    BY <1>2, <1>3, <1>4, <2>1
  <2>2. CASE i # s
    <3>1. i \in 1 .. n
      BY <1>2, <2>2
    <3>2. ChosenIn(log, i) = log[i]
      BY <1>1, <1>2, <3>1, ChosenInOK
    <3>3. ChosenIn(new, i) = ChosenIn(log, i)
      BY <1>2, <1>3, <2>2
    <3> QED
      BY <1>2, <3>1, <3>2, <3>3
  <2> QED
    BY <2>1, <2>2
<1>6. DeliverFrom(new, n) = s
  <2>1. PICK j : j = DeliverFrom(new, n)
    OBVIOUS
  <2>2. j \in n .. s /\ ChosenIn(new, j + 1) = Null
    BY <1>2, <1>3, <2>1, DeliverFromOK
  <2>3. j # n
    <3>1. ChosenIn(new, s) # Null
      BY <1>2, <1>3, <1>4
    <3> QED
      BY <1>2, <2>2, <3>1
  <2> QED
    BY <1>2, <2>1, <2>2, <2>3
<1> QED
  BY <1>1, <1>2, <1>3, <1>5, <1>6 DEF Level

(* The slots that are open are those between the end of the log and the    *)
(* last one given out.                                                     *)
LEMMA ChainActive ==
  ASSUME NEW c, Ready(c), Unopposed(c), Chain(c)
  PROVE  /\ Len(c.chosen_values) \in Nat
         /\ Len(c.chosen_values) =< c.max_slot
         /\ Cardinality(Active(c)) = c.max_slot - Len(c.chosen_values)
<1>1. PICK n, k : n = Len(c.chosen_values) /\ k = c.max_slot
  OBVIOUS
<1>2. /\ n \in Nat /\ n =< MaxSlot /\ k \in Nat /\ k =< MaxSlot
      /\ MaxSlot \in Nat /\ Slot = 1 .. MaxSlot
      /\ \A s \in Slot : c.proposers[s].status = "CHOSEN" <=> s =< n
      /\ \A s \in Slot : s > k <=> c.proposers[s].status = "EMPTY"
      /\ \A s \in Slot : s =< k =>
           c.proposers[s].status \in {"PHASEII", "CHOSEN"}
  BY <1>1, CaptainFields, MaxSlotNat, LenProperties
  DEF Ready, LogReady, Logs, Chain, Unopposed
<1>3. n =< k
  <2>1. CASE n = 0
    BY <1>2, <2>1
  <2>2. CASE n # 0
    <3>1. n \in Slot /\ n =< n
      BY <1>2, <2>2
    <3>2. ~(n > k)
      BY <1>2, <3>1
    <3> QED
      BY <1>2, <3>2
  <2> QED
    BY <2>1, <2>2
<1>4. \A s : s \in Active(c) <=> s \in n + 1 .. k
  <2>1. ASSUME NEW s \in Active(c) PROVE s \in n + 1 .. k
    <3>1. s \in Slot /\ ~(s > k) /\ ~(s =< n)
      BY <1>2 DEF Active
    <3> QED
      BY <1>2, <3>1
  <2>2. ASSUME NEW s \in n + 1 .. k PROVE s \in Active(c)
    <3>1. s \in Slot /\ s =< k /\ ~(s =< n)
      BY <1>2
    <3> QED
      BY <1>2, <3>1 DEF Active
  <2> QED
    BY <2>1, <2>2
<1>5. Active(c) = n + 1 .. k
  BY <1>4
<1>6. Cardinality(n + 1 .. k) = k - n
  <2>1. n + 1 \in Int /\ k \in Int
    BY <1>2
  <2>2. Cardinality(n + 1 .. k) =
          IF n + 1 > k THEN 0 ELSE k - (n + 1) + 1
    BY <2>1, FS_Interval
  <2> QED
    BY <1>2, <1>3, <2>2
<1> QED
  BY <1>1, <1>2, <1>3, <1>5, <1>6

(* The answer of the master's own acceptor is not enough. *)
LEMMA FreshAlone ==
  ASSUME OneMaster, NEW p, NEW v, Fresh(p, v)
  PROVE  ~EnoughAccepted(p)
<1>1. {a \in Node : p.ack_accept[a] # "none"} = {Master}
  BY MasterOK DEF Fresh
<1>2. Cardinality({Master}) = 1
  BY FS_Singleton
<1>3. QuorumSize >= 2
  BY NodeAssumption, NodeFinite DEF NodeAssumption, QuorumSize
<1>4. QuorumSize \in Nat
  BY NodeFinite DEF QuorumSize
<1> QED
  BY <1>1, <1>2, <1>3, <1>4 DEF EnoughAccepted

(* The master opens a slot: the window has room, ... *)
LEMMA OpensChain ==
  ASSUME OneMaster, NEW c, Ready(c), Sound(c), Chain(c), Lag(c),
         NEW d, NEW v \in Value, OpensSlot(c, d, v),
         c.max_slot < Len(c.chosen_values) + WindowSize
  PROVE  Chain(d) /\ Lag(d)
<1>1. PICK n, k, l, s : /\ n = Len(c.chosen_values) /\ k = c.max_slot
                        /\ l = c.last_slot /\ s = k + 1
  OBVIOUS
<1>2. /\ n \in Nat /\ k \in Nat /\ l \in Nat /\ WindowSize \in Nat
      /\ n =< k /\ k < n + WindowSize /\ k =< l + WindowSize
      /\ c.chosen_values \in Logs
      /\ \A i \in 1 .. n : c.chosen_values[i] # Null
      /\ \A t \in Slot : t \in Nat
  BY <1>1, ChainActive, CaptainFields, MaxSlotNat, CaptainAssumption
  DEF Sound, Ready, Chain, Level, Lag, CaptainAssumption
<1>3. /\ s \in Slot /\ d.max_slot = s
      /\ d.last_slot = IF TellsLast(c) THEN l + 1 ELSE l
      /\ SameLog(c, d)
      /\ \A t \in Slot : t # s => d.proposers[t] = c.proposers[t]
      /\ Fresh(d.proposers[s], v)
  BY <1>1 DEF OpensSlot
<1>4. TellsLast(c) <=> l + 1 =< n
  <2>1. CASE l + 1 =< n
    <3>1. l + 1 \in 1 .. n
      BY <1>2, <2>1
    <3> QED
      BY <1>1, <1>2, <2>1, <3>1, ChosenInOK DEF TellsLast
  <2>2. CASE ~(l + 1 =< n)
    <3>1. l + 1 \notin 1 .. n
      BY <1>2, <2>2
    <3> QED
      BY <1>1, <1>2, <2>2, <3>1, ChosenInOK DEF TellsLast
  <2> QED
    BY <2>1, <2>2
<1>5. Lag(d)
  BY <1>1, <1>2, <1>3, <1>4 DEF Lag
<1>6. Chain(d)
  <2>1. Level(d) /\ Len(d.chosen_values) = n
    BY <1>1, <1>3 DEF SameLog, Chain, Level
  <2>2. \A t \in Slot : d.proposers[t].status = "CHOSEN" <=> t =< n
    <3> SUFFICES ASSUME NEW t \in Slot
                 PROVE  d.proposers[t].status = "CHOSEN" <=> t =< n
      OBVIOUS
    <3>1. CASE t = s
      <4>1. d.proposers[s].status = "PHASEII"
        BY <1>3 DEF Fresh
      <4>2. ~(s =< n)
        BY <1>1, <1>2
      <4> QED
        BY <3>1, <4>1, <4>2
    <3>2. CASE t # s
      BY <1>1, <1>3, <3>2 DEF Chain
    <3> QED
      BY <3>1, <3>2
  <2>3. ASSUME NEW t \in Slot, t =< s
        PROVE  LET p == d.proposers[t]
               IN  /\ p.ack_accept[Master] = "yes"
                   /\ EnoughAccepted(p) => p.status = "CHOSEN"
    <3>1. CASE t = s
      BY <1>3, <3>1, FreshAlone, MasterOK DEF Fresh
    <3>2. CASE t # s
      <4>1. t =< k
        BY <1>1, <1>2, <2>3, <3>2
      <4> QED
        BY <1>1, <1>3, <3>2, <4>1 DEF Chain
    <3> QED
      BY <3>1, <3>2
  <2> QED
    BY <1>3, <2>1, <2>2, <2>3 DEF Chain
<1> QED
  BY <1>5, <1>6

(* ... and the request to a follower continues what is in its pipe. *)
LEMMA OpensPiped ==
  ASSUME OneMaster, NEW c, Ready(c), NEW d, NEW v \in Value,
         OpensSlot(c, d, v), OpenMsg(c, v) \in Requests,
         NEW a \in Others(Master), NEW x, NEW q \in Seq(Requests), NEW r,
         x \in Captains, r \in Seq(Answers), Piped(c, x, q, r, a)
  PROVE  Piped(d, x, Append(q, OpenMsg(c, v)), r, a)
<1>1. PICK k, l, s, m : /\ k = c.max_slot /\ l = c.last_slot /\ s = k + 1
                        /\ m = OpenMsg(c, v)
  OBVIOUS
<1>2. PICK n : n = Len(x.chosen_values)
  OBVIOUS
<1>3. /\ k \in Nat /\ l \in Nat /\ n \in Nat /\ m \in Requests
      /\ \A t \in Slot : t \in Nat
  BY <1>1, <1>2, CaptainFields, LenProperties, MaxSlotNat DEF Ready, Logs
<1>4. PICK y \in Nat, z \in Nat : /\ Run(q, y, k) /\ Run(r, z, y)
                                  /\ Reached(x, y) /\ Noted(c, a, z)
  BY <1>1 DEF Piped
<1>5. Level(x) /\ Tells(q, n, l)
  BY <1>1, <1>2 DEF Piped
<1>6. /\ s \in Slot /\ d.max_slot = s
      /\ d.last_slot = IF TellsLast(c) THEN l + 1 ELSE l
      /\ \A t \in Slot : t # s => d.proposers[t] = c.proposers[t]
      /\ Fresh(d.proposers[s], v)
  BY <1>1 DEF OpensSlot
<1>7. m.slot = s /\ m.last_slot = IF TellsLast(c) THEN l + 1 ELSE 0
  BY <1>1 DEF OpenMsg, AcceptMsg
<1>8. Run(Append(q, m), y, s)
  BY <1>1, <1>3, <1>4, <1>7, RunSent
<1>9. Tells(Append(q, m), n, d.last_slot)
  BY <1>3, <1>5, <1>6, <1>7, TellsSent
<1>10. y =< k /\ z =< y
  <2>1. Len(q) \in Nat /\ Len(r) \in Nat
    BY LenProperties
  <2> QED
    BY <1>3, <1>4, <2>1 DEF Run
<1>11. Noted(d, a, z)
  <2> SUFFICES ASSUME NEW t \in Slot, t =< s
               PROVE  LET p == d.proposers[t]
                      IN  /\ p.ack_accept[a] = "yes" => t =< z
                          /\ t =< z /\ p.status = "PHASEII"
                               => p.ack_accept[a] = "yes"
    BY <1>6 DEF Noted
  <2>1. CASE t = s
    <3>1. d.proposers[t].ack_accept[a] = "none" /\ ~(t =< z)
      BY <1>1, <1>3, <1>4, <1>6, <1>10, <2>1 DEF Fresh, Others
    <3> QED
      BY <3>1
  <2>2. CASE t # s
    <3>1. t =< k
      BY <1>1, <1>3, <2>2
    <3> QED
      BY <1>1, <1>4, <1>6, <2>2, <3>1 DEF Noted
  <2> QED
    BY <2>1, <2>2
<1> QED
  BY <1>1, <1>2, <1>4, <1>5, <1>6, <1>8, <1>9, <1>11 DEF Piped

(* What is said of the master's captain depends on these parts only. *)
LEMMA SamePiped ==
  ASSUME NEW c, NEW d, SameSlots(c, d), SameLog(c, d)
  PROVE  /\ Chain(c) => Chain(d)
         /\ Lag(c) => Lag(d)
         /\ \A x, q, r, a : Piped(c, x, q, r, a) => Piped(d, x, q, r, a)
<1>1. /\ d.proposers = c.proposers /\ d.max_slot = c.max_slot
      /\ d.last_slot = c.last_slot /\ d.chosen_values = c.chosen_values
      /\ d.max_chosen_without_hole = c.max_chosen_without_hole
  BY DEF SameSlots, SameLog
<1>2. Chain(c) => Chain(d)
  BY <1>1 DEF Chain, Level
<1>3. Lag(c) => Lag(d)
  BY <1>1 DEF Lag
<1>4. \A a, z : Noted(c, a, z) => Noted(d, a, z)
  BY <1>1 DEF Noted
<1>5. ASSUME NEW x, NEW q, NEW r, NEW a, Piped(c, x, q, r, a)
      PROVE  Piped(d, x, q, r, a)
  BY <1>1, <1>4, <1>5 DEF Piped
<1> QED
  BY <1>2, <1>3, <1>5

(* The answer of a for the slot after z is noted, in whatever status the   *)
(* proposer is left; those of the other nodes are not concerned.           *)
LEMMA MarkedNoted ==
  ASSUME NEW c, NEW d, NEW s \in Slot, NEW a \in Node, NEW st,
         Marked(c, d, s, a, st), NEW b \in Node, NEW z \in Nat,
         Noted(c, b, z), c.proposers[s].status = "PHASEII"
  PROVE  /\ b # a => Noted(d, b, z)
         /\ b = a /\ s = z + 1 => Noted(d, b, z + 1)
<1>1. /\ d.max_slot = c.max_slot
      /\ \A t \in Slot : t # s => d.proposers[t] = c.proposers[t]
      /\ d.proposers[s].ack_accept[b] =
           IF b = a THEN "yes" ELSE c.proposers[s].ack_accept[b]
      /\ \A t \in Slot : t \in Nat
  BY MaxSlotNat DEF Marked
<1>2. \A t \in Slot : t =< c.max_slot =>
        /\ c.proposers[t].ack_accept[b] = "yes" => t =< z
        /\ t =< z /\ c.proposers[t].status = "PHASEII"
             => c.proposers[t].ack_accept[b] = "yes"
  BY DEF Noted
<1>3. ASSUME b # a PROVE Noted(d, b, z)
  <2> SUFFICES ASSUME NEW t \in Slot, t =< c.max_slot
               PROVE  LET p == d.proposers[t]
                      IN  /\ p.ack_accept[b] = "yes" => t =< z
                          /\ t =< z /\ p.status = "PHASEII"
                               => p.ack_accept[b] = "yes"
    BY <1>1 DEF Noted
  <2>1. CASE t = s
    BY <1>1, <1>2, <1>3, <2>1
  <2>2. CASE t # s
    BY <1>1, <1>2, <2>2
  <2> QED
    BY <2>1, <2>2
<1>4. ASSUME b = a, s = z + 1 PROVE Noted(d, b, z + 1)
  <2> SUFFICES ASSUME NEW t \in Slot, t =< c.max_slot
               PROVE  LET p == d.proposers[t]
                      IN  /\ p.ack_accept[b] = "yes" => t =< z + 1
                          /\ t =< z + 1 /\ p.status = "PHASEII"
                               => p.ack_accept[b] = "yes"
    BY <1>1 DEF Noted
  <2>1. CASE t = s
    BY <1>1, <1>4, <2>1
  <2>2. CASE t # s
    <3>1. t =< z + 1 => t =< z
      BY <1>1, <1>4, <2>2
    <3>2. t =< z => t =< z + 1
      BY <1>1
    <3> QED
      BY <1>1, <1>2, <2>2, <3>1, <3>2
  <2> QED
    BY <2>1, <2>2
<1> QED
  BY <1>3, <1>4

(* The answer does not make a quorum ... *)
LEMMA MarkedChain ==
  ASSUME NEW c, NEW d, NEW s \in Slot, NEW a \in Others(Master),
         Master \in Node, Chain(c), Marked(c, d, s, a, "PHASEII"),
         SameLog(c, d),
         c.proposers[s].status = "PHASEII", ~EnoughAccepted(d.proposers[s])
  PROVE  Chain(d)
<1>1. /\ d.max_slot = c.max_slot /\ d.proposers[s].status = "PHASEII"
      /\ \A t \in Slot : t # s => d.proposers[t] = c.proposers[t]
      /\ d.proposers[s].ack_accept[Master] =
           c.proposers[s].ack_accept[Master]
  BY DEF Marked, Others
<1>2. Level(d) /\ d.chosen_values = c.chosen_values
  BY DEF SameLog, Chain, Level
<1>3. \A t \in Slot : d.proposers[t].status = "CHOSEN"
                        <=> t =< Len(d.chosen_values)
  <2> SUFFICES ASSUME NEW t \in Slot
               PROVE  d.proposers[t].status = "CHOSEN"
                        <=> t =< Len(c.chosen_values)
    BY <1>2
  <2>1. t = s => d.proposers[t].status = c.proposers[t].status
    BY <1>1
  <2>2. t # s => d.proposers[t].status = c.proposers[t].status
    BY <1>1
  <2> QED
    BY <2>1, <2>2 DEF Chain
<1>4. ASSUME NEW t \in Slot, t =< d.max_slot
      PROVE  LET p == d.proposers[t]
             IN  /\ p.ack_accept[Master] = "yes"
                 /\ EnoughAccepted(p) => p.status = "CHOSEN"
  <2>1. CASE t = s
    BY <1>1, <1>4, <2>1 DEF Chain
  <2>2. CASE t # s
    BY <1>1, <1>4, <2>2 DEF Chain
  <2> QED
    BY <2>1, <2>2
<1> QED
  BY <1>2, <1>3, <1>4 DEF Chain

(* ... or it does: it is then the first slot that is still open, as every  *)
(* node that has answered for it has answered for the earlier ones.        *)
LEMMA ChosenChain ==
  ASSUME OneMaster, NEW c, Ready(c), Sound(c), Chain(c),
         NEW d, NEW s \in Slot, NEW a \in Others(Master),
         NEW f \in [Others(Master) -> Nat],
         \A b \in Others(Master) : Noted(c, b, f[b]),
         s = f[a] + 1, s =< c.max_slot,
         c.proposers[s].status = "PHASEII",
         Marked(c, d, s, a, "CHOSEN"), EnoughAccepted(d.proposers[s]),
         Logged(c, d, s, ValueIn(c, s))
  PROVE  Chain(d) /\ Len(d.chosen_values) = Len(c.chosen_values) + 1
<1>1. PICK n, k : n = Len(c.chosen_values) /\ k = c.max_slot
  OBVIOUS
<1>2. /\ n \in Nat /\ k \in Nat /\ MaxSlot \in Nat /\ Slot = 1 .. MaxSlot
      /\ s =< k /\ Master \in Node /\ c \in Captains /\ LogReady(c)
  BY <1>1, ChainActive, CaptainFields, MaxSlotNat, MasterOK DEF Sound, Ready
<1>3. /\ d.max_slot = k /\ d.proposers[s].status = "CHOSEN"
      /\ \A t \in Slot : t # s => d.proposers[t] = c.proposers[t]
      /\ \A b \in Node : d.proposers[s].ack_accept[b] =
           IF b = a THEN "yes" ELSE c.proposers[s].ack_accept[b]
  BY <1>1 DEF Marked
<1>4. /\ \A t \in Slot : c.proposers[t].status = "CHOSEN" <=> t =< n
      /\ \A t \in Slot : t =< k =>
           /\ c.proposers[t].ack_accept[Master] = "yes"
           /\ EnoughAccepted(c.proposers[t])
                => c.proposers[t].status = "CHOSEN"
  BY <1>1 DEF Chain
<1>5. s = n + 1
  <2>1. ~(s =< n)
    BY <1>4
  <2>2. SUFFICES ASSUME n + 1 < s PROVE FALSE
    BY <1>2, <2>1
  <2>3. PICK t \in Slot : t = n + 1 /\ t < s /\ t =< k /\ ~(t =< n)
    BY <1>2, <2>2
  <2>4. c.proposers[t].status = "PHASEII"
    BY <1>1, <1>4, <2>3 DEF Sound, Unopposed
  <2>5. PICK S, T : /\ S = {b \in Node : d.proposers[s].ack_accept[b] # "none"}
                    /\ T = {b \in Node : c.proposers[t].ack_accept[b] # "none"}
    OBVIOUS
  <2>6. ASSUME NEW b \in S PROVE b \in T
    <3>1. CASE b = Master
      BY <1>2, <1>4, <2>3, <2>5, <3>1
    <3>2. CASE b = a
      <4>1. t =< f[a]
        BY <1>2, <2>3
      <4>2. c.proposers[t].ack_accept[a] = "yes"
        BY <1>1, <2>3, <2>4, <4>1 DEF Noted
      <4> QED
        BY <2>5, <3>2, <4>2 DEF Others
    <3>3. CASE b # Master /\ b # a
      <4>1. b \in Others(Master) /\ b \in Node
        BY <2>5, <3>3 DEF Others
      <4>2. c.proposers[s].ack_accept[b] # "none"
        BY <1>3, <2>5, <3>3, <4>1
      <4>3. c.proposers[s].ack_accept[b] = "yes"
        <5>1. c.proposers[s] \in Proposers
          BY <1>2, CaptainFields
        <5>2. c.proposers[s].ack_accept[b] \in {"yes", "no", "none"}
          BY <4>1, <5>1 DEF Proposers, Replies
        <5> QED
          BY <4>1, <4>2, <5>2 DEF Sound, Unopposed
      <4>4. s =< f[b] /\ f[b] \in Nat
        BY <4>1, <4>3 DEF Noted
      <4>5. t =< f[b]
        BY <1>2, <2>3, <4>4
      <4>6. c.proposers[t].ack_accept[b] = "yes"
        BY <1>1, <2>3, <2>4, <4>1, <4>5 DEF Noted
      <4> QED
        BY <2>5, <4>1, <4>6
    <3> QED
      BY <3>1, <3>2, <3>3
  <2>7. Cardinality(S) =< Cardinality(T)
    <3>1. S \subseteq T /\ IsFiniteSet(T)
      BY <2>5, <2>6, NodeFinite, FS_Subset
    <3> QED
      BY <3>1, FS_Subset
  <2>8. /\ Cardinality(S) \in Nat /\ Cardinality(T) \in Nat
        /\ QuorumSize \in Nat
    BY <2>5, NodeFinite, FS_Subset, FS_CardinalityType DEF QuorumSize
  <2>9. EnoughAccepted(c.proposers[t])
    <3>1. Cardinality(S) >= QuorumSize
      BY <2>5 DEF EnoughAccepted
    <3>2. Cardinality(T) >= QuorumSize
      BY <2>7, <2>8, <3>1
    <3> QED
      BY <2>5, <3>2 DEF EnoughAccepted
  <2> QED
    BY <1>4, <2>3, <2>9
<1>6. ValueIn(c, s) \in Value
  BY DEF Ready, ProposerReady, ValueIn
<1>7. Level(d) /\ Len(d.chosen_values) = s
  <2>1. Level(c)
    BY DEF Chain
  <2> QED
    BY <1>1, <1>2, <1>5, <1>6, <2>1, LoggedLevel
<1>8. \A t \in Slot : d.proposers[t].status = "CHOSEN" <=> t =< s
  <2> SUFFICES ASSUME NEW t \in Slot
               PROVE  d.proposers[t].status = "CHOSEN" <=> t =< s
    OBVIOUS
  <2>1. CASE t = s
    BY <1>2, <1>3, <2>1
  <2>2. CASE t # s
    <3>1. t =< s <=> t =< n
      BY <1>2, <1>5, <2>2
    <3> QED
      BY <1>3, <1>4, <2>2, <3>1
  <2> QED
    BY <2>1, <2>2
<1>9. ASSUME NEW t \in Slot, t =< d.max_slot
      PROVE  LET p == d.proposers[t]
             IN  /\ p.ack_accept[Master] = "yes"
                 /\ EnoughAccepted(p) => p.status = "CHOSEN"
  <2>1. CASE t = s
    <3>1. a # Master
      BY DEF Others
    <3> QED
      BY <1>2, <1>3, <1>4, <2>1, <3>1
  <2>2. CASE t # s
    BY <1>3, <1>4, <1>9, <2>2
  <2> QED
    BY <2>1, <2>2
<1> QED
  BY <1>1, <1>5, <1>7, <1>8, <1>9 DEF Chain

(* Captain::commit *)
LEMMA SubmitsLossless ==
  ASSUME OneMaster, WorkInv, TypeInv', MasterInv, LosslessInv,
         NEW v \in Value, Submits(v)
  PROVE  LosslessInv'
<1>1. PICK c, d : c = captains[Master] /\ d = captains'[Master]
  OBVIOUS
<1>2. /\ Master \in Node /\ Ready(c) /\ Ready(d) /\ Sound(c)
      /\ TypeInv /\ WindowOK(c) /\ Chain(c) /\ Lag(c)
  BY <1>1, MasterOK
  DEF WorkInv, TypeInv, WindowInv, MasterInv, Sound, LosslessInv
<1>3. Alone(Master) /\ UNCHANGED replies
  BY DEF Submits
<1>4. ASSUME NEW a \in Others(Master)
      PROVE  /\ a \in Node /\ captains'[a] = captains[a]
             /\ captains[a] \in Captains
             /\ requests[Master][a] \in Seq(Requests)
             /\ replies[a][Master] \in Seq(Answers)
             /\ Piped(c, captains[a], requests[Master][a],
                      replies[a][Master], a)
  BY <1>1, <1>2, <1>3
  DEF Others, Alone, TypeInv, RequestsOK, RepliesOK, LosslessInv, PipesInv
<1>5. CASE SameSlots(c, d) /\ SameLog(c, d) /\ UNCHANGED requests
  <2>1. Chain(d) /\ Lag(d)
    BY <1>2, <1>5, SamePiped
  <2>2. ASSUME NEW a \in Others(Master)
        PROVE  Piped(d, captains'[a], requests'[Master][a],
                     replies'[a][Master], a)
    BY <1>3, <1>4, <1>5, SamePiped
  <2> QED
    BY <1>1, <2>1, <2>2 DEF LosslessInv, PipesInv
<1>6. CASE /\ Cardinality(Active(c)) < WindowSize
           /\ OpensSlot(c, d, v) /\ Sent(OpenMsg(c, v))
  <2>1. c.max_slot < Len(c.chosen_values) + WindowSize
    <3>1. PICK n, k, size : /\ n = Len(c.chosen_values) /\ k = c.max_slot
                            /\ size = Cardinality(Active(c))
      OBVIOUS
    <3>2. n \in Nat /\ k \in Nat /\ size = k - n /\ WindowSize \in Nat
      BY <1>2, <3>1, ChainActive, CaptainFields, CaptainAssumption
      DEF Sound, Ready, CaptainAssumption
    <3>3. size < WindowSize
      BY <1>6, <3>1
    <3> QED
      BY <3>1, <3>2, <3>3
  <2>2. Chain(d) /\ Lag(d)
    BY <1>2, <1>6, <2>1, OpensChain
  <2>3. PICK m : m = OpenMsg(c, v)
    OBVIOUS
  <2>4. m \in Requests
    BY <1>2, <1>6, <2>3, OpensSound
  <2>5. ASSUME NEW a \in Others(Master)
        PROVE  Piped(d, captains'[a], requests'[Master][a],
                     replies'[a][Master], a)
    <3>1. requests'[Master][a] = Append(requests[Master][a], m)
      BY <1>2, <1>4, <1>6, <2>3 DEF Sent, Others
    <3>2. Piped(d, captains[a], Append(requests[Master][a], m),
                replies[a][Master], a)
      BY <1>2, <1>4, <1>6, <2>3, <2>4, OpensPiped
    <3> QED
      BY <1>3, <1>4, <3>1, <3>2
  <2> QED
    BY <1>1, <2>2, <2>5 DEF LosslessInv, PipesInv
<1> QED
  BY <1>1, <1>5, <1>6 DEF Submits

(* What a follower is told is always the slot after its log, and it has    *)
(* accepted there what it is told: it learns, and answers.                 *)
LEMMA HeardPiped ==
  ASSUME OneMaster, NEW c, Ready(c), NEW x, Ready(x), Follows(c, x),
         NEW y, Ready(y), NEW a \in Others(Master),
         NEW q \in Seq(Requests), q # <<>>, NEW r \in Seq(Answers),
         Head(q) \in Requests, RequestOK(c, Head(q)),
         Piped(c, x, q, r, a), HearsIn(a, x, y, Head(q))
  PROVE  /\ Piped(c, y, Tail(q),
                  Append(r, AcceptedMsg(Head(q).slot, MasterBallot, "yes")), a)
         /\ Answered(a, AcceptedMsg(Head(q).slot, MasterBallot, "yes"))
<1>1. PICK k, l, n, m : /\ k = c.max_slot /\ l = c.last_slot
                        /\ n = Len(x.chosen_values) /\ m = Head(q)
  OBVIOUS
<1>2. PICK answer : answer = AcceptedMsg(m.slot, MasterBallot, "yes")
  OBVIOUS
<1>3. PICK s, t : s = m.slot /\ t = m.last_slot
  OBVIOUS
<1>4. m.type = "ACCEPT"
  BY <1>1 DEF RequestOK
<1>5. /\ k \in Nat /\ l \in Nat /\ n \in Nat
      /\ x \in Captains /\ LogReady(x) /\ x.chosen_values \in Logs
      /\ s \in Slot /\ t \in {0} \cup Slot /\ m.value \in Value
      /\ m.last_value \in Value \cup {Null}
      /\ MaxSlot \in Nat /\ Slot = 1 .. MaxSlot
      /\ Master \in Node /\ MasterBallot \in Nat
  BY <1>1, <1>3, <1>4, CaptainFields, LenProperties, MaxSlotNat, MasterOK
  DEF Ready, Logs, Requests
<1>6. PICK g \in Nat, z \in Nat : /\ Run(q, g, k) /\ Run(r, z, g)
                                  /\ Reached(x, g) /\ Noted(c, a, z)
  BY <1>1 DEF Piped
<1>7. Level(x) /\ Tells(q, n, l)
  BY <1>1 DEF Piped
<1>8. s = g + 1 /\ Run(Tail(q), g + 1, k)
  BY <1>1, <1>3, <1>5, <1>6, RunTaken
<1>9. answer \in Answers /\ answer.slot = s
  BY <1>2, <1>3, <1>5 DEF AcceptedMsg, Answers, Replies
<1>10. Run(Append(r, answer), z, g + 1)
  BY <1>6, <1>8, <1>9, RunSent
<1>11. \A i \in Slot : y.acceptors[i] =
         IF i = s THEN Voted(m.value) ELSE x.acceptors[i]
  BY <1>1, <1>3 DEF HearsIn
<1>12. Reached(y, g + 1)
  <2> SUFFICES ASSUME NEW i \in Slot, i =< g + 1
               PROVE  y.acceptors[i] # NewAcceptor
    BY DEF Reached
  <2>1. CASE i = s
    <3>1. Voted(m.value) # NewAcceptor
      <4>1. /\ Voted(m.value).max_accepted_ballot = MasterBallot
            /\ NewAcceptor.max_accepted_ballot = 0
        BY DEF Voted, NewAcceptor
      <4> QED
        BY <4>1, MasterOK
    <3> QED
      BY <1>11, <2>1, <3>1
  <2>2. CASE i # s
    <3>1. i =< g
      BY <1>5, <1>6, <1>8, <2>2
    <3> QED
      BY <1>6, <1>11, <2>2, <3>1 DEF Reached
  <2> QED
    BY <2>1, <2>2
<1>13. CASE t = 0
  <2>1. Tells(Tail(q), n, l)
    BY <1>1, <1>3, <1>5, <1>7, <1>13, TellsTaken
  <2>2. SameLog(x, y) /\ Answered(a, answer)
    BY <1>1, <1>2, <1>3, <1>13 DEF HearsIn
  <2>3. Level(y) /\ Len(y.chosen_values) = n
    BY <1>1, <1>7, <2>2 DEF SameLog, Level
  <2>4. Piped(c, y, Tail(q), Append(r, answer), a)
    BY <1>1, <1>6, <1>8, <1>10, <1>12, <2>1, <2>3 DEF Piped
  <2> QED
    BY <1>1, <1>2, <2>2, <2>4
<1>14. CASE t # 0
  <2>1. t = n + 1 /\ Tells(Tail(q), n + 1, l)
    BY <1>1, <1>3, <1>5, <1>7, <1>14, TellsTaken
  <2>2. ChosenIn(x.chosen_values, t) = Null
    <3>1. t \notin 1 .. n
      BY <1>5, <2>1
    <3> QED
      BY <1>1, <1>5, <3>1, ChosenInOK
  <2>3. /\ t < s /\ t \in Slot /\ m.last_value = ValueIn(c, t)
    BY <1>1, <1>3, <1>5, <1>14 DEF RequestOK
  <2>4. x.acceptors[t].max_value = m.last_value
    <3>1. t =< g
      BY <1>5, <1>6, <1>8, <2>3
    <3>2. x.acceptors[t] = Voted(ValueIn(c, t))
      BY <1>6, <2>3, <3>1 DEF Reached, Follows
    <3> QED
      BY <2>3, <3>2 DEF Voted
  <2>5. /\ Logged(x, y, t, m.last_value) /\ Answered(a, answer)
    BY <1>1, <1>2, <1>3, <1>14, <2>2, <2>4 DEF HearsIn
  <2>6. m.last_value \in Value
    <3>1. t =< c.max_slot
      BY <1>1, <1>3, <1>5, <2>3 DEF RequestOK
    <3>2. c.proposers[t].status # "EMPTY"
      BY <1>1, <1>5, <2>3, <3>1 DEF Ready
    <3> QED
      BY <2>3, <3>2 DEF Ready, ProposerReady, ValueIn
  <2>7. Level(y) /\ Len(y.chosen_values) = n + 1
    BY <1>1, <1>5, <1>7, <2>1, <2>3, <2>5, <2>6, LoggedLevel
  <2>8. Piped(c, y, Tail(q), Append(r, answer), a)
    BY <1>1, <1>6, <1>8, <1>10, <1>12, <2>1, <2>7 DEF Piped
  <2> QED
    BY <1>1, <1>2, <2>5, <2>8
<1> QED
  BY <1>13, <1>14

(* Captain::re_handle_msg *)
LEMMA HearsLossless ==
  ASSUME OneMaster, TypeInv, TypeInv', MasterInv, LosslessInv,
         NEW a \in Others(Master), Hears(a)
  PROVE  LosslessInv'
<1>1. PICK c, x, y, q, r :
        /\ c = captains[Master] /\ x = captains[a] /\ y = captains'[a]
        /\ q = requests[Master][a] /\ r = replies[a][Master]
  OBVIOUS
<1>2. /\ Master \in Node /\ a \in Node /\ a # Master
      /\ Ready(c) /\ Ready(x) /\ Ready(y) /\ Follows(c, x)
      /\ q \in Seq(Requests) /\ r \in Seq(Answers) /\ q # <<>>
      /\ Chain(c) /\ Lag(c) /\ Piped(c, x, q, r, a)
      /\ HearsIn(a, x, y, Head(q))
  BY <1>1, MasterOK
  DEF Others, TypeInv, RequestsOK, RepliesOK, MasterInv, LosslessInv,
      PipesInv, Hears, RequestTaken
<1>3. Head(q) \in Requests /\ RequestOK(c, Head(q))
  BY <1>1, <1>2, FirstRequest
<1>4. PICK answer :
        /\ Piped(c, y, Tail(q), Append(r, answer), a) /\ Answered(a, answer)
  BY <1>2, <1>3, HeardPiped
<1>5. /\ requests'[Master][a] = Tail(q)
      /\ replies'[a][Master] = Append(r, answer)
  BY <1>1, <1>2, <1>4 DEF Hears, RequestTaken, Answered
<1>6. captains'[Master] = c
  BY <1>1, <1>2 DEF Hears, Alone
<1>7. ASSUME NEW b \in Others(Master)
      PROVE  Piped(c, captains'[b], requests'[Master][b],
                   replies'[b][Master], b)
  <2>1. CASE b = a
    BY <1>1, <1>4, <1>5, <2>1
  <2>2. CASE b # a
    <3>1. /\ b \in Node /\ captains'[b] = captains[b]
          /\ requests'[Master][b] = requests[Master][b]
          /\ replies'[b][Master] = replies[b][Master]
      BY <1>2, <1>4, <2>2 DEF Others, Hears, Alone, RequestTaken, Answered
    <3> QED
      BY <1>1, <3>1 DEF LosslessInv, PipesInv
  <2> QED
    BY <2>1, <2>2
<1> QED
  BY <1>1, <1>2, <1>6, <1>7 DEF LosslessInv, PipesInv

(* Captain::handle_msg: the slots of a run of answers are chosen in turn.  *)
LEMMA RecordsLossless ==
  ASSUME OneMaster, WorkInv, TypeInv', MasterInv, LosslessInv,
         NEW a \in Others(Master), Records(a)
  PROVE  LosslessInv'
<1> DEFINE At(b, z) == \E y \in Nat :
             /\ Run(requests[Master][b], y, captains[Master].max_slot)
             /\ Run(replies[b][Master], z, y)
             /\ Reached(captains[b], y) /\ Noted(captains[Master], b, z)
<1>1. PICK c, d, m, s : /\ c = captains[Master] /\ d = captains'[Master]
                        /\ m = Head(replies[a][Master]) /\ s = m.slot
  OBVIOUS
<1>2. /\ Master \in Node /\ a \in Node /\ a # Master
      /\ Ready(c) /\ Ready(d) /\ Sound(c) /\ c \in Captains
      /\ TypeInv /\ WindowOK(c) /\ Chain(c) /\ Lag(c)
      /\ \A t \in Slot : t \in Nat
  BY <1>1, MasterOK, MaxSlotNat
  DEF Others, Ready, WorkInv, TypeInv, WindowInv, MasterInv, Sound,
      LosslessInv
<1>3. /\ ReplyTaken(a, Master)
      /\ s \in Slot /\ s =< c.max_slot
  BY <1>1, <1>2, FirstReply DEF Records, ReplyTaken, AnswerOK
<1>4. \A b \in Others(Master) : \E z \in Nat : At(b, z)
  BY DEF LosslessInv, PipesInv, Piped
<1>5. PICK f : f = [b \in Others(Master) |-> CHOOSE z \in Nat : At(b, z)]
  OBVIOUS
<1>6. f \in [Others(Master) -> Nat] /\ \A b \in Others(Master) : At(b, f[b])
  <2> HIDE DEF At
  <2> QED
    BY <1>4, <1>5
<1>7. \A b \in Others(Master) : Noted(c, b, f[b])
  BY <1>1, <1>6
<1>8. ASSUME NEW b \in Others(Master)
      PROVE  /\ b \in Node /\ b # Master /\ f[b] \in Nat
             /\ captains[b] \in Captains
             /\ requests[Master][b] \in Seq(Requests)
             /\ replies[b][Master] \in Seq(Answers)
             /\ replies'[b][Master] \in Seq(Answers)
             /\ Level(captains[b])
             /\ Tells(requests[Master][b], Len(captains[b].chosen_values),
                      c.last_slot)
  BY <1>1, <1>2, <1>6
  DEF Others, TypeInv, RequestsOK, RepliesOK, LosslessInv, PipesInv, Piped
<1>9. s = f[a] + 1 /\ \E y \in Nat :
        /\ Run(requests[Master][a], y, c.max_slot)
        /\ Run(Tail(replies[a][Master]), f[a] + 1, y)
        /\ Reached(captains[a], y)
  <2>1. PICK y \in Nat : /\ Run(requests[Master][a], y, c.max_slot)
                         /\ Run(replies[a][Master], f[a], y)
                         /\ Reached(captains[a], y)
    BY <1>1, <1>6
  <2>2. replies[a][Master] # <<>>
    BY <1>3 DEF ReplyTaken
  <2> QED
    BY <1>1, <1>8, <2>1, <2>2, RunTaken
<1>10. ASSUME NEW e, e.max_slot = c.max_slot, e.last_slot = c.last_slot,
              Noted(e, a, f[a] + 1),
              \A b \in Others(Master) \ {a} : Noted(e, b, f[b]),
              NEW b \in Others(Master)
       PROVE  Piped(e, captains[b], requests[Master][b],
                    replies'[b][Master], b)
  <2>1. CASE b = a
    <3>1. replies'[a][Master] = Tail(replies[a][Master])
      BY <1>2, <1>3 DEF ReplyTaken
    <3>2. f[a] + 1 \in Nat
      BY <1>8
    <3> QED
      BY <1>8, <1>9, <1>10, <2>1, <3>1, <3>2 DEF Piped
  <2>2. CASE b # a
    <3>1. replies'[b][Master] = replies[b][Master]
      BY <1>2, <1>3, <1>8, <2>2 DEF ReplyTaken
    <3>2. Noted(e, b, f[b])
      BY <1>10, <2>2
    <3>3. PICK y \in Nat : /\ Run(requests[Master][b], y, c.max_slot)
                           /\ Run(replies[b][Master], f[b], y)
                           /\ Reached(captains[b], y)
      BY <1>1, <1>6
    <3> QED
      BY <1>8, <1>10, <3>1, <3>2, <3>3 DEF Piped
  <2> QED
    BY <2>1, <2>2
<1> HIDE DEF At
<1>11. ASSUME NEW e, NEW st, Marked(c, e, s, a, st),
              c.proposers[s].status = "PHASEII"
       PROVE  /\ e.max_slot = c.max_slot /\ e.last_slot = c.last_slot
              /\ Noted(e, a, f[a] + 1)
              /\ \A b \in Others(Master) \ {a} : Noted(e, b, f[b])
  <2>1. e.max_slot = c.max_slot /\ e.last_slot = c.last_slot
    BY <1>11 DEF Marked
  <2>2. Noted(e, a, f[a] + 1)
    BY <1>2, <1>3, <1>7, <1>8, <1>9, <1>11, MarkedNoted
  <2>3. ASSUME NEW b \in Others(Master) \ {a} PROVE Noted(e, b, f[b])
    BY <1>2, <1>3, <1>7, <1>8, <1>11, MarkedNoted
  <2> QED
    BY <2>1, <2>2, <2>3
<1>12. CASE /\ c.proposers[s].status # "PHASEII"
            /\ UNCHANGED <<captains, requests>>
  <2>1. Noted(c, a, f[a] + 1)
    <3> SUFFICES ASSUME NEW t \in Slot, t =< c.max_slot
                 PROVE  LET p == c.proposers[t]
                        IN  /\ p.ack_accept[a] = "yes" => t =< f[a] + 1
                            /\ t =< f[a] + 1 /\ p.status = "PHASEII"
                                 => p.ack_accept[a] = "yes"
      BY DEF Noted
    <3>1. /\ t =< f[a] => t =< f[a] + 1
          /\ t =< f[a] + 1 /\ t # s => t =< f[a]
      BY <1>2, <1>8, <1>9
    <3> QED
      BY <1>7, <1>12, <3>1 DEF Noted
  <2>2. \A b \in Others(Master) : Piped(c, captains[b], requests[Master][b],
                                        replies'[b][Master], b)
    BY <1>7, <1>10, <2>1
  <2> QED
    BY <1>1, <1>2, <1>12, <2>2 DEF LosslessInv, PipesInv
<1>13. ASSUME Alone(Master), UNCHANGED requests, Chain(d), Lag(d),
              \A b \in Others(Master) : Piped(d, captains[b],
                 requests[Master][b], replies'[b][Master], b)
       PROVE  LosslessInv'
  <2>1. \A b \in Others(Master) : captains'[b] = captains[b]
    BY <1>8, <1>13 DEF Alone
  <2> QED
    BY <1>1, <1>13, <2>1 DEF LosslessInv, PipesInv
<1>14. CASE /\ c.proposers[s].status = "PHASEII" /\ Alone(Master)
            /\ Marked(c, d, s, a, "PHASEII") /\ SameLog(c, d)
            /\ ~EnoughAccepted(d.proposers[s]) /\ UNCHANGED requests
  <2>1. Chain(d)
    BY <1>2, <1>3, <1>14, MarkedChain
  <2>2. Lag(d)
    BY <1>2, <1>11, <1>14 DEF Lag
  <2>3. \A b \in Others(Master) : Piped(d, captains[b],
          requests[Master][b], replies'[b][Master], b)
    BY <1>10, <1>11, <1>14
  <2> QED
    BY <1>13, <1>14, <2>1, <2>2, <2>3
<1>15. ASSUME c.proposers[s].status = "PHASEII", Alone(Master),
              NEW e, Ready(e), Marked(c, e, s, a, "CHOSEN"),
              EnoughAccepted(e.proposers[s]),
              Logged(c, e, s, ValueIn(c, s)),
              \/ d = e /\ UNCHANGED requests
              \/ /\ c.tocommit_values # <<>>
                 /\ OpensSlot(e, d, Head(c.tocommit_values))
                 /\ Sent(OpenMsg(e, Head(c.tocommit_values)))
       PROVE  LosslessInv'
  <2>1. Chain(e) /\ Len(e.chosen_values) = Len(c.chosen_values) + 1
    BY <1>2, <1>3, <1>6, <1>7, <1>9, <1>15, ChosenChain
  <2>2. e.max_slot = c.max_slot /\ Lag(e)
    BY <1>2, <1>11, <1>15 DEF Lag
  <2>3. Sound(e)
    BY <1>2, <1>3, <1>15, MarkedSound
  <2>4. \A b \in Others(Master) : Piped(e, captains[b],
          requests[Master][b], replies'[b][Master], b)
    BY <1>10, <1>11, <1>15
  <2>5. CASE d = e /\ UNCHANGED requests
    BY <1>13, <1>15, <2>1, <2>2, <2>4, <2>5
  <2>6. CASE /\ c.tocommit_values # <<>>
             /\ OpensSlot(e, d, Head(c.tocommit_values))
             /\ Sent(OpenMsg(e, Head(c.tocommit_values)))
    <3>1. PICK v, k : v = Head(c.tocommit_values) /\ k = OpenMsg(e, v)
      OBVIOUS
    <3>2. v \in Value
      BY <1>2, <2>6, <3>1, CaptainFields, HeadTailProperties
    <3>3. k \in Requests
      BY <1>2, <1>15, <2>3, <2>6, <3>1, <3>2, OpensSound
    <3>4. e.max_slot < Len(e.chosen_values) + WindowSize
      <4>1. PICK n, t, size : /\ n = Len(c.chosen_values) /\ t = c.max_slot
                              /\ size = Cardinality(Active(c))
        OBVIOUS
      <4>2. n \in Nat /\ t \in Nat /\ size = t - n /\ WindowSize \in Nat
        BY <1>2, <4>1, ChainActive, CaptainFields, CaptainAssumption
        DEF Sound, CaptainAssumption
      <4>3. size =< WindowSize
        BY <1>2, <4>1 DEF WindowOK
      <4> QED
        BY <2>1, <2>2, <4>1, <4>2, <4>3
    <3>5. Chain(d) /\ Lag(d)
      BY <1>15, <2>1, <2>2, <2>3, <2>6, <3>1, <3>2, <3>4, OpensChain
    <3>6. ASSUME NEW b \in Others(Master)
          PROVE  Piped(d, captains'[b], requests'[Master][b],
                       replies'[b][Master], b)
      <4>1. requests'[Master][b] = Append(requests[Master][b], k)
        BY <1>2, <1>8, <2>6, <3>1 DEF Sent
      <4>2. captains'[b] = captains[b]
        BY <1>8, <1>15 DEF Alone
      <4>3. Piped(d, captains[b], Append(requests[Master][b], k),
                  replies'[b][Master], b)
        BY <1>8, <1>15, <2>4, <2>6, <3>1, <3>2, <3>3, OpensPiped
      <4> QED
        BY <4>1, <4>2, <4>3
    <3> QED
      BY <1>1, <3>5, <3>6 DEF LosslessInv, PipesInv
  <2> QED
    BY <1>15, <2>5, <2>6
<1> QED
  BY <1>1, <1>12, <1>14, <1>15 DEF Records

LEMMA InitLossless == OneMaster /\ Init => LosslessInv
<1> SUFFICES ASSUME OneMaster, Init PROVE LosslessInv
  OBVIOUS
<1>1. PICK c : c = NewCaptain
  OBVIOUS
<1>2. \A n \in Node : captains[n] = c
  BY <1>1 DEF Init
<1>3. /\ c.chosen_values = <<>> /\ c.max_chosen_without_hole = 0
      /\ c.max_slot = 0 /\ c.last_slot = 0 /\ Len(<<>>) = 0
      /\ \A s \in Slot : /\ c.proposers[s].status = "EMPTY"
                         /\ ~(s =< 0)
  BY <1>1, NewProposerOK, MaxSlotNat DEF NewCaptain
<1>4. Level(c)
  BY <1>3 DEF Level
<1>5. Chain(c)
  BY <1>3, <1>4 DEF Chain
<1>6. Lag(c)
  BY <1>3, CaptainAssumption DEF Lag, CaptainAssumption
<1>7. Tells(<<>>, 0, 0) /\ Run(<<>>, 0, 0)
  BY DEF Tells, Run
<1>8. Reached(c, 0) /\ \A a : Noted(c, a, 0)
  BY <1>3 DEF Reached, Noted
<1>9. \A a : Piped(c, c, <<>>, <<>>, a)
  BY <1>3, <1>4, <1>7, <1>8 DEF Piped
<1>10. ASSUME NEW a \in Others(Master)
       PROVE  /\ captains[a] = c /\ captains[Master] = c
              /\ requests[Master][a] = <<>> /\ replies[a][Master] = <<>>
  BY <1>2, MasterOK DEF Others, Init
<1> QED
  BY <1>2, <1>5, <1>6, <1>9, <1>10, MasterOK DEF LosslessInv, PipesInv

LEMMA NextLossless ==
  OneMaster /\ Lossy = {} /\ WorkInv /\ MasterInv /\ LosslessInv
    /\ [Next]_vars => LosslessInv'
<1> SUFFICES ASSUME OneMaster, Lossy = {}, WorkInv, MasterInv, LosslessInv,
                    [Next]_vars
             PROVE  LosslessInv'
  OBVIOUS
<1>1. TypeInv /\ TypeInv'
  BY NextWork DEF WorkInv
<1>2. CASE Next
  <2>1. MasterStep
    BY <1>2, NextMaster
  <2>2. \A a : ~Loses(a)
    BY DEF Loses
  <2> QED
    BY <1>1, <2>1, <2>2, SubmitsLossless, HearsLossless, RecordsLossless
    DEF MasterStep
<1>3. CASE UNCHANGED vars
  BY <1>3 DEF vars, LosslessInv, PipesInv
<1> QED
  BY <1>2, <1>3

(* The slot whose decision travels on the next ACCEPT is never more than a *)
(* window behind: the followers learn the log as fast as it grows.         *)
THEOREM LagIsBounded ==
  OneMaster /\ Lossy = {} => (Spec => []LagBounded)
<1> SUFFICES ASSUME OneMaster, Lossy = {} PROVE Spec => []LagBounded
  OBVIOUS
<1>1. Init => WorkInv /\ MasterInv /\ LosslessInv
  BY InitWork, InitMaster, InitLossless
<1>2. WorkInv /\ MasterInv /\ LosslessInv /\ [Next]_vars
        => WorkInv' /\ MasterInv' /\ LosslessInv'
  BY NextWork, NextKeepsMaster, NextLossless
<1>3. LosslessInv => LagBounded
  BY MasterOK DEF LosslessInv, Lag, LagBounded
<1> QED
  BY <1>1, <1>2, <1>3, PTL DEF Spec

(* What a captain has delivered, if its log is the beginning of values *)
LEMMA DeliveredIs ==
  ASSUME NEW x \in Captains, Level(x), NEW l, l = Len(x.chosen_values),
         NEW values \in Seq(Value), l =< Len(values),
         \A i \in 1 .. l : x.chosen_values[i] = values[i]
  PROVE  /\ Delivered(x) = SubSeq(values, 1, l)
         /\ l = Len(values) => Delivered(x) = values
<1>1. PICK k : k = Len(values)
  OBVIOUS
<1>2. /\ l \in Nat /\ k \in Nat /\ l =< k
      /\ x.max_chosen_without_hole = l
      /\ \A i \in 1 .. k : values[i] \in Value
  BY <1>1, CaptainFields, LenProperties, ElementOfSeq DEF Logs, Level
<1>3. PICK q, r : /\ q = SubSeq(x.chosen_values, 1, l)
                  /\ r = SubSeq(values, 1, l)
  OBVIOUS
<1>4. \A i \in 1 .. l : /\ i \in 1 .. k /\ values[i] \in Value
                        /\ x.chosen_values[i] = values[i]
  BY <1>2
<1>5. /\ 1 \in Int /\ l \in Int /\ l - 1 + 1 = l /\ \A i \in 1 .. l : 1 + i - 1 = i
      /\ (IF 1 =< l THEN l - 1 + 1 ELSE 0) = l
  BY <1>2
<1>6. q \in Seq(Value) /\ Len(q) = l /\ \A i \in 1 .. l : q[i] = values[i]
  BY <1>3, <1>4, <1>5, SubSeqProperties
<1>7. r \in Seq(Value) /\ Len(r) = l /\ \A i \in 1 .. l : r[i] = values[i]
  BY <1>3, <1>4, <1>5, SubSeqProperties
<1>8. q = r
  BY <1>6, <1>7, SeqEqual
<1>9. l = k => q = values
  BY <1>1, <1>6, SeqEqual
<1> QED
  BY <1>1, <1>2, <1>3, <1>8, <1>9 DEF Delivered

(* When nothing is under way, every slot has been chosen. *)
LEMMA QuietChain ==
  ASSUME OneMaster, TypeInv, MasterInv, LosslessInv,
         \A a \in Others(Master) : /\ requests[Master][a] = <<>>
                                   /\ replies[a][Master] = <<>>
  PROVE  LET c == captains[Master]
         IN  /\ c.max_slot = Len(c.chosen_values)
             /\ Cardinality(Active(c)) = 0
             /\ \A a \in Others(Master) : /\ Level(captains[a])
                  /\ Len(captains[a].chosen_values) = c.last_slot
<1>1. PICK c, n, k, l : /\ c = captains[Master] /\ n = Len(c.chosen_values)
                        /\ k = c.max_slot /\ l = c.last_slot
  OBVIOUS
<1>2. /\ Master \in Node /\ Ready(c) /\ Sound(c) /\ Chain(c)
      /\ n \in Nat /\ k \in Nat /\ l \in Nat /\ n =< k /\ k =< MaxSlot
      /\ MaxSlot \in Nat /\ Slot = 1 .. MaxSlot
      /\ Cardinality(Active(c)) = k - n
  BY <1>1, MasterOK, CaptainFields, MaxSlotNat, ChainActive
  DEF TypeInv, Ready, MasterInv, Sound, LosslessInv
<1>3. Len(<<>>) = 0
  OBVIOUS
<1>4. ASSUME NEW a \in Others(Master)
      PROVE  /\ Noted(c, a, k) /\ Level(captains[a])
             /\ Len(captains[a].chosen_values) = l
  <2>1. Piped(c, captains[a], <<>>, <<>>, a)
    BY <1>1 DEF LosslessInv, PipesInv
  <2>2. PICK y \in Nat, z \in Nat : /\ Run(<<>>, y, k) /\ Run(<<>>, z, y)
                                    /\ Noted(c, a, z)
    BY <1>1, <2>1 DEF Piped
  <2>3. z = k
    BY <1>3, <2>2 DEF Run
  <2>4. PICK t : t = Len(captains[a].chosen_values)
    OBVIOUS
  <2>5. Tells(<<>>, t, l) /\ Level(captains[a])
    BY <1>1, <2>1, <2>4 DEF Piped
  <2>6. t \in Nat
    BY <2>4, CaptainFields, LenProperties DEF Others, TypeInv, Logs
  <2>7. t =< l /\ \A s \in t + 1 .. l : FALSE
    BY <1>3, <2>5 DEF Tells
  <2>8. t = l
    BY <1>2, <2>6, <2>7
  <2> QED
    BY <2>2, <2>3, <2>4, <2>5, <2>8
<1>5. ASSUME n < k PROVE FALSE
  <2>1. PICK s \in Slot : s = n + 1 /\ s =< k /\ ~(s =< n)
    BY <1>2, <1>5
  <2>2. PICK p : p = c.proposers[s]
    OBVIOUS
  <2>3. p.status = "PHASEII" /\ p.ack_accept[Master] = "yes"
    BY <1>1, <1>2, <2>1, <2>2 DEF Sound, Unopposed, Chain
  <2>4. \A a \in Others(Master) : p.ack_accept[a] = "yes"
    BY <1>1, <1>4, <2>1, <2>2, <2>3 DEF Noted
  <2>5. {a \in Node : p.ack_accept[a] # "none"} = Node
    BY <2>3, <2>4 DEF Others
  <2>6. Cardinality(Node) >= QuorumSize
    BY NodeAssumption, NodeFinite DEF NodeAssumption, QuorumSize
  <2>7. EnoughAccepted(p)
    BY <2>5, <2>6 DEF EnoughAccepted
  <2> QED
    BY <1>1, <1>2, <2>1, <2>2, <2>3, <2>7 DEF Chain
<1>6. n = k
  BY <1>2, <1>5
<1>7. k - n = 0
  BY <1>2, <1>6
<1> QED
  BY <1>1, <1>2, <1>4, <1>6, <1>7

LEMMA CaughtUpImplied ==
  OneMaster /\ WorkInv /\ MasterInv /\ OrderInv /\ LosslessInv => CaughtUp
<1> SUFFICES ASSUME OneMaster, WorkInv, MasterInv, OrderInv, LosslessInv,
                    \A n, a \in Node : /\ requests[n][a] = <<>>
                                       /\ replies[a][n] = <<>>
             PROVE  /\ Delivered(captains[Master]) = submitted[Master]
                    /\ \A a \in Others(Master) :
                         Delivered(captains[a]) =
                           SubSeq(submitted[Master], 1,
                                  captains[Master].last_slot)
  BY MasterOK DEF CaughtUp
<1>1. PICK c, n, l, values :
        /\ c = captains[Master] /\ n = Len(c.chosen_values)
        /\ l = c.last_slot /\ values = submitted[Master]
  OBVIOUS
<1>2. /\ Master \in Node /\ TypeInv /\ c \in Captains /\ WindowOK(c)
      /\ Ordered(values, c) /\ values \in Seq(Value)
      /\ Sound(c) /\ Chain(c) /\ c.chosen_values \in Logs
      /\ n \in Nat /\ l \in Nat /\ l =< MaxSlot /\ n =< MaxSlot
      /\ MaxSlot \in Nat /\ Slot = 1 .. MaxSlot
  BY <1>1, MasterOK, CaptainFields, MaxSlotNat, LenProperties
  DEF WorkInv, TypeInv, Ready, LogReady, HistoryOK, WindowInv, OrderInv,
      MasterInv, Sound, LosslessInv, Logs
<1>3. \A a \in Others(Master) : /\ requests[Master][a] = <<>>
                                /\ replies[a][Master] = <<>>
  BY <1>2 DEF Others
<1>4. /\ c.max_slot = n /\ Cardinality(Active(c)) = 0
      /\ \A a \in Others(Master) :
           Level(captains[a]) /\ Len(captains[a].chosen_values) = l
  BY <1>1, <1>2, <1>3, QuietChain
<1>5. c.tocommit_values = <<>>
  BY <1>2, <1>4, CaptainAssumption DEF WindowOK, CaptainAssumption
<1>6. Len(values) = n /\ \A s \in 1 .. n : values[s] = ValueIn(c, s)
  BY <1>2, <1>4, <1>5 DEF Ordered
<1>7. \A s \in 1 .. n : c.chosen_values[s] = ValueIn(c, s)
  <2> SUFFICES ASSUME NEW s \in 1 .. n
               PROVE  c.chosen_values[s] = ValueIn(c, s)
    OBVIOUS
  <2>1. s \in Slot /\ s =< n
    BY <1>2
  <2>2. c.proposers[s].status = "CHOSEN"
    BY <1>1, <1>2, <2>1 DEF Chain
  <2>3. ChosenIn(c.chosen_values, s) = ValueIn(c, s)
    BY <1>2, <2>1, <2>2 DEF Sound, OwnLog
  <2> QED
    BY <1>1, <1>2, <2>3, ChosenInOK
<1>8. Delivered(c) = values
  <2>1. Level(c)
    BY <1>2 DEF Chain
  <2> QED
    BY <1>1, <1>2, <1>6, <1>7, <2>1, DeliveredIs
<1>9. l =< n
  <2>1. CASE l = 0
    BY <1>2, <2>1
  <2>2. CASE l # 0
    <3>1. l \in Slot /\ l =< l
      BY <1>2, <2>2
    <3> QED
      BY <1>1, <1>2, <3>1 DEF Sound, ToldLog, Chain
  <2> QED
    BY <2>1, <2>2
<1>10. ASSUME NEW a \in Others(Master)
       PROVE  Delivered(captains[a]) = SubSeq(values, 1, l)
  <2>1. PICK x : x = captains[a]
    OBVIOUS
  <2>2. /\ x \in Captains /\ Follows(c, x) /\ x.chosen_values \in Logs
        /\ Level(x) /\ Len(x.chosen_values) = l
    BY <1>1, <1>2, <1>4, <2>1, CaptainFields DEF Others, TypeInv, MasterInv
  <2>3. \A s \in 1 .. l : x.chosen_values[s] = values[s]
    <3> SUFFICES ASSUME NEW s \in 1 .. l
                 PROVE  x.chosen_values[s] = values[s]
      OBVIOUS
    <3>1. s \in Slot /\ s \in 1 .. n
      BY <1>2, <1>9
    <3>2. /\ ChosenIn(x.chosen_values, s) = x.chosen_values[s]
          /\ x.chosen_values[s] # Null
      BY <2>2, ChosenInOK DEF Level
    <3>3. x.chosen_values[s] = ValueIn(c, s)
      BY <2>2, <3>1, <3>2 DEF Follows
    <3> QED
      BY <1>6, <3>1, <3>3
  <2> QED
    BY <1>2, <1>6, <1>9, <2>1, <2>2, <2>3, DeliveredIs
<1> QED
  BY <1>1, <1>8, <1>10

(* When no message is under way, everything submitted is chosen and        *)
(* delivered at the master, and the others have delivered just what they   *)
(* were told.                                                              *)
THEOREM QuietIsCaughtUp ==
  OneMaster /\ Lossy = {} => (Spec => []CaughtUp)
<1> SUFFICES ASSUME OneMaster, Lossy = {} PROVE Spec => []CaughtUp
  OBVIOUS
<1>1. Init => WorkInv /\ MasterInv /\ OrderInv /\ LosslessInv
  BY InitWork, InitMaster, InitOrder, InitLossless
<1>2. WorkInv /\ MasterInv /\ OrderInv /\ LosslessInv /\ [Next]_vars
        => WorkInv' /\ MasterInv' /\ OrderInv' /\ LosslessInv'
  BY NextWork, NextKeepsMaster, NextKeepsOrder, NextLossless
<1>3. WorkInv /\ MasterInv /\ OrderInv /\ LosslessInv => CaughtUp
  BY CaughtUpImplied
<1> QED
  BY <1>1, <1>2, <1>3, PTL DEF Spec
===============================================================================
