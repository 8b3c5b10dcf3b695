----------------------------- MODULE CaptainProofs -----------------------------
(***************************************************************************)
(* Theorems about the captains for any view, any set of committing nodes,  *)
(* any window and any losses: what is in the types, how full the window    *)
(* is, and that a committed value is in exactly one place.                 *)
(***************************************************************************)
EXTENDS Captain, ProposerProofs, SequenceTheorems

-----------------------------------------------------------------------------
(* Sequences *)

Entries(q) == {q[i] : i \in DOMAIN q}

NoTwice(q) == \A i, j \in DOMAIN q : q[i] = q[j] => i = j

(* Appending adds one entry at the end. *)
LEMMA AppendEntries ==
  ASSUME NEW S, NEW q \in Seq(S), NEW v \in S
  PROVE  LET p == Append(q, v)
         IN  /\ p \in Seq(S) /\ p # <<>>
             /\ Entries(p) = Entries(q) \cup {v}
             /\ NoTwice(q) /\ v \notin Entries(q) => NoTwice(p)
<1> DEFINE k == Len(q)
<1>1. PICK p : p = Append(q, v)
  OBVIOUS
<1>2. /\ k \in Nat /\ DOMAIN q = 1 .. k
      /\ p \in Seq(S) /\ p # <<>> /\ DOMAIN p = 1 .. k + 1
      /\ \A i \in 1 .. k : p[i] = q[i]
      /\ p[k + 1] = v
  BY <1>1, LenProperties, AppendProperties
<1> HIDE DEF k
<1>3. \A i \in DOMAIN p : i \in DOMAIN q \/ i = k + 1
  BY <1>2
<1>4. \A i \in DOMAIN q : i \in DOMAIN p /\ q[i] = p[i]
  BY <1>2
<1>5. k + 1 \in DOMAIN p /\ k + 1 \notin DOMAIN q
  BY <1>2
<1>6. \A e : e \in Entries(p) <=> e \in Entries(q) \cup {v}
  BY <1>2, <1>3, <1>4, <1>5 DEF Entries
<1>7. NoTwice(q) /\ v \notin Entries(q) => NoTwice(p)
  BY <1>2, <1>3, <1>4 DEF Entries, NoTwice
<1> QED
  BY <1>1, <1>2, <1>6, <1>7

(* Taking the first entry leaves the others. *)
LEMMA TailEntries ==
  ASSUME NEW S, NEW q \in Seq(S), q # <<>>
  PROVE  /\ Head(q) \in S /\ Tail(q) \in Seq(S)
         /\ Entries(q) = Entries(Tail(q)) \cup {Head(q)}
         /\ NoTwice(q) => NoTwice(Tail(q)) /\ Head(q) \notin Entries(Tail(q))
<1>1. PICK p, h, k : p = Tail(q) /\ h = Head(q) /\ k = Len(q)
  OBVIOUS
<1>2. /\ k \in Nat \ {0} /\ DOMAIN q = 1 .. k
      /\ h \in S /\ p \in Seq(S) /\ DOMAIN p = 1 .. k - 1
      /\ \A i \in 1 .. k - 1 : p[i] = q[i + 1]
      /\ h = q[1]
  BY <1>1, LenProperties, EmptySeq, HeadTailProperties
<1>3. \A i \in DOMAIN p : i + 1 \in DOMAIN q /\ i + 1 # 1 /\ p[i] = q[i + 1]
  BY <1>2
<1>4. \A i \in DOMAIN q : i = 1 \/ (i - 1 \in DOMAIN p /\ p[i - 1] = q[i])
  BY <1>2
<1>5. 1 \in DOMAIN q
  BY <1>2
<1>6. \A e : e \in Entries(q) <=> e \in Entries(p) \cup {h}
  BY <1>2, <1>3, <1>4, <1>5 DEF Entries
<1>7. ASSUME NoTwice(q) PROVE NoTwice(p)
  <2> SUFFICES ASSUME NEW i \in DOMAIN p, NEW j \in DOMAIN p, p[i] = p[j]
               PROVE  i = j
    BY DEF NoTwice
  <2>1. i + 1 = j + 1
    BY <1>3, <1>7 DEF NoTwice
  <2>2. i \in Int /\ j \in Int
    BY <1>2
  <2> QED
    BY <2>1, <2>2
<1>8. ASSUME NoTwice(q) PROVE h \notin Entries(p)
  <2> SUFFICES ASSUME NEW i \in DOMAIN p, p[i] = h
               PROVE  FALSE
    BY DEF Entries
  <2> QED
    BY <1>2, <1>3, <1>5, <1>8 DEF NoTwice
<1> QED
  BY <1>1, <1>2, <1>6, <1>7, <1>8

(* The same of the empty sequence. *)
LEMMA EmptyEntries == Entries(<<>>) = {} /\ NoTwice(<<>>)
<1>1. DOMAIN <<>> = {}
  OBVIOUS
<1> QED
  BY <1>1 DEF Entries, NoTwice

-----------------------------------------------------------------------------
(* The log *)

Logs == Seq(Value \cup {Null})

(* A log shows what it holds in its slots and Null in all others. *)
LEMMA ChosenInOK ==
  ASSUME NEW log \in Logs, NEW i
  PROVE  /\ ChosenIn(log, i) \in Value \cup {Null}
         /\ ChosenIn(log, i) # Null => i \in 1 .. Len(log)
         /\ i \in 1 .. Len(log) => ChosenIn(log, i) = log[i]
<1>1. DOMAIN log = 1 .. Len(log)
  BY LenProperties DEF Logs
<1>2. \A j \in 1 .. Len(log) : log[j] \in Value \cup {Null}
  BY ElementOfSeq DEF Logs
<1> QED
  BY <1>1, <1>2 DEF ChosenIn

(* add_chosen_value fills a slot that has no value, and no other slot. *)
LEMMA LogWithOK ==
  ASSUME NEW log \in Logs, NEW s \in Nat, NEW v \in Value \cup {Null}
  PROVE  LET r == LogWith(log, s, v)
         IN  /\ r \in Logs
             /\ Len(r) = IF s > Len(log) THEN s ELSE Len(log)
             /\ \A i \in Nat \ {0} : ChosenIn(r, i) =
                  IF i = s /\ ChosenIn(log, s) = Null
                  THEN v ELSE ChosenIn(log, i)
<1> DEFINE top == IF s > Len(log) THEN s ELSE Len(log)
           r == LogWith(log, s, v)
           new(i) == IF i = s /\ ChosenIn(log, s) = Null
                     THEN v ELSE ChosenIn(log, i)
<1>1. Len(log) \in Nat /\ DOMAIN log = 1 .. Len(log)
  BY LenProperties DEF Logs
<1>2. top \in Nat /\ top >= s /\ top >= Len(log) /\ (top = s \/ top = Len(log))
  BY <1>1
<1>3. DOMAIN log \cup 1 .. s = 1 .. top
  BY <1>1
<1>4. \A i : new(i) \in Value \cup {Null}
  BY ChosenInOK
<1>5. r = [i \in 1 .. top |-> new(i)]
  BY <1>3 DEF LogWith
<1> HIDE DEF top, new, r
<1>6. r \in Logs
  <2>1. r \in [1 .. top -> Value \cup {Null}]
    BY <1>4, <1>5
  <2> QED
    BY <1>2, <2>1, SeqDef DEF Logs
<1>7. Len(r) = top
  <2>1. Len(r) \in Nat /\ 1 .. Len(r) = 1 .. top
    BY <1>5, <1>6, LenProperties DEF Logs
  <2> QED
    BY <1>2, <2>1
<1>8. ASSUME NEW i \in Nat \ {0} PROVE ChosenIn(r, i) = new(i)
  <2>1. CASE i \in 1 .. top
    BY <1>5, <2>1 DEF ChosenIn
  <2>2. CASE i \notin 1 .. top
    <3>1. i \in Nat /\ i > top
      BY <1>2, <1>8, <2>2
    <3>2. i # s
      BY <1>2, <3>1
    <3>3. i \notin 1 .. Len(log)
      <4>1. PICK n \in Nat : n = Len(log)
        BY <1>1
      <4>2. i > n
        BY <1>2, <3>1, <4>1
      <4>3. i \notin 1 .. n
        BY <3>1, <4>2
      <4> QED
        BY <4>1, <4>3
    <3> QED
      BY <1>1, <1>5, <2>2, <3>2, <3>3 DEF ChosenIn, new
  <2> QED
    BY <2>1, <2>2
<1> QED
  BY <1>6, <1>7, <1>8 DEF top, new, r

(* add_callback delivers up to a hole or the end of the log. *)
LEMMA DeliverFromOK ==
  ASSUME NEW log \in Logs, NEW k \in Nat, k =< Len(log)
  PROVE  LET j == DeliverFrom(log, k)
         IN  /\ j \in k .. Len(log)
             /\ \A i \in k + 1 .. j : log[i] # Null
             /\ ChosenIn(log, j + 1) = Null
<1> DEFINE ends == {j \in k .. Len(log) : ChosenIn(log, j + 1) = Null}
<1>1. Len(log) \in Nat /\ DOMAIN log = 1 .. Len(log)
  BY LenProperties DEF Logs
<1>2. Len(log) \in ends
  BY <1>1, ChosenInOK
<1>3. ends \subseteq Nat /\ ends # {}
  BY <1>1, <1>2
<1> HIDE DEF ends
<1>4. PICK j \in ends : \A i \in ends : ~ (<<i, j>> \in OpToRel(<, Nat))
  BY <1>3, NatLessThanWellFounded, WFMin
<1>5. \A i \in ends : ~ (i < j)
  BY <1>3, <1>4 DEF OpToRel
<1>6. j \in k .. Len(log) /\ ChosenIn(log, j + 1) = Null /\ j \in Nat
  BY <1>3, <1>4 DEF ends
<1>7. \A i \in k + 1 .. j : log[i] # Null
  <2> TAKE i \in k + 1 .. j
  <2>1. i \in 1 .. Len(log) /\ i - 1 \in k .. Len(log) /\ i - 1 < j
    BY <1>1, <1>6
  <2>2. i - 1 \notin ends
    BY <1>5, <2>1
  <2>3. ChosenIn(log, i - 1 + 1) # Null /\ i - 1 + 1 = i
    BY <2>1, <2>2 DEF ends
  <2> QED
    BY <1>1, <2>1, <2>3 DEF ChosenIn
<1> QED
  BY <1>6, <1>7 DEF DeliverFrom

-----------------------------------------------------------------------------
(* One captain *)

(* The slots up to max_slot_ have had a proposer, the others have not; a   *)
(* proposer has a value of its own, and in Phase II a value to propose.    *)
ProposerReady(p) ==
  /\ p.status # "EMPTY" => p.init_value \in Value
  /\ p.status = "PHASEII" => p.curr_value \in Value

LogReady(c) == /\ Len(c.chosen_values) =< MaxSlot
               /\ c.max_chosen_without_hole =< Len(c.chosen_values)

Ready(c) ==
  /\ c \in Captains
  /\ LogReady(c)
  /\ \A s \in Slot : /\ ProposerReady(c.proposers[s])
                     /\ s > c.max_slot <=> c.proposers[s].status = "EMPTY"

LEMMA MaxSlotNat == MaxSlot \in Nat /\ Slot = 1 .. MaxSlot
BY CaptainAssumption DEF CaptainAssumption, Slot

LEMMA CaptainFields ==
  ASSUME NEW c \in Captains
  PROVE  /\ c.acceptors \in [Slot -> Acceptors]
         /\ c.proposers \in [Slot -> Proposers]
         /\ c.max_slot \in 0 .. MaxSlot /\ c.max_slot \in Nat
         /\ c.last_slot \in 0 .. MaxSlot /\ c.last_slot \in Nat
         /\ c.chosen_values \in Logs
         /\ c.max_chosen_without_hole \in 0 .. MaxSlot
         /\ c.max_chosen_without_hole \in Nat
         /\ c.tocommit_values \in Seq(Value)
BY MaxSlotNat DEF Captains, Logs

LEMMA ActiveFinite ==
  ASSUME NEW c
  PROVE  IsFiniteSet(Active(c)) /\ Cardinality(Active(c)) \in Nat
<1>1. IsFiniteSet(Slot)
  BY MaxSlotNat, FS_Interval
<1> QED
  BY <1>1, FS_Subset, FS_CardinalityType DEF Active

(* A new captain is ready and has nothing to do. *)
LEMMA NewCaptainReady ==
  /\ Ready(NewCaptain)
  /\ Active(NewCaptain) = {}
  /\ NewCaptain.tocommit_values = <<>>
<1>1. NewAcceptor \in Acceptors
  BY DEF NewAcceptor, Acceptors
<1>2. NewProposer(Null) \in Proposers /\ NewProposer(Null).status = "EMPTY"
  BY NewProposerOK
<1>3. <<>> \in Seq(Value \cup {Null}) /\ <<>> \in Seq(Value) /\ Len(<<>>) = 0
  BY EmptySeq
<1>4. NewCaptain \in Captains
  BY <1>1, <1>2, <1>3, MaxSlotNat DEF NewCaptain, Captains
<1>5. \A s \in Slot : NewCaptain.proposers[s] = NewProposer(Null) /\ s > 0
  BY MaxSlotNat DEF NewCaptain
<1>6. /\ NewCaptain.max_slot = 0 /\ NewCaptain.chosen_values = <<>>
      /\ NewCaptain.max_chosen_without_hole = 0
      /\ NewCaptain.tocommit_values = <<>>
  BY DEF NewCaptain
<1>7. Active(NewCaptain) = {}
  BY <1>2, <1>5 DEF Active
<1>8. Len(NewCaptain.chosen_values) =< MaxSlot
  BY <1>3, <1>6, MaxSlotNat
<1>9. NewCaptain.max_chosen_without_hole =< Len(NewCaptain.chosen_values)
  BY <1>3, <1>6
<1>10. \A s \in Slot :
         /\ ProposerReady(NewCaptain.proposers[s])
         /\ s > NewCaptain.max_slot <=> NewCaptain.proposers[s].status = "EMPTY"
  BY <1>2, <1>5, <1>6 DEF ProposerReady
<1> QED
  BY <1>4, <1>6, <1>7, <1>8, <1>9, <1>10 DEF Ready, LogReady

(* WithChosen writes the log and delivers; nothing else changes. *)
LEMMA WithChosenOK ==
  ASSUME NEW c \in Captains, NEW s \in Slot, NEW v \in Value \cup {Null},
         LogReady(c)
  PROVE  LET d == WithChosen(c, s, v)
             log == LogWith(c.chosen_values, s, v)
         IN  /\ d \in Captains
             /\ d.chosen_values = log
             /\ d.max_chosen_without_hole =
                  DeliverFrom(log, c.max_chosen_without_hole)
             /\ d.acceptors = c.acceptors
             /\ d.proposers = c.proposers
             /\ d.max_slot = c.max_slot
             /\ d.last_slot = c.last_slot
             /\ d.tocommit_values = c.tocommit_values
             /\ LogReady(d)
<1> DEFINE log == LogWith(c.chosen_values, s, v)
           k == c.max_chosen_without_hole
<1>1. /\ c.chosen_values \in Logs /\ k \in Nat /\ s \in Nat /\ s =< MaxSlot
      /\ Len(c.chosen_values) \in Nat
  BY CaptainFields, MaxSlotNat, LenProperties DEF Logs
<1>2. /\ log \in Logs
      /\ Len(log) = IF s > Len(c.chosen_values) THEN s ELSE Len(c.chosen_values)
  BY <1>1, LogWithOK
<1>3. Len(log) \in Nat /\ Len(log) =< MaxSlot /\ k =< Len(log)
  <2> HIDE DEF log, k
  <2> QED
    BY <1>1, <1>2, MaxSlotNat DEF k, LogReady
<1>4. DeliverFrom(log, k) \in k .. Len(log)
  <2> HIDE DEF log, k
  <2> QED
    BY <1>1, <1>2, <1>3, DeliverFromOK
<1>5. DeliverFrom(log, k) \in 0 .. MaxSlot /\ DeliverFrom(log, k) =< Len(log)
  <2> HIDE DEF log, k
  <2> QED
    BY <1>1, <1>3, <1>4, MaxSlotNat
<1>6. WithChosen(c, s, v) = [c EXCEPT !.chosen_values = log,
                                     !.max_chosen_without_hole = DeliverFrom(log, k)]
  BY DEF WithChosen
<1> HIDE DEF log, k
<1> QED
  BY <1>2, <1>3, <1>5, <1>6 DEF Captains, Logs, LogReady, log, k

(* The captain with another acceptor and another proposer in one slot *)
WithSlot(c, s, r, q) == [c EXCEPT !.acceptors[s] = r, !.proposers[s] = q]

(* Replacing the two leaves the rest of the captain as it is. *)
LEMMA SlotReplaced ==
  ASSUME NEW c \in Captains, NEW s \in Slot,
         NEW r \in Acceptors, NEW q \in Proposers, NEW d,
         d = WithSlot(c, s, r, q)
  PROVE  /\ d \in Captains
         /\ \A t \in Slot :
              /\ d.acceptors[t] = IF t = s THEN r ELSE c.acceptors[t]
              /\ d.proposers[t] = IF t = s THEN q ELSE c.proposers[t]
         /\ d.max_slot = c.max_slot
         /\ d.last_slot = c.last_slot
         /\ d.chosen_values = c.chosen_values
         /\ d.max_chosen_without_hole = c.max_chosen_without_hole
         /\ d.tocommit_values = c.tocommit_values
<1>1. /\ d.acceptors = [c.acceptors EXCEPT ![s] = r]
      /\ d.proposers = [c.proposers EXCEPT ![s] = q]
      /\ d.max_slot = c.max_slot
      /\ d.last_slot = c.last_slot
      /\ d.chosen_values = c.chosen_values
      /\ d.max_chosen_without_hole = c.max_chosen_without_hole
      /\ d.tocommit_values = c.tocommit_values
  BY DEF Captains, WithSlot
<1>2. /\ [c.acceptors EXCEPT ![s] = r] \in [Slot -> Acceptors]
      /\ [c.proposers EXCEPT ![s] = q] \in [Slot -> Proposers]
      /\ [c.proposers EXCEPT ![s] = q][s] = q
  BY CaptainFields
<1>3. d \in Captains
  BY <1>2 DEF Captains, WithSlot
<1>4. \A t \in Slot :
        /\ d.acceptors[t] = IF t = s THEN r ELSE c.acceptors[t]
        /\ d.proposers[t] = IF t = s THEN q ELSE c.proposers[t]
  BY <1>1, CaptainFields
<1> QED
  BY <1>1, <1>3, <1>4

(* Broadcasting ACCEPT changes the slot's own acceptor and proposer. *)
LEMMA WithAcceptOK ==
  ASSUME NEW c \in Captains, NEW n \in Node, NEW s \in Slot,
         NEW p \in Proposers, p.curr_value \in Value
  PROVE  LET d == WithAccept(c, n, s, p)
             acc == c.acceptors[s]
             b == p.curr_ballot
         IN  /\ d \in Captains
             /\ d.acceptors[s] = AfterAccept(acc, b, p.curr_value)
             /\ d.proposers[s] = WithAccepted(p, n, AcceptedReply(acc, b))
             /\ \A t \in Slot \ {s} : /\ d.acceptors[t] = c.acceptors[t]
                                      /\ d.proposers[t] = c.proposers[t]
             /\ d.proposers[s] \in Proposers
             /\ d.proposers[s].status = p.status
             /\ d.proposers[s].init_value = p.init_value
             /\ d.proposers[s].curr_value = p.curr_value
             /\ d.max_slot = c.max_slot
             /\ d.last_slot = c.last_slot
             /\ d.chosen_values = c.chosen_values
             /\ d.max_chosen_without_hole = c.max_chosen_without_hole
             /\ d.tocommit_values = c.tocommit_values
<1> DEFINE acc == c.acceptors[s]
           b == p.curr_ballot
           r == AfterAccept(acc, b, p.curr_value)
           q == WithAccepted(p, n, AcceptedReply(acc, b))
<1>1. acc \in Acceptors /\ b \in Nat
  BY CaptainFields DEF Proposers
<1>2. AcceptedReply(acc, b) \in Replies
  BY DEF AcceptedReply, Replies
<1>3. r \in Acceptors
  <2> HIDE DEF acc, b
  <2> QED
    BY <1>1, AfterAcceptOK
<1>4. /\ q \in Proposers /\ q.status = p.status
      /\ q.init_value = p.init_value /\ q.curr_value = p.curr_value
  <2> HIDE DEF acc, b
  <2> QED
    BY <1>2, WithAcceptedOK
<1>5. WithAccept(c, n, s, p) = WithSlot(c, s, r, q)
  BY DEF WithAccept, WithSlot
<1>6. PICK d : d = WithAccept(c, n, s, p)
  OBVIOUS
<1> HIDE DEF r, q
<1>7. /\ d \in Captains
      /\ \A t \in Slot :
           /\ d.acceptors[t] = IF t = s THEN r ELSE c.acceptors[t]
           /\ d.proposers[t] = IF t = s THEN q ELSE c.proposers[t]
      /\ d.max_slot = c.max_slot
      /\ d.last_slot = c.last_slot
      /\ d.chosen_values = c.chosen_values
      /\ d.max_chosen_without_hole = c.max_chosen_without_hole
      /\ d.tocommit_values = c.tocommit_values
  BY <1>3, <1>4, <1>5, <1>6, SlotReplaced
<1> QED
  BY <1>4, <1>6, <1>7 DEF r, q

(* Broadcasting PREPARE changes the slot's own acceptor and proposer. *)
LEMMA WithPrepareOK ==
  ASSUME NEW c \in Captains, NEW n \in Node, NEW s \in Slot,
         NEW p \in Proposers
  PROVE  LET d == WithPrepare(c, n, s, p)
             acc == c.acceptors[s]
             b == p.curr_ballot
         IN  /\ d \in Captains
             /\ d.acceptors[s] = AfterPrepare(acc, b)
             /\ d.proposers[s] = WithPromise(p, n, PromiseOf(acc, b))
             /\ \A t \in Slot \ {s} : /\ d.acceptors[t] = c.acceptors[t]
                                      /\ d.proposers[t] = c.proposers[t]
             /\ d.proposers[s] \in Proposers
             /\ d.proposers[s].status = p.status
             /\ d.proposers[s].init_value = p.init_value
             /\ d.proposers[s].curr_value = p.curr_value
             /\ d.max_slot = c.max_slot
             /\ d.last_slot = c.last_slot
             /\ d.chosen_values = c.chosen_values
             /\ d.max_chosen_without_hole = c.max_chosen_without_hole
             /\ d.tocommit_values = c.tocommit_values
<1> DEFINE acc == c.acceptors[s]
           b == p.curr_ballot
           r == AfterPrepare(acc, b)
           q == WithPromise(p, n, PromiseOf(acc, b))
<1>1. acc \in Acceptors /\ b \in Nat
  BY CaptainFields DEF Proposers
<1>2. PromiseOf(acc, b) \in Promises
  <2> HIDE DEF acc, b
  <2> QED
    BY <1>1, PromiseOfOK
<1>3. r \in Acceptors
  <2> HIDE DEF acc, b
  <2> QED
    BY <1>1, AfterPrepareOK
<1>4. /\ q \in Proposers /\ q.status = p.status
      /\ q.init_value = p.init_value /\ q.curr_value = p.curr_value
  <2> HIDE DEF acc, b
  <2> QED
    BY <1>2, WithPromiseOK
<1>5. WithPrepare(c, n, s, p) = WithSlot(c, s, r, q)
  BY DEF WithPrepare, WithSlot
<1>6. PICK d : d = WithPrepare(c, n, s, p)
  OBVIOUS
<1> HIDE DEF r, q
<1>7. /\ d \in Captains
      /\ \A t \in Slot :
           /\ d.acceptors[t] = IF t = s THEN r ELSE c.acceptors[t]
           /\ d.proposers[t] = IF t = s THEN q ELSE c.proposers[t]
      /\ d.max_slot = c.max_slot
      /\ d.last_slot = c.last_slot
      /\ d.chosen_values = c.chosen_values
      /\ d.max_chosen_without_hole = c.max_chosen_without_hole
      /\ d.tocommit_values = c.tocommit_values
  BY <1>3, <1>4, <1>5, <1>6, SlotReplaced
<1> QED
  BY <1>4, <1>6, <1>7 DEF r, q
-----------------------------------------------------------------------------
(* What a step does to the work of a captain *)

Working(p) == p.status \in {"PHASEI", "PHASEII"}

SameValues(c, d, slots) ==
  \A s \in slots : d.proposers[s].init_value = c.proposers[s].init_value

(* The same values wait, and the same are worked on in the same slots. *)
SameWork(c, d) ==
  /\ Active(d) = Active(c) /\ SameValues(c, d, Active(c))
  /\ d.tocommit_values = c.tocommit_values

(* A value got a slot. *)
Opened(c, d, v) ==
  /\ SameValues(c, d, Active(c))
  /\ \E s \in Slot \ Active(c) : /\ Active(d) = Active(c) \cup {s}
                                 /\ d.proposers[s].init_value = v

(* The proposer of slot s left the map. *)
Ended(c, d, s) ==
  /\ s \in Active(c)
  /\ Active(d) = Active(c) \ {s} /\ SameValues(c, d, Active(d))

(* Changing one proposer, in a slot in use or in the next one. *)
LEMMA ProposerReplaced ==
  ASSUME NEW c, Ready(c), NEW d \in Captains, LogReady(d),
         NEW s \in Slot, NEW q, ProposerReady(q), q.status # "EMPTY",
         \A t \in Slot : d.proposers[t] = IF t = s THEN q ELSE c.proposers[t]
  PROVE  /\ d.max_slot = c.max_slot /\ c.proposers[s].status # "EMPTY"
              => Ready(d)
         /\ d.max_slot = s /\ s = c.max_slot + 1
              => /\ Ready(d)
                 /\ Working(q) => Opened(c, d, q.init_value)
         /\ (/\ s \in Active(c) /\ Working(q)
             /\ q.init_value = c.proposers[s].init_value
             /\ d.tocommit_values = c.tocommit_values)
              => SameWork(c, d)
         /\ s \in Active(c) /\ ~Working(q) => Ended(c, d, s)
<1>1. /\ c \in Captains /\ c.proposers \in [Slot -> Proposers]
      /\ c.max_slot \in Nat /\ s \in Nat
  BY CaptainFields, MaxSlotNat DEF Ready
<1>2. \A t \in Slot : d.proposers[t] = IF t = s THEN q ELSE c.proposers[t]
  BY <1>1
<1>3. \A t \in Slot : /\ t \in Nat
                      /\ ProposerReady(c.proposers[t])
                      /\ t > c.max_slot <=> c.proposers[t].status = "EMPTY"
  BY MaxSlotNat DEF Ready
<1>4. ASSUME d.max_slot = c.max_slot, c.proposers[s].status # "EMPTY"
      PROVE  Ready(d)
  BY <1>2, <1>3, <1>4 DEF Ready
<1>5. ASSUME d.max_slot = s, s = c.max_slot + 1
      PROVE  Ready(d)
  <2>1. \A t \in Slot : t > s <=> (t > c.max_slot /\ t # s)
    BY <1>1, <1>3, <1>5
  <2> QED
    BY <1>2, <1>3, <1>5, <2>1 DEF Ready
<1>6. \A t \in Slot : t \in Active(d) <=> IF t = s THEN Working(q) ELSE t \in Active(c)
  BY <1>2 DEF Active, Working
<1>7. Active(c) \subseteq Slot /\ Active(d) \subseteq Slot
  BY DEF Active
<1>8. ASSUME s = c.max_slot + 1, Working(q)
      PROVE  Opened(c, d, q.init_value)
  <2>1. s \notin Active(c)
    <3>1. s > c.max_slot
      BY <1>1, <1>8
    <3>2. c.proposers[s].status = "EMPTY"
      BY <3>1 DEF Ready
    <3> QED
      BY <3>2 DEF Active
  <2>2. Active(d) = Active(c) \cup {s}
    BY <1>6, <1>7, <1>8
  <2> QED
    BY <1>2, <1>7, <2>1, <2>2 DEF Opened, SameValues
<1>9. ASSUME s \in Active(c), Working(q),
             q.init_value = c.proposers[s].init_value,
             d.tocommit_values = c.tocommit_values
      PROVE  SameWork(c, d)
  <2>1. Active(d) = Active(c)
    BY <1>6, <1>7, <1>9
  <2> QED
    BY <1>2, <1>7, <1>9, <2>1 DEF SameWork, SameValues
<1>10. ASSUME s \in Active(c), ~Working(q)
       PROVE  Ended(c, d, s)
  <2>1. Active(d) = Active(c) \ {s}
    BY <1>6, <1>7, <1>10
  <2> QED
    BY <1>2, <1>7, <1>10, <2>1 DEF Ended, SameValues
<1>11. /\ d.max_slot = c.max_slot /\ c.proposers[s].status # "EMPTY"
            => Ready(d)
       /\ d.max_slot = s /\ s = c.max_slot + 1
            => Ready(d)
  BY <1>4, <1>5
<1>12. d.max_slot = s /\ s = c.max_slot + 1 /\ Working(q)
         => Opened(c, d, q.init_value)
  BY <1>8
<1>13. (/\ s \in Active(c) /\ Working(q)
        /\ q.init_value = c.proposers[s].init_value
        /\ d.tocommit_values = c.tocommit_values)
          => SameWork(c, d)
  BY <1>9
<1>14. s \in Active(c) /\ ~Working(q) => Ended(c, d, s)
  BY <1>10
<1> HIDE DEF Ready, Working, Opened, SameWork, Ended
<1> QED
  BY <1>11, <1>12, <1>13, <1>14

(* Changes elsewhere than in the proposers. *)
LEMMA ProposersKept ==
  ASSUME NEW c, Ready(c), NEW d \in Captains, LogReady(d),
         d.proposers = c.proposers, d.max_slot = c.max_slot
  PROVE  /\ Ready(d) /\ Active(d) = Active(c)
         /\ d.tocommit_values = c.tocommit_values => SameWork(c, d)
BY DEF Ready, Active, SameWork, SameValues
-----------------------------------------------------------------------------
(* What a step does to the connections *)

RequestsOK == requests \in [Node -> [Node -> Seq(Requests)]]

RepliesOK == replies \in [Node -> [Node -> Seq(Answers)]]

(* A broadcast appends one request to each connection. *)
LEMMA BroadcastOK ==
  ASSUME NEW n \in Node, NEW m \in Requests, RequestsOK, Broadcast(n, m)
  PROVE  RequestsOK'
<1>1. \A a \in Node : requests[n][a] \in Seq(Requests)
  BY DEF RequestsOK
<1>2. \A a \in Node : Append(requests[n][a], m) \in Seq(Requests)
  BY <1>1, AppendProperties
<1>3. PICK f : f = [a \in Node |-> IF a = n THEN requests[n][a]
                                           ELSE Append(requests[n][a], m)]
  OBVIOUS
<1>4. f \in [Node -> Seq(Requests)]
  BY <1>1, <1>2, <1>3
<1>5. requests' = [requests EXCEPT ![n] = f]
  BY <1>3 DEF Broadcast
<1> QED
  BY <1>4, <1>5 DEF RequestsOK

(* The first message of a connection is a message. *)
LEMMA FirstOK ==
  ASSUME NEW S, NEW q \in Seq(S), NEW m \in First(q)
  PROVE  q # <<>> /\ m = Head(q) /\ m \in S /\ Tail(q) \in Seq(S)
<1>1. q # <<>> /\ m = Head(q)
  BY DEF First
<1> QED
  BY <1>1, HeadTailProperties

(* Taking the first message of a connection leaves its other messages. *)
LEMMA RequestTakenOK ==
  ASSUME NEW n \in Node, NEW a \in Node, RequestsOK, requests[n][a] # <<>>,
         requests' = [requests EXCEPT ![n][a] = Tail(@)]
  PROVE  RequestsOK'
<1>1. PICK q : q = Tail(requests[n][a])
  OBVIOUS
<1>2. q \in Seq(Requests)
  BY <1>1, HeadTailProperties DEF RequestsOK
<1>3. requests' = [requests EXCEPT ![n][a] = q]
  BY <1>1
<1> QED
  BY <1>2, <1>3 DEF RequestsOK

LEMMA ReplyTakenOK ==
  ASSUME NEW a \in Node, NEW n \in Node, RepliesOK, replies[a][n] # <<>>,
         replies' = [replies EXCEPT ![a][n] = Tail(@)]
  PROVE  RepliesOK'
<1>1. PICK q : q = Tail(replies[a][n])
  OBVIOUS
<1>2. q \in Seq(Answers)
  BY <1>1, HeadTailProperties DEF RepliesOK
<1>3. replies' = [replies EXCEPT ![a][n] = q]
  BY <1>1
<1> QED
  BY <1>2, <1>3 DEF RepliesOK

(* An answer goes to the end of its connection. *)
LEMMA ReplyOK ==
  ASSUME NEW a \in Node, NEW n \in Node, NEW m \in Answers,
         RepliesOK, Reply(a, n, m)
  PROVE  RepliesOK'
<1>1. PICK q : q = Append(replies[a][n], m)
  OBVIOUS
<1>2. q \in Seq(Answers)
  BY <1>1, AppendProperties DEF RepliesOK
<1>3. replies' = [replies EXCEPT ![a][n] = q]
  BY <1>1 DEF Reply
<1> QED
  BY <1>2, <1>3 DEF RepliesOK

-----------------------------------------------------------------------------
(* The three ways in which a captain starts to propose *)

Becomes(n, d) == captains' = [captains EXCEPT ![n] = d] /\ Ready(d)

(* commit and the queue *)
LEMMA OpenOK ==
  ASSUME NEW n \in Node, NEW c, Ready(c), NEW v \in Value, Open(n, c, v),
         RequestsOK
  PROVE  /\ RequestsOK'
         /\ \E d : /\ Becomes(n, d) /\ Opened(c, d, v)
                   /\ d.tocommit_values = c.tocommit_values
<1> DEFINE s == c.max_slot + 1
           told == c.last_slot + 1
           last == IF TellsLast(c) THEN told ELSE 0
           p == OpenedInPhaseII(v, n)
           e == [c EXCEPT !.max_slot = s,
                          !.last_slot = IF TellsLast(c) THEN @ + 1 ELSE @]
           d == WithAccept(e, n, s, p)
           m == AcceptMsg(s, p.curr_ballot, v, last, ChosenIn(c.chosen_values, last))
<1>1. /\ s \in Slot /\ captains' = [captains EXCEPT ![n] = d]
      /\ Broadcast(n, m)
  BY DEF Open
<1>2. c \in Captains /\ LogReady(c)
  BY DEF Ready
<1>3. /\ p \in Proposers /\ p.status = "PHASEII" /\ p.init_value = v
      /\ p.curr_value = v /\ p.curr_ballot \in Nat
  BY OpenedInPhaseIIOK DEF Proposers
<1>4. /\ ChosenIn(c.chosen_values, last) \in Value \cup {Null}
      /\ TellsLast(c) => told \in Slot
  <2>1. PICK log, len : log = c.chosen_values /\ len = Len(log)
    OBVIOUS
  <2>2. log \in Logs /\ len \in Nat /\ len =< MaxSlot /\ c.last_slot \in Nat
    BY <1>2, <2>1, CaptainFields, LenProperties DEF LogReady, Logs
  <2>3. ChosenIn(log, last) \in Value \cup {Null}
    BY <2>2, ChosenInOK
  <2>4. ASSUME TellsLast(c) PROVE told \in 1 .. len
    BY <2>1, <2>2, <2>4, ChosenInOK DEF TellsLast
  <2> QED
    BY <2>1, <2>2, <2>3, <2>4, MaxSlotNat
<1>5. /\ e \in Captains /\ e.max_slot = s /\ e.proposers = c.proposers
      /\ e.chosen_values = c.chosen_values
      /\ e.max_chosen_without_hole = c.max_chosen_without_hole
      /\ e.tocommit_values = c.tocommit_values
  <2>1. s \in 0 .. MaxSlot
    BY <1>1, MaxSlotNat
  <2>2. TellsLast(c) => told \in 0 .. MaxSlot
    BY <1>4, MaxSlotNat
  <2> HIDE DEF s
  <2> QED
    BY <1>2, <2>1, <2>2 DEF Captains
<1>6. m \in Requests
  <2>1. last \in {0} \cup Slot
    BY <1>4
  <2> HIDE DEF last, s, p
  <2> QED
    BY <1>1, <1>3, <1>4, <2>1 DEF AcceptMsg, Requests
<1> HIDE DEF e, m, p
<1>7. RequestsOK'
  BY <1>1, <1>6, BroadcastOK
<1>8. /\ d \in Captains
      /\ \A t \in Slot \ {s} : d.proposers[t] = c.proposers[t]
      /\ d.proposers[s].status = "PHASEII"
      /\ d.proposers[s].init_value = v
      /\ d.proposers[s].curr_value = v
      /\ d.max_slot = s
      /\ d.chosen_values = c.chosen_values
      /\ d.max_chosen_without_hole = c.max_chosen_without_hole
      /\ d.tocommit_values = c.tocommit_values
  <2> HIDE DEF s
  <2>1. /\ d \in Captains
        /\ \A t \in Slot \ {s} : d.proposers[t] = e.proposers[t]
        /\ d.proposers[s].status = p.status
        /\ d.proposers[s].init_value = p.init_value
        /\ d.proposers[s].curr_value = p.curr_value
        /\ d.max_slot = e.max_slot
        /\ d.chosen_values = e.chosen_values
        /\ d.max_chosen_without_hole = e.max_chosen_without_hole
        /\ d.tocommit_values = e.tocommit_values
    BY <1>1, <1>3, <1>5, WithAcceptOK
  <2> HIDE DEF d
  <2> QED
    BY <1>3, <1>5, <2>1
<1> HIDE DEF d
<1>9. LogReady(d)
  BY <1>2, <1>8 DEF LogReady
<1>10. PICK q : q = d.proposers[s]
  OBVIOUS
<1>11. ProposerReady(q) /\ q.status # "EMPTY" /\ Working(q)
  BY <1>8, <1>10 DEF ProposerReady, Working
<1>12. \A t \in Slot : d.proposers[t] = IF t = s THEN q ELSE c.proposers[t]
  BY <1>8, <1>10
<1>13. Ready(d) /\ Opened(c, d, v)
  <2>1. Ready(d) /\ Opened(c, d, q.init_value)
    BY <1>1, <1>8, <1>9, <1>11, <1>12, ProposerReplaced
  <2> QED
    BY <1>8, <1>10, <2>1
<1> QED
  BY <1>1, <1>7, <1>8, <1>13 DEF Becomes
(* A value that lost its slot *)
LEMMA RecommitOK ==
  ASSUME NEW n \in Node, NEW c, Ready(c), NEW v \in Value, Recommit(n, c, v),
         RequestsOK
  PROVE  /\ RequestsOK'
         /\ \E d : /\ Becomes(n, d) /\ Opened(c, d, v)
                   /\ d.tocommit_values = c.tocommit_values
<1> DEFINE s == c.max_slot + 1
           p == Restarted(NewProposer(v), n)
           e == [c EXCEPT !.max_slot = s]
           d == WithPrepare(e, n, s, p)
           m == PrepareMsg(s, p.curr_ballot)
<1>1. /\ s \in Slot /\ captains' = [captains EXCEPT ![n] = d]
      /\ Broadcast(n, m)
  BY DEF Recommit
<1>2. c \in Captains /\ LogReady(c)
  BY DEF Ready
<1>3. /\ p \in Proposers /\ p.status = "PHASEI" /\ p.init_value = v
      /\ p.curr_ballot \in Nat
  <2>1. PICK r : r = NewProposer(v)
    OBVIOUS
  <2>2. r \in Proposers /\ r.init_value = v
    BY <2>1, NewProposerOK
  <2>3. /\ Restarted(r, n) \in Proposers /\ Restarted(r, n).status = "PHASEI"
        /\ Restarted(r, n).init_value = v
    BY <2>2, RestartedOK
  <2> QED
    BY <2>1, <2>3 DEF Proposers
<1>4. /\ e \in Captains /\ e.max_slot = s /\ e.proposers = c.proposers
      /\ e.chosen_values = c.chosen_values
      /\ e.max_chosen_without_hole = c.max_chosen_without_hole
      /\ e.tocommit_values = c.tocommit_values
  <2>1. s \in 0 .. MaxSlot
    BY <1>1, MaxSlotNat
  <2> HIDE DEF s
  <2> QED
    BY <1>2, <2>1 DEF Captains
<1>5. m \in Requests
  <2> HIDE DEF s, p
  <2> QED
    BY <1>1, <1>3 DEF PrepareMsg, Requests
<1> HIDE DEF e, m, p
<1>6. RequestsOK'
  BY <1>1, <1>5, BroadcastOK
<1>7. /\ d \in Captains
      /\ \A t \in Slot \ {s} : d.proposers[t] = c.proposers[t]
      /\ d.proposers[s].status = "PHASEI"
      /\ d.proposers[s].init_value = v
      /\ d.max_slot = s
      /\ d.chosen_values = c.chosen_values
      /\ d.max_chosen_without_hole = c.max_chosen_without_hole
      /\ d.tocommit_values = c.tocommit_values
  <2> HIDE DEF s
  <2>1. /\ d \in Captains
        /\ \A t \in Slot \ {s} : d.proposers[t] = e.proposers[t]
        /\ d.proposers[s].status = p.status
        /\ d.proposers[s].init_value = p.init_value
        /\ d.max_slot = e.max_slot
        /\ d.chosen_values = e.chosen_values
        /\ d.max_chosen_without_hole = e.max_chosen_without_hole
        /\ d.tocommit_values = e.tocommit_values
    BY <1>1, <1>3, <1>4, WithPrepareOK
  <2> HIDE DEF d
  <2> QED
    BY <1>3, <1>4, <2>1
<1> HIDE DEF d
<1>8. LogReady(d)
  BY <1>2, <1>7 DEF LogReady
<1>9. PICK q : q = d.proposers[s]
  OBVIOUS
<1>10. ProposerReady(q) /\ q.status # "EMPTY" /\ Working(q)
  BY <1>7, <1>9 DEF ProposerReady, Working
<1>11. \A t \in Slot : d.proposers[t] = IF t = s THEN q ELSE c.proposers[t]
  BY <1>7, <1>9
<1>12. Ready(d) /\ Opened(c, d, v)
  <2>1. Ready(d) /\ Opened(c, d, q.init_value)
    BY <1>1, <1>7, <1>8, <1>10, <1>11, ProposerReplaced
  <2> QED
    BY <1>7, <1>9, <2>1
<1> QED
  BY <1>1, <1>6, <1>7, <1>12 DEF Becomes

(* The next attempt for the same value in the same slot *)
LEMMA RestartOK ==
  ASSUME NEW n \in Node, NEW c, Ready(c), NEW s \in Active(c),
         NEW p \in Proposers, p.init_value = c.proposers[s].init_value,
         Restart(n, c, s, p), RequestsOK
  PROVE  /\ RequestsOK'
         /\ \E d : Becomes(n, d) /\ SameWork(c, d)
<1> DEFINE r == Restarted(p, n)
           d == WithPrepare(c, n, s, r)
           m == PrepareMsg(s, r.curr_ballot)
<1>1. captains' = [captains EXCEPT ![n] = d] /\ Broadcast(n, m)
  BY DEF Restart
<1>2. /\ c \in Captains /\ LogReady(c) /\ s \in Slot
      /\ c.proposers[s].status # "EMPTY" /\ ProposerReady(c.proposers[s])
  BY DEF Ready, Active
<1>3. /\ r \in Proposers /\ r.status = "PHASEI"
      /\ r.init_value = p.init_value /\ r.curr_ballot \in Nat
  <2>1. /\ r \in Proposers /\ r.status = "PHASEI"
        /\ r.init_value = p.init_value
    BY RestartedOK
  <2> HIDE DEF r
  <2> QED
    BY <2>1 DEF Proposers
<1>4. m \in Requests
  <2> HIDE DEF r
  <2> QED
    BY <1>2, <1>3 DEF PrepareMsg, Requests
<1> HIDE DEF m, r
<1>5. RequestsOK'
  BY <1>1, <1>4, BroadcastOK
<1>6. /\ d \in Captains
      /\ \A t \in Slot \ {s} : d.proposers[t] = c.proposers[t]
      /\ d.proposers[s].status = "PHASEI"
      /\ d.proposers[s].init_value = p.init_value
      /\ d.max_slot = c.max_slot
      /\ d.chosen_values = c.chosen_values
      /\ d.max_chosen_without_hole = c.max_chosen_without_hole
      /\ d.tocommit_values = c.tocommit_values
  <2>1. /\ d \in Captains
        /\ \A t \in Slot \ {s} : d.proposers[t] = c.proposers[t]
        /\ d.proposers[s].status = r.status
        /\ d.proposers[s].init_value = r.init_value
        /\ d.max_slot = c.max_slot
        /\ d.chosen_values = c.chosen_values
        /\ d.max_chosen_without_hole = c.max_chosen_without_hole
        /\ d.tocommit_values = c.tocommit_values
    BY <1>2, <1>3, WithPrepareOK
  <2> HIDE DEF d
  <2> QED
    BY <1>3, <2>1
<1> HIDE DEF d
<1>7. LogReady(d)
  BY <1>2, <1>6 DEF LogReady
<1>8. PICK q : q = d.proposers[s]
  OBVIOUS
<1>9. /\ ProposerReady(q) /\ q.status # "EMPTY" /\ Working(q)
      /\ q.init_value = c.proposers[s].init_value
  BY <1>2, <1>6, <1>8 DEF ProposerReady, Working
<1>10. \A t \in Slot : d.proposers[t] = IF t = s THEN q ELSE c.proposers[t]
  BY <1>6, <1>8
<1>11. Ready(d) /\ SameWork(c, d)
  BY <1>2, <1>6, <1>7, <1>9, <1>10, ProposerReplaced
<1> QED
  BY <1>1, <1>5, <1>11 DEF Becomes
-----------------------------------------------------------------------------
(* The types, with what makes the captains ready *)

HistoryOK == submitted \in [Node -> Seq(Value)] /\ answered \in Seq(Value)

TypeInv == /\ captains \in [Node -> Captains]
           /\ \A n \in Node : Ready(captains[n])
           /\ RequestsOK /\ RepliesOK /\ HistoryOK

(* What a step does to the work of node n, and what it tells clients:      *)
(* nothing, ...                                                            *)
Works(n) == \E d :
  /\ Becomes(n, d) /\ SameWork(captains[n], d)
  /\ UNCHANGED <<submitted, answered>>

(* ... it takes the value v from a client, ...                             *)
Takes(n, v) == \E d :
  LET c     == captains[n]
      queue == Append(c.tocommit_values, v)
  IN  /\ n \in Committer /\ Becomes(n, d) /\ IsNew(v)
      /\ submitted' = [submitted EXCEPT ![n] = Append(@, v)]
      /\ UNCHANGED answered
      /\ \/ /\ Cardinality(Active(c)) = WindowSize
            /\ Active(d) = Active(c) /\ SameValues(c, d, Active(c))
            /\ d.tocommit_values = queue
         \/ /\ Cardinality(Active(c)) < WindowSize
            /\ Opened(c, d, Head(queue))
            /\ d.tocommit_values = Tail(queue)

(* ... or it is done with slot s, whose proposer e no longer has.          *)
Finishes(n, s) == \E d, e :
  LET c     == captains[n]
      queue == c.tocommit_values
      v     == c.proposers[s].init_value
  IN  /\ Becomes(n, d) /\ Ended(c, e, s)
      /\ UNCHANGED submitted
      /\ \/ /\ answered' = Append(answered, v)
            /\ queue = <<>> /\ d.tocommit_values = <<>> /\ d = e
         \/ /\ answered' = Append(answered, v)
            /\ queue # <<>> /\ d.tocommit_values = Tail(queue)
            /\ Opened(e, d, Head(queue))
         \/ /\ UNCHANGED answered
            /\ d.tocommit_values = queue /\ Opened(e, d, v)

LEMMA SameWorkOfSelf == \A c : SameWork(c, c)
BY DEF SameWork, SameValues

LEMMA StaysReady ==
  ASSUME NEW n \in Node, TypeInv, UNCHANGED captains
  PROVE  Becomes(n, captains[n])
BY DEF TypeInv, Becomes

(* A captain that only has another acceptor *)
LEMMA AcceptorReplaced ==
  ASSUME NEW c, Ready(c), NEW s \in Slot, NEW r \in Acceptors,
         NEW d, d = [c EXCEPT !.acceptors[s] = r]
  PROVE  /\ d \in Captains /\ Ready(d) /\ LogReady(d) /\ SameWork(c, d)
         /\ d.acceptors = [c.acceptors EXCEPT ![s] = r]
         /\ d.proposers = c.proposers
         /\ d.max_slot = c.max_slot
         /\ d.last_slot = c.last_slot
         /\ d.chosen_values = c.chosen_values
         /\ d.max_chosen_without_hole = c.max_chosen_without_hole
         /\ d.tocommit_values = c.tocommit_values
<1>1. c \in Captains /\ LogReady(c)
  BY DEF Ready
<1>2. [c.acceptors EXCEPT ![s] = r] \in [Slot -> Acceptors]
  BY <1>1, CaptainFields
<1>3. d \in Captains
  BY <1>1, <1>2 DEF Captains
<1>4. /\ d.acceptors = [c.acceptors EXCEPT ![s] = r]
      /\ d.proposers = c.proposers
      /\ d.max_slot = c.max_slot
      /\ d.last_slot = c.last_slot
      /\ d.chosen_values = c.chosen_values
      /\ d.max_chosen_without_hole = c.max_chosen_without_hole
      /\ d.tocommit_values = c.tocommit_values
  BY <1>1 DEF Captains
<1>5. LogReady(d)
  BY <1>1, <1>4 DEF LogReady
<1> QED
  BY <1>3, <1>4, <1>5, ProposersKept

WithProposer(c, s, q) == [c EXCEPT !.proposers[s] = q]

(* A captain that only has another proposer, in a slot it works on *)
LEMMA ProposerKept ==
  ASSUME NEW c, Ready(c), NEW s \in Active(c), NEW q \in Proposers,
         ProposerReady(q), q.status # "EMPTY",
         NEW d, d = WithProposer(c, s, q)
  PROVE  /\ d \in Captains /\ Ready(d) /\ LogReady(d)
         /\ d.proposers = [c.proposers EXCEPT ![s] = q]
         /\ d.acceptors = c.acceptors
         /\ d.max_slot = c.max_slot
         /\ d.last_slot = c.last_slot
         /\ d.chosen_values = c.chosen_values
         /\ d.max_chosen_without_hole = c.max_chosen_without_hole
         /\ d.tocommit_values = c.tocommit_values
<1>1. /\ c \in Captains /\ LogReady(c) /\ s \in Slot
      /\ c.proposers[s].status # "EMPTY"
  BY DEF Ready, Active
<1>2. [c.proposers EXCEPT ![s] = q] \in [Slot -> Proposers]
  BY <1>1, CaptainFields
<1>3. d \in Captains
  BY <1>1, <1>2 DEF Captains, WithProposer
<1>4. /\ d.acceptors = c.acceptors
      /\ d.proposers = [c.proposers EXCEPT ![s] = q]
      /\ d.max_slot = c.max_slot
      /\ d.last_slot = c.last_slot
      /\ d.chosen_values = c.chosen_values
      /\ d.max_chosen_without_hole = c.max_chosen_without_hole
      /\ d.tocommit_values = c.tocommit_values
  BY <1>1 DEF Captains, WithProposer
<1>5. \A t \in Slot : d.proposers[t] = IF t = s THEN q ELSE c.proposers[t]
  BY <1>1, <1>4, CaptainFields
<1>6. LogReady(d)
  BY <1>1, <1>4 DEF LogReady
<1>7. Ready(d)
  BY <1>1, <1>3, <1>4, <1>5, <1>6, ProposerReplaced
<1> QED
  BY <1>3, <1>4, <1>6, <1>7

(* The proposer is still at work for the same value, or it is not. *)
LEMMA ProposerWorks ==
  ASSUME NEW c, Ready(c), NEW s \in Active(c), NEW q \in Proposers,
         ProposerReady(q), q.status # "EMPTY"
  PROVE  /\ Working(q) /\ q.init_value = c.proposers[s].init_value
              => SameWork(c, WithProposer(c, s, q))
         /\ ~Working(q) => Ended(c, WithProposer(c, s, q), s)
<1>1. PICK d : d = WithProposer(c, s, q)
  OBVIOUS
<1>2. /\ d \in Captains /\ LogReady(d)
      /\ d.proposers = [c.proposers EXCEPT ![s] = q]
      /\ d.tocommit_values = c.tocommit_values
  BY <1>1, ProposerKept
<1>3. /\ c \in Captains /\ LogReady(c) /\ s \in Slot
      /\ c.proposers[s].status # "EMPTY"
  BY DEF Ready, Active
<1>4. \A t \in Slot : d.proposers[t] = IF t = s THEN q ELSE c.proposers[t]
  BY <1>2, <1>3, CaptainFields
<1>5. Working(q) /\ q.init_value = c.proposers[s].init_value => SameWork(c, d)
  BY <1>2, <1>3, <1>4, ProposerReplaced
<1>6. ~Working(q) => Ended(c, d, s)
  BY <1>2, <1>3, <1>4, ProposerReplaced
<1> QED
  BY <1>1, <1>5, <1>6

(* A captain with another queue *)
WithQueue(c, q) == [c EXCEPT !.tocommit_values = q]

LEMMA QueueReplaced ==
  ASSUME NEW c, Ready(c), NEW q \in Seq(Value),
         NEW d, d = WithQueue(c, q)
  PROVE  /\ Ready(d) /\ Active(d) = Active(c)
         /\ d.proposers = c.proposers
         /\ d.tocommit_values = q
<1>1. c \in Captains /\ LogReady(c)
  BY DEF Ready
<1>2. /\ d \in Captains
      /\ d.proposers = c.proposers
      /\ d.max_slot = c.max_slot
      /\ d.chosen_values = c.chosen_values
      /\ d.max_chosen_without_hole = c.max_chosen_without_hole
      /\ d.tocommit_values = q
  BY <1>1 DEF Captains, WithQueue
<1>3. LogReady(d)
  BY <1>1, <1>2 DEF LogReady
<1> QED
  BY <1>2, <1>3, ProposersKept

(* What Open and Opened say does not depend on the queue. *)
LEMMA OpenedFrom ==
  ASSUME NEW c, NEW d, NEW e, NEW v, Active(c) = Active(d),
         c.proposers = d.proposers, Opened(c, e, v)
  PROVE  Opened(d, e, v)
BY DEF Opened, SameValues

(* Captain::commit *)
LEMMA CommitTakes ==
  ASSUME NEW n \in Node, NEW v \in Value, TypeInv, Commit(n, v)
  PROVE  RequestsOK' /\ RepliesOK' /\ Takes(n, v)
<1> DEFINE c == captains[n]
           size == Cardinality(Active(c))
<1>1. PICK queue : queue = Append(c.tocommit_values, v)
  OBVIOUS
<1>2. c \in Captains /\ Ready(c) /\ c.tocommit_values \in Seq(Value)
  BY CaptainFields DEF TypeInv
<1>3. /\ queue \in Seq(Value) /\ queue # <<>>
      /\ Head(queue) \in Value /\ Tail(queue) \in Seq(Value)
  BY <1>1, <1>2, AppendProperties, HeadTailProperties
<1>4. /\ n \in Committer /\ IsNew(v) /\ UNCHANGED answered
      /\ submitted' = [submitted EXCEPT ![n] = Append(@, v)]
  BY DEF Commit
<1>5. RepliesOK'
  BY DEF Commit, TypeInv, RepliesOK
<1>6. CASE size = WindowSize /\ Become(n, [c EXCEPT !.tocommit_values = queue])
  <2>1. PICK d : d = WithQueue(c, queue)
    OBVIOUS
  <2>2. captains' = [captains EXCEPT ![n] = d] /\ UNCHANGED requests
    BY <1>6, <2>1 DEF Become, WithQueue
  <2>3. /\ Ready(d) /\ Active(d) = Active(c) /\ SameValues(c, d, Active(c))
        /\ d.tocommit_values = queue
    BY <1>2, <1>3, <2>1, QueueReplaced DEF SameValues
  <2>4. RequestsOK'
    BY <2>2 DEF TypeInv, RequestsOK
  <2> QED
    BY <1>1, <1>4, <1>5, <1>6, <2>2, <2>3, <2>4 DEF Takes, Becomes
<1>7. CASE /\ size < WindowSize
           /\ Open(n, [c EXCEPT !.tocommit_values = Tail(queue)], Head(queue))
  <2>1. PICK e, h, t : /\ t = Tail(queue) /\ h = Head(queue)
                       /\ e = WithQueue(c, t)
    OBVIOUS
  <2>2. /\ Ready(e) /\ Active(e) = Active(c) /\ e.proposers = c.proposers
        /\ e.tocommit_values = t
    <3>1. t \in Seq(Value) /\ e = WithQueue(c, t) /\ Ready(c)
      BY <1>2, <1>3, <2>1
    <3> HIDE DEF c
    <3> QED
      BY <3>1, QueueReplaced
  <2>3. Open(n, e, h) /\ h \in Value /\ RequestsOK
    BY <1>3, <1>7, <2>1 DEF TypeInv, WithQueue
  <2>4. RequestsOK'
    BY <2>2, <2>3, OpenOK
  <2>5. PICK d : /\ Becomes(n, d) /\ Opened(e, d, h)
                 /\ d.tocommit_values = e.tocommit_values
    BY <2>2, <2>3, OpenOK
  <2>6. Opened(c, d, h)
    BY <2>2, <2>5, OpenedFrom
  <2> QED
    BY <1>1, <1>4, <1>5, <1>7, <2>1, <2>2, <2>4, <2>5, <2>6 DEF Takes
<1> QED
  BY <1>1, <1>6, <1>7 DEF Commit
(* Captain::re_handle_msg: the acceptor of node a answers. *)
LEMMA HandlePrepareWorks ==
  ASSUME NEW n \in Node, NEW a \in Node, NEW m \in First(requests[n][a]),
         TypeInv, HandlePrepare(n, a, m)
  PROVE  RequestsOK' /\ RepliesOK' /\ Works(a)
<1> DEFINE c == captains[a]
           acc == c.acceptors[m.slot]
           r == AfterPrepare(acc, m.ballot)
           answer == PromiseMsg(m.slot, m.ballot, PromiseOf(acc, m.ballot))
<1>1. requests[n][a] # <<>> /\ m \in Requests
  BY FirstOK DEF TypeInv, RequestsOK
<1>2. m.slot \in Slot /\ m.ballot \in Nat
  BY <1>1 DEF Requests
<1>3. c \in Captains /\ Ready(c) /\ acc \in Acceptors
  BY <1>2, CaptainFields DEF TypeInv
<1>4. r \in Acceptors /\ answer \in Answers
  <2> HIDE DEF acc
  <2>1. r \in Acceptors /\ PromiseOf(acc, m.ballot) \in Promises
    BY <1>2, <1>3, AfterPrepareOK, PromiseOfOK
  <2> QED
    BY <1>2, <2>1 DEF PromiseMsg, Answers
<1>5. PICK d : d = [c EXCEPT !.acceptors[m.slot] = r]
  OBVIOUS
<1>6. captains' = [captains EXCEPT ![a] = d]
  BY <1>5 DEF HandlePrepare
<1>7. /\ requests' = [requests EXCEPT ![n][a] = Tail(@)]
      /\ UNCHANGED <<submitted, answered>> /\ Reply(a, n, answer)
  BY DEF HandlePrepare, TakeRequest
<1>8. RequestsOK'
  BY <1>1, <1>7, RequestTakenOK DEF TypeInv
<1> HIDE DEF c, r, answer
<1>9. RepliesOK'
  BY <1>4, <1>7, ReplyOK DEF TypeInv
<1>10. Ready(d) /\ SameWork(c, d)
  BY <1>2, <1>3, <1>4, <1>5, AcceptorReplaced
<1> QED
  BY <1>6, <1>7, <1>8, <1>9, <1>10 DEF Works, Becomes, c

LEMMA HandleAcceptWorks ==
  ASSUME NEW n \in Node, NEW a \in Node, NEW m \in First(requests[n][a]),
         TypeInv, HandleAccept(n, a, m)
  PROVE  RequestsOK' /\ RepliesOK' /\ Works(a)
<1> DEFINE c == captains[a]
           acc == c.acceptors[m.slot]
           r == AfterAccept(acc, m.ballot, m.value)
           d == [c EXCEPT !.acceptors[m.slot] = r]
           answer == AcceptedMsg(m.slot, m.ballot, AcceptedReply(acc, m.ballot))
<1>1. requests[n][a] # <<>> /\ m \in Requests /\ m.type = "ACCEPT"
  BY FirstOK DEF TypeInv, RequestsOK, HandleAccept
<1>2. /\ m.slot \in Slot /\ m.ballot \in Nat /\ m.value \in Value
      /\ m.last_slot \in {0} \cup Slot
  BY <1>1 DEF Requests
<1>3. c \in Captains /\ Ready(c) /\ acc \in Acceptors
  BY <1>2, CaptainFields DEF TypeInv
<1>4. r \in Acceptors /\ answer \in Answers
  <2> HIDE DEF acc
  <2>1. r \in Acceptors /\ AcceptedReply(acc, m.ballot) \in Replies
    BY <1>2, <1>3, AfterAcceptOK DEF AcceptedReply, Replies
  <2> QED
    BY <1>2, <2>1 DEF AcceptedMsg, Answers
<1>5. /\ requests' = [requests EXCEPT ![n][a] = Tail(@)]
      /\ UNCHANGED <<submitted, answered>>
  BY DEF HandleAccept, TakeRequest
<1>6. RequestsOK'
  BY <1>1, <1>5, RequestTakenOK DEF TypeInv
<1>7. PICK e : e = d
  OBVIOUS
<1>8. /\ Ready(e) /\ SameWork(c, e) /\ e \in Captains /\ LogReady(e)
      /\ Active(e) = Active(c)
  <2> HIDE DEF c, r
  <2>1. Ready(c) /\ m.slot \in Slot /\ r \in Acceptors
    BY <1>2, <1>3, <1>4
  <2>2. e = [c EXCEPT !.acceptors[m.slot] = r]
    BY <1>7
  <2>3. Ready(e) /\ SameWork(c, e) /\ e \in Captains /\ LogReady(e)
    BY <2>1, <2>2, AcceptorReplaced
  <2> QED
    BY <2>3 DEF SameWork
<1>9. \/ captains' = [captains EXCEPT ![a] = e] /\ UNCHANGED replies
      \/ /\ captains' = [captains EXCEPT ![a] = e]
         /\ Reply(a, n, answer)
      \/ /\ Learns(e, m) /\ Reply(a, n, answer)
         /\ captains' = [captains EXCEPT ![a] =
              WithChosen(e, m.last_slot, e.acceptors[m.last_slot].max_value)]
  BY <1>7 DEF HandleAccept
<1> HIDE DEF answer, d, c
<1>10. RepliesOK'
  <2>1. CASE UNCHANGED replies
    BY <2>1 DEF TypeInv, RepliesOK
  <2>2. CASE Reply(a, n, answer)
    BY <1>4, <2>2, ReplyOK DEF TypeInv
  <2> QED
    BY <1>9, <2>1, <2>2
<1>11. CASE captains' = [captains EXCEPT ![a] = e]
  BY <1>5, <1>6, <1>8, <1>10, <1>11 DEF Works, Becomes, c
<1>12. CASE /\ Learns(e, m)
            /\ captains' = [captains EXCEPT ![a] =
                 WithChosen(e, m.last_slot, e.acceptors[m.last_slot].max_value)]
  <2>1. PICK s, v, f : /\ s = m.last_slot /\ v = e.acceptors[s].max_value
                       /\ f = WithChosen(e, s, v)
    OBVIOUS
  <2>2. s \in Slot
    BY <1>2, <1>12, <2>1 DEF Learns
  <2>3. v \in Value \cup {Null}
    BY <1>8, <2>1, <2>2, CaptainFields DEF Acceptors
  <2>4. /\ f \in Captains /\ LogReady(f) /\ f.proposers = e.proposers
        /\ f.max_slot = e.max_slot /\ f.tocommit_values = e.tocommit_values
    BY <1>8, <2>1, <2>2, <2>3, WithChosenOK
  <2>5. Ready(f) /\ SameWork(e, f)
    BY <1>8, <2>4, ProposersKept
  <2>6. SameWork(c, f)
    BY <1>8, <2>5 DEF SameWork, SameValues
  <2>7. captains' = [captains EXCEPT ![a] = f]
    BY <1>12, <2>1
  <2> QED
    BY <1>5, <1>6, <1>10, <2>5, <2>6, <2>7 DEF Works, Becomes, c
<1> QED
  BY <1>9, <1>11, <1>12

(* An answer that is dropped *)
LEMMA DropWorks ==
  ASSUME NEW a \in Node, NEW n \in Node, NEW m \in First(replies[a][n]),
         TypeInv, DropPromise(a, n, m) \/ DropAccepted(a, n, m)
  PROVE  RequestsOK' /\ RepliesOK' /\ Works(n)
<1>1. /\ replies' = [replies EXCEPT ![a][n] = Tail(@)]
      /\ UNCHANGED <<captains, requests, submitted, answered>>
  BY DEF DropPromise, DropAccepted, TakeReply
<1>2. replies[a][n] # <<>>
  BY FirstOK DEF TypeInv, RepliesOK
<1>3. RequestsOK' /\ RepliesOK'
  BY <1>1, <1>2, ReplyTakenOK DEF TypeInv, RequestsOK
<1> QED
  BY <1>1, <1>3, StaysReady, SameWorkOfSelf DEF Works

(* A message that never arrives *)
LEMMA LoseWorks ==
  ASSUME NEW n \in Node, NEW a \in Node, TypeInv,
         LoseRequest(n, a) \/ LoseReply(a, n)
  PROVE  RequestsOK' /\ RepliesOK' /\ Works(n)
<1>1. UNCHANGED <<captains, submitted, answered>>
  BY DEF LoseRequest, LoseReply
<1>2. CASE LoseRequest(n, a)
  <2>1. RequestsOK'
    BY <1>2, RequestTakenOK DEF LoseRequest, TypeInv
  <2>2. RepliesOK'
    BY <1>2 DEF LoseRequest, TypeInv, RepliesOK
  <2> QED
    BY <1>1, <2>1, <2>2, StaysReady, SameWorkOfSelf DEF Works
<1>3. CASE LoseReply(a, n)
  <2>1. RepliesOK'
    BY <1>3, ReplyTakenOK DEF LoseReply, TypeInv
  <2>2. RequestsOK'
    BY <1>3 DEF LoseReply, TypeInv, RequestsOK
  <2> QED
    BY <1>1, <2>1, <2>2, StaysReady, SameWorkOfSelf DEF Works
<1> QED
  BY <1>2, <1>3

(* Captain::handle_msg, a promise *)
LEMMA HandlePromiseWorks ==
  ASSUME NEW a \in Node, NEW n \in Node, NEW m \in First(replies[a][n]),
         TypeInv, HandlePromise(a, n, m)
  PROVE  RequestsOK' /\ RepliesOK' /\ Works(n)
<1> DEFINE c == captains[n]
           old == c.proposers[m.slot]
<1>1. replies[a][n] # <<>> /\ m \in Answers /\ m.type = "PROMISE"
  BY FirstOK DEF TypeInv, RepliesOK, HandlePromise
<1>2. PICK s, p, q, r :
        /\ s = m.slot /\ p = WithPromise(old, a, m.ack)
        /\ q = MergePromises(p) /\ r = InPhaseII(q)
  OBVIOUS
<1>3. m.slot \in Slot /\ s \in Slot /\ m.ack \in Promises
  BY <1>1, <1>2 DEF Answers
<1>4. /\ c \in Captains /\ Ready(c) /\ old \in Proposers
      /\ old = c.proposers[s] /\ ProposerReady(old)
  <2>1. c \in Captains /\ Ready(c)
    BY DEF TypeInv
  <2> HIDE DEF c
  <2> QED
    BY <1>2, <1>3, <2>1, CaptainFields DEF Ready
<1>5. old.status = "PHASEI" /\ s \in Active(c) /\ old.init_value \in Value
  <2>1. old.status = "PHASEI"
    BY DEF HandlePromise, TakesPromise
  <2> QED
    BY <1>2, <1>3, <1>4, <2>1 DEF Active, ProposerReady
<1>6. /\ replies' = [replies EXCEPT ![a][n] = Tail(@)]
      /\ UNCHANGED <<submitted, answered>>
  BY DEF HandlePromise, TakeReply
<1>7. \/ Become(n, [c EXCEPT !.proposers[s] = p])
      \/ /\ captains' = [captains EXCEPT ![n] = WithAccept(c, n, s, r)]
         /\ Broadcast(n, AcceptMsg(s, r.curr_ballot, r.curr_value, 0, Null))
      \/ Restart(n, c, s, q)
  BY <1>2 DEF HandlePromise
<1> HIDE DEF c, old
<1>8. /\ p \in Proposers /\ p.status = "PHASEI"
      /\ p.init_value = old.init_value
  <2>1. PICK ack : ack = m.ack
    OBVIOUS
  <2>2. p = WithPromise(old, a, ack) /\ old \in Proposers /\ ack \in Promises
    BY <1>2, <1>3, <1>4, <2>1
  <2>3. /\ p \in Proposers /\ p.status = old.status
        /\ p.init_value = old.init_value
    BY <2>2, WithPromiseOK
  <2> QED
    BY <1>5, <2>3
<1>9. q \in Proposers /\ q.init_value = old.init_value
  BY <1>2, <1>8, MergePromisesOK DEF IsMergeOf
<1>10. /\ r \in Proposers /\ r.status = "PHASEII"
       /\ r.init_value = old.init_value /\ r.curr_value \in Value
       /\ r.curr_ballot \in Nat
  <2>1. /\ r \in Proposers /\ r.status = "PHASEII"
        /\ r.init_value = q.init_value
        /\ r.curr_value = IF q.max_value # Null THEN q.max_value ELSE q.init_value
    BY <1>2, <1>9, InPhaseIIOK
  <2>2. q.max_value \in Value \cup {Null} /\ r.curr_ballot \in Nat
    BY <1>9, <2>1 DEF Proposers
  <2> QED
    BY <1>5, <1>9, <2>1, <2>2
<1>11. RepliesOK'
  BY <1>1, <1>6, ReplyTakenOK DEF TypeInv
<1>12. CASE Become(n, [c EXCEPT !.proposers[s] = p])
  <2>1. PICK d : d = WithProposer(c, s, p)
    OBVIOUS
  <2>2. ProposerReady(p) /\ p.status # "EMPTY" /\ Working(p)
    BY <1>5, <1>8 DEF ProposerReady, Working
  <2>3. p.init_value = c.proposers[s].init_value /\ Ready(c) /\ p \in Proposers
    BY <1>4, <1>8
  <2>4. Ready(d)
    BY <1>5, <2>1, <2>2, <2>3, ProposerKept
  <2>5. SameWork(c, d)
    BY <1>5, <2>1, <2>2, <2>3, ProposerWorks
  <2>6. captains' = [captains EXCEPT ![n] = d] /\ RequestsOK'
    BY <1>12, <2>1 DEF Become, WithProposer, TypeInv, RequestsOK
  <2> QED
    BY <1>6, <1>11, <2>4, <2>5, <2>6 DEF Works, Becomes, c
<1>13. CASE /\ captains' = [captains EXCEPT ![n] = WithAccept(c, n, s, r)]
            /\ Broadcast(n, AcceptMsg(s, r.curr_ballot, r.curr_value, 0, Null))
  <2>1. PICK d, msg : /\ d = WithAccept(c, n, s, r)
                      /\ msg = AcceptMsg(s, r.curr_ballot, r.curr_value, 0, Null)
    OBVIOUS
  <2>2. msg \in Requests
    BY <1>3, <1>10, <2>1 DEF AcceptMsg, Requests
  <2>3. RequestsOK'
    BY <1>13, <2>1, <2>2, BroadcastOK DEF TypeInv
  <2>4. /\ d \in Captains
        /\ \A t \in Slot \ {s} : d.proposers[t] = c.proposers[t]
        /\ d.proposers[s].status = r.status
        /\ d.proposers[s].init_value = r.init_value
        /\ d.proposers[s].curr_value = r.curr_value
        /\ d.max_slot = c.max_slot
        /\ d.chosen_values = c.chosen_values
        /\ d.max_chosen_without_hole = c.max_chosen_without_hole
        /\ d.tocommit_values = c.tocommit_values
    <3>1. /\ c \in Captains /\ s \in Slot /\ r \in Proposers
          /\ r.curr_value \in Value /\ d = WithAccept(c, n, s, r)
      BY <1>3, <1>4, <1>10, <2>1
    <3>2. /\ d \in Captains
          /\ \A t \in Slot \ {s} : d.proposers[t] = c.proposers[t]
      BY <3>1, WithAcceptOK
    <3>3. /\ d.proposers[s].status = r.status
          /\ d.proposers[s].init_value = r.init_value
          /\ d.proposers[s].curr_value = r.curr_value
      BY <3>1, WithAcceptOK
    <3>4. /\ d.max_slot = c.max_slot
          /\ d.chosen_values = c.chosen_values
          /\ d.max_chosen_without_hole = c.max_chosen_without_hole
          /\ d.tocommit_values = c.tocommit_values
      BY <3>1, WithAcceptOK
    <3> QED
      BY <3>2, <3>3, <3>4
  <2>5. PICK x : x = d.proposers[s]
    OBVIOUS
  <2>6. /\ ProposerReady(x) /\ x.status # "EMPTY" /\ Working(x)
        /\ x.init_value = c.proposers[s].init_value
    BY <1>4, <1>5, <1>10, <2>4, <2>5 DEF ProposerReady, Working
  <2>7. \A t \in Slot : d.proposers[t] = IF t = s THEN x ELSE c.proposers[t]
    BY <2>4, <2>5
  <2>8. LogReady(d)
    BY <1>4, <2>4 DEF Ready, LogReady
  <2>9. Ready(d) /\ SameWork(c, d)
    BY <1>3, <1>4, <1>5, <2>4, <2>6, <2>7, <2>8, ProposerReplaced
  <2> QED
    BY <1>6, <1>11, <1>13, <2>1, <2>3, <2>9 DEF Works, Becomes, c
<1>14. CASE Restart(n, c, s, q)
  <2>1. RequestsOK' /\ \E d : Becomes(n, d) /\ SameWork(c, d)
    BY <1>4, <1>5, <1>9, <1>14, RestartOK DEF TypeInv
  <2> QED
    BY <1>6, <1>11, <2>1 DEF Works, c
<1> QED
  BY <1>7, <1>12, <1>13, <1>14
(* Ended and Opened look at the proposers and the queue only. *)
LEMMA EndedFrom ==
  ASSUME NEW c, NEW d, NEW e, NEW s, Active(d) = Active(e),
         d.proposers = e.proposers, Ended(c, d, s)
  PROVE  Ended(c, e, s)
BY DEF Ended, SameValues

(* CHOOSE *)
LEMMA ChooseFinishes ==
  ASSUME NEW n \in Node, NEW c, c = captains[n], Ready(c),
         NEW s \in Active(c), NEW p \in Proposers,
         ProposerReady(p), p.init_value = c.proposers[s].init_value,
         p.status # "EMPTY",
         UNCHANGED submitted, RequestsOK, Choose(n, c, s, p)
  PROVE  RequestsOK' /\ Finishes(n, s)
<1>1. PICK q, b, d, queue, v :
        /\ q = Chosen(p) /\ b = WithProposer(c, s, q)
        /\ d = WithChosen(b, s, p.curr_value) /\ queue = d.tocommit_values
        /\ v = p.init_value
  OBVIOUS
<1>2. /\ s \in Slot /\ c.proposers[s].status # "EMPTY"
      /\ c.tocommit_values \in Seq(Value)
      /\ v \in Value /\ v = c.proposers[s].init_value
  BY <1>1, CaptainFields DEF Active, Ready, ProposerReady
<1>3. /\ q \in Proposers /\ q.status # "EMPTY" /\ ~Working(q)
      /\ ProposerReady(q)
  <2>1. /\ q \in Proposers /\ q.status = "CHOSEN"
        /\ q.init_value = p.init_value /\ q.curr_value = p.curr_value
    BY <1>1, ChosenOK
  <2> QED
    BY <1>1, <1>2, <2>1 DEF Working, ProposerReady
<1>4. /\ b \in Captains /\ Ready(b) /\ LogReady(b)
      /\ b.tocommit_values = c.tocommit_values
  <2>1. b = WithProposer(c, s, q)
    BY <1>1
  <2>2. b \in Captains /\ Ready(b) /\ LogReady(b)
    BY <1>3, <2>1, ProposerKept
  <2>3. b.tocommit_values = c.tocommit_values
    BY <2>1 DEF WithProposer, Ready, Captains
  <2> QED
    BY <2>2, <2>3
<1>5. Ended(c, b, s)
  BY <1>1, <1>3, ProposerWorks
<1>6. p.curr_value \in Value \cup {Null}
  BY DEF Proposers
<1>7. /\ d \in Captains /\ LogReady(d) /\ d.proposers = b.proposers
      /\ d.max_slot = b.max_slot /\ d.tocommit_values = b.tocommit_values
  BY <1>1, <1>2, <1>4, <1>6, WithChosenOK
<1>8. Ready(d) /\ Active(d) = Active(b)
  BY <1>4, <1>7, ProposersKept
<1>9. Ended(c, d, s) /\ queue = c.tocommit_values
  BY <1>1, <1>4, <1>5, <1>7, <1>8, EndedFrom
<1>10. /\ answered' = IF p.curr_value = v THEN Append(answered, v)
                                         ELSE answered
       /\ \/ p.curr_value = v /\ queue = <<>> /\ Become(n, d)
          \/ /\ p.curr_value = v /\ queue # <<>>
             /\ Open(n, [d EXCEPT !.tocommit_values = Tail(@)], Head(queue))
          \/ p.curr_value # v /\ Recommit(n, d, v)
  BY <1>1 DEF Choose, WithProposer
<1>11. CASE p.curr_value = v /\ queue = <<>> /\ Become(n, d)
  <2>1. captains' = [captains EXCEPT ![n] = d] /\ UNCHANGED requests
    BY <1>11 DEF Become
  <2>2. RequestsOK'
    BY <2>1 DEF RequestsOK
  <2>3. /\ answered' = Append(answered, c.proposers[s].init_value)
        /\ c.tocommit_values = <<>> /\ d.tocommit_values = <<>>
    BY <1>1, <1>2, <1>9, <1>10, <1>11
  <2> QED
    BY <1>8, <1>9, <2>1, <2>2, <2>3 DEF Finishes, Becomes
<1>12. CASE /\ p.curr_value = v /\ queue # <<>>
            /\ Open(n, [d EXCEPT !.tocommit_values = Tail(@)], Head(queue))
  <2>1. PICK e, h, t : /\ t = Tail(queue) /\ h = Head(queue)
                       /\ e = WithQueue(d, t)
    OBVIOUS
  <2>2. t \in Seq(Value) /\ h \in Value
    BY <1>2, <1>9, <1>12, <2>1, HeadTailProperties
  <2>3. /\ Ready(e) /\ Active(e) = Active(d) /\ e.proposers = d.proposers
        /\ e.tocommit_values = t
    BY ZenonT(60), <1>8, <2>1, <2>2, QueueReplaced
  <2>4. Open(n, e, h)
    BY <1>1, <1>12, <2>1 DEF WithQueue
  <2>5. RequestsOK'
    BY <2>2, <2>3, <2>4, OpenOK
  <2>6. PICK f : /\ Becomes(n, f) /\ Opened(e, f, h)
                 /\ f.tocommit_values = e.tocommit_values
    BY <2>2, <2>3, <2>4, OpenOK
  <2>7. Ended(c, e, s)
    BY <1>9, <2>3, EndedFrom
  <2>8. /\ answered' = Append(answered, c.proposers[s].init_value)
        /\ c.tocommit_values # <<>>
        /\ f.tocommit_values = Tail(c.tocommit_values)
        /\ Opened(e, f, Head(c.tocommit_values))
    BY <1>2, <1>9, <1>10, <1>12, <2>1, <2>3, <2>6
  <2> QED
    BY <2>5, <2>6, <2>7, <2>8 DEF Finishes
<1>13. CASE p.curr_value # v /\ Recommit(n, d, v)
  <2>1. RequestsOK'
    BY <1>2, <1>8, <1>13, RecommitOK
  <2>2. PICK f : /\ Becomes(n, f) /\ Opened(d, f, v)
                 /\ f.tocommit_values = d.tocommit_values
    BY <1>2, <1>8, <1>13, RecommitOK
  <2>3. /\ UNCHANGED answered /\ f.tocommit_values = c.tocommit_values
        /\ Opened(d, f, c.proposers[s].init_value)
    BY <1>1, <1>2, <1>9, <1>10, <1>13, <2>2
  <2> QED
    BY <1>9, <2>1, <2>2, <2>3 DEF Finishes
<1> QED
  BY <1>10, <1>11, <1>12, <1>13

(* Captain::handle_msg, the answer to an ACCEPT *)
LEMMA HandleAcceptedEffect ==
  ASSUME NEW a \in Node, NEW n \in Node, NEW m \in First(replies[a][n]),
         TypeInv, HandleAccepted(a, n, m)
  PROVE  /\ RequestsOK' /\ RepliesOK'
         /\ Works(n) \/ \E s \in Active(captains[n]) : Finishes(n, s)
<1>1. replies[a][n] # <<>> /\ m \in Answers /\ m.type = "ACCEPTED"
  BY FirstOK DEF TypeInv, RepliesOK, HandleAccepted
<1>2. PICK c, s, old, p :
        /\ c = captains[n] /\ s = m.slot /\ old = c.proposers[s]
        /\ p = WithAccepted(old, a, m.reply)
  OBVIOUS
<1>3. s \in Slot /\ m.reply \in Replies
  BY <1>1, <1>2 DEF Answers
<1>4. /\ c \in Captains /\ Ready(c) /\ old \in Proposers
      /\ ProposerReady(old)
  <2>1. c \in Captains /\ Ready(c)
    BY <1>2 DEF TypeInv
  <2> QED
    BY <1>2, <1>3, <2>1, CaptainFields DEF Ready
<1>5. old.status = "PHASEII" /\ s \in Active(c)
  <2>1. old.status = "PHASEII"
    BY <1>2 DEF HandleAccepted, TakesAccepted
  <2> QED
    BY <1>2, <1>3, <2>1 DEF Active
<1>6. /\ replies' = [replies EXCEPT ![a][n] = Tail(@)]
      /\ UNCHANGED submitted
  BY DEF HandleAccepted, TakeReply
<1>7. \/ Become(n, [c EXCEPT !.proposers[s] = p]) /\ UNCHANGED answered
      \/ Choose(n, c, s, p)
      \/ Restart(n, c, s, p) /\ UNCHANGED answered
  BY <1>2 DEF HandleAccepted
<1>8. /\ p \in Proposers /\ p.status = "PHASEII"
      /\ p.init_value = old.init_value /\ p.curr_value = old.curr_value
  <2>1. PICK r : r = m.reply
    OBVIOUS
  <2>2. p = WithAccepted(old, a, r) /\ old \in Proposers /\ r \in Replies
    BY <1>2, <1>3, <1>4, <2>1
  <2>3. /\ p \in Proposers /\ p.status = old.status
        /\ p.init_value = old.init_value /\ p.curr_value = old.curr_value
    BY ZenonT(60), <2>2, WithAcceptedOK
  <2> QED
    BY <1>5, <2>3
<1>9. /\ ProposerReady(p) /\ p.status # "EMPTY" /\ Working(p)
      /\ p.init_value = c.proposers[s].init_value
  BY <1>2, <1>4, <1>5, <1>8 DEF ProposerReady, Working
<1>10. RepliesOK'
  BY <1>1, <1>6, ReplyTakenOK DEF TypeInv
<1>11. CASE Become(n, [c EXCEPT !.proposers[s] = p]) /\ UNCHANGED answered
  <2>1. PICK d : d = WithProposer(c, s, p)
    OBVIOUS
  <2>2. Ready(d)
    BY <1>4, <1>5, <1>8, <1>9, <2>1, ProposerKept
  <2>3. SameWork(c, d)
    BY <1>4, <1>5, <1>8, <1>9, <2>1, ProposerWorks
  <2>4. captains' = [captains EXCEPT ![n] = d] /\ RequestsOK'
    BY <1>11, <2>1 DEF Become, WithProposer, TypeInv, RequestsOK
  <2> QED
    BY <1>2, <1>6, <1>10, <1>11, <2>2, <2>3, <2>4 DEF Works, Becomes
<1>12. CASE Choose(n, c, s, p)
  <2>1. RequestsOK' /\ Finishes(n, s)
    BY <1>2, <1>4, <1>5, <1>6, <1>8, <1>9, <1>12, ChooseFinishes DEF TypeInv
  <2> QED
    BY <1>2, <1>5, <1>10, <2>1
<1>13. CASE Restart(n, c, s, p) /\ UNCHANGED answered
  <2>1. RequestsOK' /\ \E d : Becomes(n, d) /\ SameWork(c, d)
    BY <1>4, <1>5, <1>8, <1>9, <1>13, RestartOK DEF TypeInv
  <2> QED
    BY <1>2, <1>6, <1>10, <1>13, <2>1 DEF Works
<1> QED
  BY <1>7, <1>11, <1>12, <1>13

Effect(n) == \/ Works(n)
             \/ \E v \in Value : Takes(n, v)
             \/ \E s \in Active(captains[n]) : Finishes(n, s)

(* Every step is one of the three. *)
LEMMA NextEffect ==
  ASSUME TypeInv, Next
  PROVE  RequestsOK' /\ RepliesOK' /\ \E n \in Node : Effect(n)
<1>1. CASE \E n \in Node, v \in Value : Commit(n, v)
  BY <1>1, CommitTakes DEF Effect
<1>2. ASSUME NEW n \in Node, NEW a \in Node, Receive(n, a)
      PROVE  RequestsOK' /\ RepliesOK' /\ Works(a)
  <2>1. PICK m \in First(requests[n][a]) :
          HandlePrepare(n, a, m) \/ HandleAccept(n, a, m)
    BY <1>2 DEF Receive
  <2> QED
    BY <2>1, HandlePrepareWorks, HandleAcceptWorks
<1>3. ASSUME NEW n \in Node, NEW a \in Node, ReceiveAnswer(a, n)
      PROVE  /\ RequestsOK' /\ RepliesOK'
             /\ Works(n) \/ \E s \in Active(captains[n]) : Finishes(n, s)
  <2>1. PICK m \in First(replies[a][n]) :
          \/ DropPromise(a, n, m) \/ HandlePromise(a, n, m)
          \/ DropAccepted(a, n, m) \/ HandleAccepted(a, n, m)
    BY <1>3 DEF ReceiveAnswer
  <2> QED
    BY <2>1, DropWorks, HandlePromiseWorks, HandleAcceptedEffect
<1>4. ASSUME NEW n \in Node, NEW a \in Node, LoseRequest(n, a) \/ LoseReply(a, n)
      PROVE  RequestsOK' /\ RepliesOK' /\ Works(n)
  BY <1>4, LoseWorks
<1> QED
  BY <1>1, <1>2, <1>3, <1>4 DEF Next, Effect
-----------------------------------------------------------------------------
(* The types hold. *)

LEMMA InitTyped == Init => TypeInv
<1> SUFFICES ASSUME Init PROVE TypeInv
  OBVIOUS
<1>1. captains = [n \in Node |-> NewCaptain]
  BY DEF Init
<1>2. captains \in [Node -> Captains] /\ \A n \in Node : Ready(captains[n])
  BY <1>1, NewCaptainReady DEF Ready
<1>3. /\ <<>> \in Seq(Requests) /\ <<>> \in Seq(Answers) /\ <<>> \in Seq(Value)
  BY EmptySeq
<1>4. RequestsOK
  BY <1>3 DEF Init, RequestsOK
<1>5. RepliesOK
  BY <1>3 DEF Init, RepliesOK
<1>6. HistoryOK
  BY <1>3 DEF Init, HistoryOK
<1> QED
  BY <1>2, <1>4, <1>5, <1>6 DEF TypeInv

(* The work of a node as the invariants below see it *)
LEMMA FinishedValue ==
  ASSUME NEW c, Ready(c), NEW s \in Active(c)
  PROVE  s \in Slot /\ c.proposers[s].init_value \in Value
BY DEF Active, Ready, ProposerReady

LEMMA EffectTyped ==
  ASSUME NEW n \in Node, TypeInv, Effect(n)
  PROVE  /\ HistoryOK'
         /\ \E d : Becomes(n, d)
<1>1. CASE Works(n)
  <2>1. PICK d : Becomes(n, d) /\ UNCHANGED <<submitted, answered>>
    BY <1>1 DEF Works
  <2> QED
    BY <2>1 DEF TypeInv, HistoryOK
<1>2. CASE \E v \in Value : Takes(n, v)
  <2>1. PICK v \in Value : Takes(n, v)
    BY <1>2
  <2>2. PICK d : Becomes(n, d)
    BY <2>1 DEF Takes
  <2>3. PICK q : q = Append(submitted[n], v)
    OBVIOUS
  <2>4. q \in Seq(Value)
    BY <2>3, AppendProperties DEF TypeInv, HistoryOK
  <2>5. submitted' = [submitted EXCEPT ![n] = q] /\ UNCHANGED answered
    BY <2>1, <2>3 DEF Takes
  <2> QED
    BY <2>2, <2>4, <2>5 DEF TypeInv, HistoryOK
<1>3. CASE \E s \in Active(captains[n]) : Finishes(n, s)
  <2>1. PICK s \in Active(captains[n]) : Finishes(n, s)
    BY <1>3
  <2>2. PICK v, q : /\ v = captains[n].proposers[s].init_value
                    /\ q = Append(answered, v)
    OBVIOUS
  <2>3. v \in Value
    BY <2>1, <2>2, FinishedValue DEF TypeInv
  <2>4. q \in Seq(Value)
    BY <2>2, <2>3, AppendProperties DEF TypeInv, HistoryOK
  <2>5. UNCHANGED submitted /\ (UNCHANGED answered \/ answered' = q)
    BY <2>1, <2>2 DEF Finishes
  <2>6. PICK d : Becomes(n, d)
    BY <2>1 DEF Finishes
  <2> QED
    BY <2>4, <2>5, <2>6 DEF TypeInv, HistoryOK
<1> QED
  BY <1>1, <1>2, <1>3 DEF Effect

LEMMA NextTyped == TypeInv /\ [Next]_vars => TypeInv'
<1> SUFFICES ASSUME TypeInv, [Next]_vars PROVE TypeInv'
  OBVIOUS
<1>1. CASE Next
  <2>1. RequestsOK' /\ RepliesOK'
    BY <1>1, NextEffect
  <2>2. PICK n \in Node : Effect(n)
    BY <1>1, NextEffect
  <2>3. HistoryOK'
    BY <2>2, EffectTyped
  <2>4. PICK d : Becomes(n, d)
    BY <2>2, EffectTyped
  <2>5. captains' = [captains EXCEPT ![n] = d] /\ Ready(d) /\ d \in Captains
    BY <2>4 DEF Becomes, Ready
  <2>6. captains' \in [Node -> Captains]
    BY <2>5 DEF TypeInv
  <2>7. \A a \in Node : Ready(captains'[a])
    BY <2>5 DEF TypeInv
  <2> QED
    BY <2>1, <2>3, <2>6, <2>7 DEF TypeInv
<1>2. CASE UNCHANGED vars
  BY <1>2 DEF vars, TypeInv, RequestsOK, RepliesOK, HistoryOK
<1> QED
  BY <1>1, <1>2

(* Every variable keeps its type: in particular the log never grows beyond *)
(* the slots opened, every message carries a value where its handler needs *)
(* one, and add_callback always finds where to stop.                       *)
THEOREM CaptainTypeCorrect == Spec => []TypeOK
<1>1. TypeInv => TypeOK
  BY DEF TypeInv, RequestsOK, RepliesOK, HistoryOK, TypeOK
<1> QED
  BY <1>1, InitTyped, NextTyped, PTL DEF Spec

-----------------------------------------------------------------------------
(* The window *)

WindowOK(c) ==
  /\ Cardinality(Active(c)) =< WindowSize
  /\ c.tocommit_values # <<>> => Cardinality(Active(c)) = WindowSize

WindowInv == \A n \in Node : WindowOK(captains[n])

LEMMA OpenedSize ==
  ASSUME NEW c, NEW d, NEW v, Opened(c, d, v)
  PROVE  Cardinality(Active(d)) = Cardinality(Active(c)) + 1
<1>1. PICK s \in Slot \ Active(c) : Active(d) = Active(c) \cup {s}
  BY DEF Opened
<1> QED
  BY <1>1, ActiveFinite, FS_AddElement

LEMMA EndedSize ==
  ASSUME NEW c, NEW d, NEW s, Ended(c, d, s)
  PROVE  Cardinality(Active(d)) = Cardinality(Active(c)) - 1
<1>1. s \in Active(c) /\ Active(d) = Active(c) \ {s}
  BY DEF Ended
<1> QED
  BY <1>1, ActiveFinite, FS_RemoveElement

LEMMA EffectWindow ==
  ASSUME NEW n \in Node, TypeInv, WindowOK(captains[n]), Effect(n),
         NEW d, captains' = [captains EXCEPT ![n] = d]
  PROVE  WindowOK(d)
<1> DEFINE c == captains[n]
           size == Cardinality(Active(c))
<1>1. \A e : captains' = [captains EXCEPT ![n] = e] => e = d
  BY DEF TypeInv
<1>2. /\ c.tocommit_values \in Seq(Value) /\ size \in Nat
      /\ WindowSize \in Nat \ {0}
  BY CaptainFields, ActiveFinite, CaptainAssumption
     DEF TypeInv, CaptainAssumption
<1>3. CASE Works(n)
  <2>1. SameWork(c, d)
    BY <1>1, <1>3 DEF Works, Becomes
  <2> QED
    BY <2>1 DEF SameWork, WindowOK
<1>4. CASE \E v \in Value : Takes(n, v)
  <2>1. PICK v \in Value : Takes(n, v)
    BY <1>4
  <2>2. PICK queue : queue = Append(c.tocommit_values, v)
    OBVIOUS
  <2>3. \/ size = WindowSize /\ Active(d) = Active(c)
        \/ /\ size < WindowSize /\ d.tocommit_values = Tail(queue)
           /\ Opened(c, d, Head(queue))
    BY <1>1, <2>1, <2>2 DEF Takes, Becomes
  <2>4. CASE size = WindowSize /\ Active(d) = Active(c)
    BY <1>2, <2>4 DEF WindowOK
  <2>5. CASE /\ size < WindowSize /\ d.tocommit_values = Tail(queue)
             /\ Opened(c, d, Head(queue))
    <3>1. c.tocommit_values = <<>>
      BY <1>2, <2>5 DEF WindowOK
    <3>2. Tail(queue) = <<>>
      BY <1>2, <2>2, <3>1, HeadTailAppend
    <3>3. Cardinality(Active(d)) = size + 1
      BY <2>5, OpenedSize
    <3> HIDE DEF size
    <3> QED
      BY <1>2, <2>5, <3>2, <3>3 DEF WindowOK
  <2> QED
    BY <2>3, <2>4, <2>5
<1>5. CASE \E s \in Active(c) : Finishes(n, s)
  <2>1. PICK s \in Active(c) : Finishes(n, s)
    BY <1>5
  <2>2. PICK f, e :
          /\ Becomes(n, f) /\ Ended(c, e, s)
          /\ \/ f.tocommit_values = <<>> /\ f = e
             \/ /\ c.tocommit_values # <<>>
                /\ Opened(e, f, Head(c.tocommit_values))
             \/ /\ f.tocommit_values = c.tocommit_values
                /\ Opened(e, f, c.proposers[s].init_value)
    BY <2>1 DEF Finishes
  <2>6. f = d
    BY <1>1, <2>2 DEF Becomes
  <2>3. Cardinality(Active(e)) = size - 1 /\ size >= 1
    BY <1>2, <2>2, EndedSize, ActiveFinite
  <2>4. CASE d.tocommit_values = <<>> /\ d = e
    <3> HIDE DEF size
    <3> QED
      BY <1>2, <2>3, <2>4 DEF WindowOK, size
  <2>5. ASSUME NEW v, Opened(e, d, v),
               \/ c.tocommit_values # <<>>
               \/ d.tocommit_values = c.tocommit_values
        PROVE  WindowOK(d)
    <3>1. Cardinality(Active(d)) = size
      BY <1>2, <2>3, <2>5, OpenedSize
    <3> QED
      BY <2>5, <3>1 DEF WindowOK
  <2> QED
    BY <2>2, <2>4, <2>5, <2>6
<1> QED
  BY <1>3, <1>4, <1>5 DEF Effect

LEMMA InitWindow == Init => WindowInv
<1>1. WindowOK(NewCaptain)
  BY NewCaptainReady, FS_EmptySet, CaptainAssumption
     DEF WindowOK, CaptainAssumption
<1> QED
  BY <1>1 DEF Init, WindowInv

LEMMA NextWindow == TypeInv /\ WindowInv /\ [Next]_vars => WindowInv'
<1> SUFFICES ASSUME TypeInv, WindowInv, [Next]_vars PROVE WindowInv'
  OBVIOUS
<1>1. CASE Next
  <2>1. PICK n \in Node : Effect(n)
    BY <1>1, NextEffect
  <2>2. PICK d : captains' = [captains EXCEPT ![n] = d]
    BY <2>1, EffectTyped DEF Becomes
  <2>3. WindowOK(d)
    BY <2>1, <2>2, EffectWindow DEF WindowInv
  <2>4. \A a \in Node : WindowOK(captains'[a])
    BY <2>2, <2>3 DEF WindowInv, TypeInv
  <2> QED
    BY <2>4 DEF WindowInv
<1>2. CASE UNCHANGED vars
  BY <1>2 DEF vars, WindowInv
<1> QED
  BY <1>1, <1>2

LEMMA WindowImplied == WindowInv => WindowKept
BY DEF WindowInv, WindowOK, WindowKept

(* The window is never exceeded, and never left open while values wait. In *)
(* particular the first test of Captain::commit never succeeds.            *)
THEOREM WindowIsKept == Spec => []WindowKept
BY WindowImplied, InitTyped, NextTyped, InitWindow, NextWindow, PTL DEF Spec
-----------------------------------------------------------------------------
(* Where the committed values are *)

Queued(c) == Entries(c.tocommit_values)

Worked(c) == {c.proposers[s].init_value : s \in Active(c)}

SlotsDiffer(c) == \A s, t \in Active(c) :
  c.proposers[s].init_value = c.proposers[t].init_value => s = t

(* The values asked of a node are divided between its queue, its slots and *)
(* the answers; nothing is there twice, and nothing else is there.         *)
Divided(c, asked, told) ==
  /\ NoTwice(c.tocommit_values) /\ SlotsDiffer(c)
  /\ Queued(c) \cap Worked(c) = {}
  /\ (Queued(c) \cup Worked(c)) \cap told = {}
  /\ Queued(c) \cup Worked(c) \subseteq asked
  /\ asked \subseteq Queued(c) \cup Worked(c) \cup told

Asked(n) == Entries(submitted[n])

Told == Entries(answered)

AccountInv ==
  /\ NoTwice(answered)
  /\ \A n \in Node : Divided(captains[n], Asked(n), Told)
  /\ \A n, a \in Node : n # a => Asked(n) \cap Asked(a) = {}
  /\ \A v \in Told : \E n \in Node : v \in Asked(n)

LEMMA OpenedWork ==
  ASSUME NEW c, NEW d, NEW v, Opened(c, d, v)
  PROVE  /\ Worked(d) = Worked(c) \cup {v}
         /\ SlotsDiffer(c) /\ v \notin Worked(c) => SlotsDiffer(d)
<1>1. PICK s \in Slot \ Active(c) : /\ Active(d) = Active(c) \cup {s}
                                    /\ d.proposers[s].init_value = v
  BY DEF Opened
<1>2. \A t \in Active(c) : d.proposers[t].init_value = c.proposers[t].init_value
  BY DEF Opened, SameValues
<1>3. \A x : x \in Worked(d) <=> x \in Worked(c) \cup {v}
  BY <1>1, <1>2 DEF Worked
<1>4. SlotsDiffer(c) /\ v \notin Worked(c) => SlotsDiffer(d)
  BY <1>1, <1>2 DEF Worked, SlotsDiffer
<1> QED
  BY <1>3, <1>4

LEMMA EndedWork ==
  ASSUME NEW c, NEW d, NEW s, Ended(c, d, s), SlotsDiffer(c)
  PROVE  /\ Worked(d) = Worked(c) \ {c.proposers[s].init_value}
         /\ c.proposers[s].init_value \in Worked(c)
         /\ SlotsDiffer(d)
<1>1. s \in Active(c) /\ Active(d) = Active(c) \ {s}
  BY DEF Ended
<1>2. \A t \in Active(d) : d.proposers[t].init_value = c.proposers[t].init_value
  BY DEF Ended, SameValues
<1>3. \A x : x \in Worked(d) <=> x \in Worked(c) /\ x # c.proposers[s].init_value
  BY <1>1, <1>2 DEF Worked, SlotsDiffer
<1>4. SlotsDiffer(d)
  BY <1>1, <1>2 DEF SlotsDiffer
<1> QED
  BY <1>1, <1>3, <1>4 DEF Worked

LEMMA SlotsStay ==
  ASSUME NEW c, NEW d, Active(d) = Active(c), SameValues(c, d, Active(c))
  PROVE  /\ Worked(d) = Worked(c)
         /\ SlotsDiffer(c) => SlotsDiffer(d)
<1>1. \A x : x \in Worked(d) <=> x \in Worked(c)
  BY DEF Worked, SameValues
<1> QED
  BY <1>1 DEF SlotsDiffer, SameValues

(* commit adds one value to what is asked of a node, and to its work. *)
LEMMA TakesDivided ==
  ASSUME NEW c, NEW d, NEW asked, NEW told, Divided(c, asked, told),
         c.tocommit_values \in Seq(Value),
         NEW v \in Value, v \notin asked, v \notin told,
         NEW queue, queue = Append(c.tocommit_values, v),
         \/ /\ Active(d) = Active(c) /\ SameValues(c, d, Active(c))
            /\ d.tocommit_values = queue
         \/ /\ Opened(c, d, Head(queue))
            /\ d.tocommit_values = Tail(queue)
  PROVE  Divided(d, asked \cup {v}, told)
<1>1. v \notin Queued(c) /\ v \notin Worked(c)
  BY DEF Divided
<1>2. /\ queue \in Seq(Value) /\ queue # <<>>
      /\ Entries(queue) = Queued(c) \cup {v} /\ NoTwice(queue)
  BY <1>1, AppendEntries DEF Queued, Divided
<1>3. CASE /\ Active(d) = Active(c) /\ SameValues(c, d, Active(c))
           /\ d.tocommit_values = queue
  <2>1. Worked(d) = Worked(c) /\ SlotsDiffer(d)
    BY <1>3, SlotsStay DEF Divided
  <2>2. Queued(d) = Queued(c) \cup {v} /\ NoTwice(d.tocommit_values)
    BY <1>2, <1>3 DEF Queued
  <2> QED
    BY <1>1, <2>1, <2>2 DEF Divided
<1>4. CASE Opened(c, d, Head(queue)) /\ d.tocommit_values = Tail(queue)
  <2>1. PICK h, t : h = Head(queue) /\ t = Tail(queue)
    OBVIOUS
  <2>2. /\ Entries(queue) = Entries(t) \cup {h} /\ h \notin Entries(t)
        /\ NoTwice(t)
    BY <1>2, <2>1, TailEntries
  <2>3. /\ Queued(c) \cup {v} = Queued(d) \cup {h} /\ h \notin Queued(d)
        /\ NoTwice(d.tocommit_values)
    BY <1>2, <1>4, <2>1, <2>2 DEF Queued
  <2>4. h \notin Worked(c)
    BY <1>1, <2>3 DEF Divided
  <2>5. Worked(d) = Worked(c) \cup {h} /\ SlotsDiffer(d)
    BY <1>4, <2>1, <2>4, OpenedWork DEF Divided
  <2> QED
    BY <1>1, <2>3, <2>5 DEF Divided
<1> QED
  BY <1>3, <1>4

(* What is done was asked for, and is not answered yet. *)
LEMMA FinishedWasWork ==
  ASSUME NEW c, NEW e, NEW s, NEW asked, NEW told,
         Divided(c, asked, told), Ended(c, e, s)
  PROVE  c.proposers[s].init_value \in asked \ told
<1>1. c.proposers[s].init_value \in Worked(c)
  BY EndedWork DEF Divided
<1> QED
  BY <1>1 DEF Divided

(* CHOOSE moves one value from the slots to the answers, or to another     *)
(* slot, and perhaps one from the queue to the slots.                      *)
LEMMA FinishesDivided ==
  ASSUME NEW c, NEW e, NEW d, NEW s, NEW asked, NEW told,
         Divided(c, asked, told), c.tocommit_values \in Seq(Value),
         Ended(c, e, s), NEW v, v = c.proposers[s].init_value
  PROVE  /\ c.tocommit_values = <<>> /\ d.tocommit_values = <<>> /\ d = e
              => Divided(d, asked, told \cup {v})
         /\ (/\ c.tocommit_values # <<>>
             /\ d.tocommit_values = Tail(c.tocommit_values)
             /\ Opened(e, d, Head(c.tocommit_values)))
              => Divided(d, asked, told \cup {v})
         /\ d.tocommit_values = c.tocommit_values /\ Opened(e, d, v)
              => Divided(d, asked, told)
<1>1. /\ Worked(e) = Worked(c) \ {v} /\ v \in Worked(c) /\ SlotsDiffer(e)
  BY EndedWork DEF Divided
<1>2. v \in asked /\ v \notin told /\ v \notin Queued(c)
  BY <1>1 DEF Divided
<1>3. ASSUME c.tocommit_values = <<>>, d.tocommit_values = <<>>, d = e
      PROVE  Divided(d, asked, told \cup {v})
  <2>1. Queued(d) = Queued(c) /\ NoTwice(d.tocommit_values)
    BY <1>3 DEF Queued, Divided
  <2> QED
    BY <1>1, <1>2, <1>3, <2>1 DEF Divided
<1>4. ASSUME c.tocommit_values # <<>>,
             d.tocommit_values = Tail(c.tocommit_values),
             Opened(e, d, Head(c.tocommit_values))
      PROVE  Divided(d, asked, told \cup {v})
  <2>1. PICK h : h = Head(c.tocommit_values)
    OBVIOUS
  <2>2. /\ Queued(c) = Queued(d) \cup {h} /\ h \notin Queued(d)
        /\ NoTwice(d.tocommit_values)
    BY <1>4, <2>1, TailEntries DEF Queued, Divided
  <2>3. h \notin Worked(e)
    BY <1>1, <2>2 DEF Divided
  <2>4. Worked(d) = Worked(e) \cup {h} /\ SlotsDiffer(d)
    BY <1>1, <1>4, <2>1, <2>3, OpenedWork
  <2> QED
    BY <1>1, <1>2, <2>2, <2>4 DEF Divided
<1>5. ASSUME d.tocommit_values = c.tocommit_values, Opened(e, d, v)
      PROVE  Divided(d, asked, told)
  <2>1. Worked(d) = Worked(e) \cup {v} /\ SlotsDiffer(d)
    BY <1>1, <1>5, OpenedWork
  <2>2. Worked(d) = Worked(c) /\ SlotsDiffer(d)
    BY <1>1, <2>1
  <2>3. Queued(d) = Queued(c) /\ NoTwice(d.tocommit_values)
    BY <1>5 DEF Queued, Divided
  <2> QED
    BY <2>2, <2>3 DEF Divided
<1> QED
  BY <1>2, <1>3, <1>4, <1>5
LEMMA InitAccount == Init => AccountInv
<1> SUFFICES ASSUME Init PROVE AccountInv
  OBVIOUS
<1>1. /\ \A n \in Node : captains[n] = NewCaptain /\ submitted[n] = <<>>
      /\ answered = <<>>
  BY DEF Init
<1>2. Divided(NewCaptain, {}, {})
  BY NewCaptainReady, EmptyEntries DEF Divided, Queued, Worked, SlotsDiffer
<1> QED
  BY <1>1, <1>2, EmptyEntries DEF AccountInv, Asked, Told

LEMMA EffectAccount ==
  ASSUME NEW n \in Node, TypeInv, AccountInv, Effect(n)
  PROVE  AccountInv'
<1> DEFINE c == captains[n]
<1>1. PICK d : captains' = [captains EXCEPT ![n] = d]
  BY EffectTyped DEF Becomes
<1>2. /\ captains'[n] = d
      /\ \A a \in Node \ {n} : captains'[a] = captains[a]
      /\ \A e : captains' = [captains EXCEPT ![n] = e] => e = d
  BY <1>1 DEF TypeInv
<1>3. c.tocommit_values \in Seq(Value) /\ Divided(c, Asked(n), Told)
  BY CaptainFields DEF TypeInv, AccountInv
<1>4. /\ NoTwice(answered)
      /\ \A a \in Node : Divided(captains[a], Asked(a), Told)
      /\ \A a, b \in Node : a # b => Asked(a) \cap Asked(b) = {}
      /\ \A v \in Told : \E a \in Node : v \in Asked(a)
  BY DEF AccountInv
<1>5. CASE Works(n)
  <2>1. SameWork(c, d) /\ UNCHANGED <<submitted, answered>>
    BY <1>2, <1>5 DEF Works, Becomes
  <2>2. Asked(n)' = Asked(n) /\ Told' = Told /\ \A a \in Node : Asked(a)' = Asked(a)
    BY <2>1 DEF Asked, Told
  <2>3. /\ Worked(d) = Worked(c) /\ SlotsDiffer(d)
        /\ Queued(d) = Queued(c) /\ NoTwice(d.tocommit_values)
    BY <1>3, <2>1, SlotsStay DEF SameWork, Queued, Divided
  <2>4. Divided(d, Asked(n), Told)
    BY <1>3, <2>3 DEF Divided
  <2>5. \A a \in Node : Divided(captains'[a], Asked(a), Told)
    BY <1>2, <1>4, <2>4
  <2> QED
    BY <1>4, <2>1, <2>2, <2>5 DEF AccountInv
<1>6. CASE \E v \in Value : Takes(n, v)
  <2>1. PICK v \in Value : Takes(n, v)
    BY <1>6
  <2>2. PICK queue : queue = Append(c.tocommit_values, v)
    OBVIOUS
  <2>3. /\ IsNew(v) /\ UNCHANGED answered
        /\ submitted' = [submitted EXCEPT ![n] = Append(@, v)]
        /\ \/ /\ Active(d) = Active(c) /\ SameValues(c, d, Active(c))
              /\ d.tocommit_values = queue
           \/ /\ Opened(c, d, Head(queue))
              /\ d.tocommit_values = Tail(queue)
    BY <1>2, <2>1, <2>2 DEF Takes, Becomes
  <2>4. PICK x, y : x = submitted[n] /\ y = Append(x, v)
    OBVIOUS
  <2>5. submitted' = [submitted EXCEPT ![n] = y]
    BY <2>3, <2>4
  <2>6. /\ submitted \in [Node -> Seq(Value)] /\ x \in Seq(Value)
    BY <2>4 DEF TypeInv, HistoryOK
  <2>7. Entries(y) = Entries(x) \cup {v}
    BY <2>4, <2>6, AppendEntries
  <2>8. /\ submitted'[n] = y
        /\ \A a \in Node \ {n} : submitted'[a] = submitted[a]
    BY <2>5, <2>6
  <2>9. /\ Asked(n)' = Asked(n) \cup {v} /\ Told' = Told
        /\ \A a \in Node \ {n} : Asked(a)' = Asked(a)
    BY <2>3, <2>4, <2>7, <2>8 DEF Asked, Told
  <2>10. \A a \in Node : v \notin Asked(a)
    BY <2>3 DEF IsNew, Asked, Entries
  <2>11. v \notin Told
    BY <1>4, <2>10
  <2>12. Divided(d, Asked(n) \cup {v}, Told)
    BY <1>3, <2>2, <2>3, <2>10, <2>11, TakesDivided
  <2>13. \A a \in Node : Divided(captains'[a], Asked(a)', Told')
    <3> TAKE a \in Node
    <3>1. CASE a = n
      BY <1>2, <2>9, <2>12, <3>1
    <3>2. CASE a # n
      BY <1>2, <1>4, <2>9, <3>2
    <3> QED
      BY <3>1, <3>2
  <2>14. \A a, b \in Node : a # b => Asked(a)' \cap Asked(b)' = {}
    BY <1>4, <2>9, <2>10
  <2>15. \A w \in Told' : \E a \in Node : w \in Asked(a)'
    BY <1>4, <2>9
  <2>16. NoTwice(answered')
    BY <1>4, <2>3
  <2> QED
    BY <2>13, <2>14, <2>15, <2>16 DEF AccountInv
<1>7. CASE \E s \in Active(c) : Finishes(n, s)
  <2>1. PICK s \in Active(c) : Finishes(n, s)
    BY <1>7
  <2>2. PICK v : v = c.proposers[s].init_value
    OBVIOUS
  <2>3. v \in Value
    BY <2>1, <2>2, FinishedValue DEF TypeInv
  <2>4. PICK f, e :
          /\ Becomes(n, f) /\ Ended(c, e, s) /\ UNCHANGED submitted
          /\ \/ /\ answered' = Append(answered, v)
                /\ c.tocommit_values = <<>> /\ f.tocommit_values = <<>>
                /\ f = e
             \/ /\ answered' = Append(answered, v)
                /\ c.tocommit_values # <<>>
                /\ f.tocommit_values = Tail(c.tocommit_values)
                /\ Opened(e, f, Head(c.tocommit_values))
             \/ /\ UNCHANGED answered
                /\ f.tocommit_values = c.tocommit_values
                /\ Opened(e, f, v)
    BY <2>1, <2>2 DEF Finishes
  <2>5. f = d
    BY <1>2, <2>4 DEF Becomes
  <2>6. \A a \in Node : Asked(a)' = Asked(a)
    BY <2>4 DEF Asked
  <2>7. v \in Asked(n) /\ v \notin Told
    BY <1>3, <2>2, <2>4, FinishedWasWork
  <2>8. \/ answered' = Append(answered, v) /\ Divided(d, Asked(n), Told \cup {v})
        \/ UNCHANGED answered /\ Divided(d, Asked(n), Told)
    BY <1>3, <2>2, <2>4, <2>5, FinishesDivided
  <2>9. CASE answered' = Append(answered, v) /\ Divided(d, Asked(n), Told \cup {v})
    <3>1. PICK x, y : x = answered /\ y = answered'
      OBVIOUS
    <3>2. x \in Seq(Value) /\ y = Append(x, v)
      BY <2>9, <3>1 DEF TypeInv, HistoryOK
    <3>3. Entries(y) = Entries(x) \cup {v} /\ NoTwice(y)
      BY <1>4, <2>3, <2>7, <3>1, <3>2, AppendEntries DEF Told
    <3>4. Told' = Told \cup {v} /\ NoTwice(answered')
      BY <3>1, <3>3 DEF Told
    <3>5. ASSUME NEW a \in Node \ {n}
          PROVE  Divided(captains[a], Asked(a), Told \cup {v})
      <4>1. v \notin Asked(a) /\ Divided(captains[a], Asked(a), Told)
        BY <1>4, <2>7
      <4> QED
        BY <4>1 DEF Divided
    <3>6. \A a \in Node : Divided(captains'[a], Asked(a)', Told')
      BY <1>2, <2>6, <2>9, <3>4, <3>5
    <3>7. \A w \in Told' : \E a \in Node : w \in Asked(a)'
      BY <1>4, <2>6, <2>7, <3>4
    <3> QED
      BY <1>4, <2>6, <3>4, <3>6, <3>7 DEF AccountInv
  <2>10. CASE UNCHANGED answered /\ Divided(d, Asked(n), Told)
    <3>1. Told' = Told
      BY <2>10 DEF Told
    <3>2. \A a \in Node : Divided(captains'[a], Asked(a)', Told')
      BY <1>2, <1>4, <2>6, <2>10, <3>1
    <3> QED
      BY <1>4, <2>6, <2>10, <3>1, <3>2 DEF AccountInv
  <2> QED
    BY <2>8, <2>9, <2>10
<1> QED
  BY <1>5, <1>6, <1>7 DEF Effect

LEMMA NextAccount == TypeInv /\ AccountInv /\ [Next]_vars => AccountInv'
<1> SUFFICES ASSUME TypeInv, AccountInv, [Next]_vars PROVE AccountInv'
  OBVIOUS
<1>1. CASE Next
  BY <1>1, NextEffect, EffectAccount
<1>2. CASE UNCHANGED vars
  BY <1>2 DEF vars, AccountInv, Asked, Told
<1> QED
  BY <1>1, <1>2

(* What Accounted counts are one-element sets. *)
LEMMA DividedPlaces ==
  ASSUME NEW n \in Node, NEW v,
         Divided(captains[n], Asked(n), Told), NoTwice(answered),
         v \in Asked(n)
  PROVE  Cardinality(Places(n, v)) = 1
<1> DEFINE c == captains[n]
           queue == {<<"queue", i>> : i \in {i \in DOMAIN c.tocommit_values :
                                             c.tocommit_values[i] = v}}
           slots == {<<"slot", s>> : s \in {s \in Active(c) :
                                            c.proposers[s].init_value = v}}
           answers == {<<"answered", i>> : i \in {i \in DOMAIN answered :
                                                  answered[i] = v}}
<1>1. Places(n, v) = queue \cup slots \cup answers
  BY DEF Places
<1>2. /\ v \notin Queued(c) => queue = {}
      /\ v \notin Worked(c) => slots = {}
      /\ v \notin Told => answers = {}
  BY DEF Queued, Worked, Told, Entries
<1>3. v \in Queued(c) => \E x : queue = {x}
  <2> SUFFICES ASSUME v \in Queued(c) PROVE \E x : queue = {x}
    OBVIOUS
  <2>1. PICK i \in DOMAIN c.tocommit_values : c.tocommit_values[i] = v
    BY DEF Queued, Entries
  <2>2. queue = {<<"queue", i>>}
    BY <2>1 DEF Divided, NoTwice
  <2> QED
    BY <2>2
<1>4. v \in Worked(c) => \E x : slots = {x}
  <2> SUFFICES ASSUME v \in Worked(c) PROVE \E x : slots = {x}
    OBVIOUS
  <2>1. PICK s \in Active(c) : c.proposers[s].init_value = v
    BY DEF Worked
  <2>2. slots = {<<"slot", s>>}
    BY <2>1 DEF Divided, SlotsDiffer
  <2> QED
    BY <2>2
<1>5. v \in Told => \E x : answers = {x}
  <2> SUFFICES ASSUME v \in Told PROVE \E x : answers = {x}
    OBVIOUS
  <2>1. PICK i \in DOMAIN answered : answered[i] = v
    BY DEF Told, Entries
  <2>2. answers = {<<"answered", i>>}
    BY <2>1 DEF NoTwice
  <2> QED
    BY <2>2
<1> HIDE DEF queue, slots, answers
<1>6. \E x : Places(n, v) = {x}
  <2>1. CASE v \in Queued(c)
    <3>1. v \notin Worked(c) /\ v \notin Told
      BY <2>1 DEF Divided
    <3> QED
      BY <1>1, <1>2, <1>3, <2>1, <3>1
  <2>2. CASE v \in Worked(c)
    <3>1. v \notin Queued(c) /\ v \notin Told
      BY <2>2 DEF Divided
    <3> QED
      BY <1>1, <1>2, <1>4, <2>2, <3>1
  <2>3. CASE v \in Told
    <3>1. v \notin Queued(c) /\ v \notin Worked(c)
      BY <2>3 DEF Divided
    <3> QED
      BY <1>1, <1>2, <1>5, <2>3, <3>1
  <2> QED
    BY <2>1, <2>2, <2>3 DEF Divided
<1> QED
  BY <1>6, FS_Singleton

LEMMA AccountImplied == AccountInv => Accounted
<1> SUFFICES ASSUME AccountInv, NEW n \in Node, NEW i \in DOMAIN submitted[n]
             PROVE  Cardinality(Places(n, submitted[n][i])) = 1
  BY DEF Accounted
<1>1. submitted[n][i] \in Asked(n)
  BY DEF Asked, Entries
<1> QED
  BY <1>1, DividedPlaces DEF AccountInv

(* A value that was committed is in exactly one place, however often it    *)
(* loses a slot and whatever is lost on the way: in the queue, in the hands*)
(* of one proposer, or answered.                                           *)
THEOREM CommittedAreAccounted == Spec => []Accounted
BY AccountImplied, InitTyped, NextTyped, InitAccount, NextAccount, PTL DEF Spec
===============================================================================
