# Steins-Gate in TLA+

Steins-Gate is a replicated log in C++: Multi-Paxos over ZeroMQ, with a window
of concurrent proposers, a queue behind it, and decisions that travel on later
requests. It brings a thread pool with it. This directory models both, checks the
models with TLC, and proves with TLAPS the safety of a slot, of the captains and
their log, of the clients, of the pool and of its futures.

References such as `captain.cpp:80` are to `src/libsgate/`.

## 1. The system

A *server* (`test/steins-gate.cpp`) is a `View`, a `Captain` and a `Commo`. Its
one thread is the poll loop `Commo::waiting_msg`: every handler runs in it, one
message at a time. A *client* (`test/clients.cpp`) is a `View`, a `Client` and a
`Commo` with a loop of its own.

| component | state | operations | talks to |
|---|---|---|---|
| `Acceptor`, one per slot and node | `max_proposed_ballot_`, `max_accepted_ballot_`, `max_value_` | `handle_msg_prepare`, `handle_msg_accept` | called by `Captain::re_handle_msg` |
| `Proposer`, one per slot a node tries to fill | `init_value_`, `curr_ballot_`, `curr_value_`, `max_ballot_`, `max_value_`, two maps of answers | `msg_prepare`, `restart_msg_prepare`, `msg_accept`, `handle_msg_promise`, `handle_msg_accepted`, `gen_next_ballot` | called by `Captain::commit` and `handle_msg` |
| `Captain`, one per node | `acceptors_`, `proposers_` with a status each, `chosen_values_`, `tocommit_values_`, `max_slot_`, `last_slot_`, `max_chosen_`, `max_chosen_without_hole_`, `window_size_` | `commit`, `handle_msg`, `re_handle_msg`, `add_chosen_value`, `add_callback` | sends through `Commo`, calls the application's callbacks |
| `Commo` | sockets | `waiting_msg`, `broadcast_msg`, `send_one_msg`, `reply_msg`, `reply_client` | DEALER to each peer, one ROUTER |
| `View` | the nodes, own id, `master_id_` | getters, `set_master` | read by all |
| `Client` | `commit_counter_`, `master_id_`, `done_`, statistics | `start_commit`, `handle_reply` | COMMIT to the master, COMMITTED back |
| `thread_pool` and `pool_core`, with `worker_thread`s and policies | `m_worker_count`, `m_target_worker_count`, `m_active_worker_count`, `m_scheduler`, `m_terminate_all_workers`, two condition variables | `schedule`, `clear`, `wait`, `resize`, `shutdown`, `execute_task`, `worker_died_unexpectedly`, `worker_destructed` | application threads, tasks |
| `future_impl` and its task | `m_ready`, `m_result`, `m_is_cancelled`, `m_executing` | `wait`, `timed_wait`, `operator()`, `cancel`, `set_value` | the pool's workers, application threads |

How a value gets into the log: a client's COMMIT reaches the master, which calls
`commit`. If the window is full the value waits in the queue. Otherwise it gets
the next slot, and the new proposer goes straight to Phase II: ACCEPT to
everybody, the own acceptor included (`broadcast_msg` calls `re_handle_msg` for
the own node). When a quorum has said yes the captain answers the client, adds
the value to its log, runs the callback over the new part of the log that has no
holes, erases the proposer, and serves the queue. If a quorum of answers is in
but not all of a quorum are yes, the proposer restarts with Phase I at its next
ballot. If another value was chosen in the slot, the own value moves on to the
next slot, with Phase I. Followers learn a slot from `last_slot` and
`last_value` of some later ACCEPT, provided their own acceptor holds that value.

What is hard here, and what makes each part correct:

* **Slots.** Two proposers with interleaved phases, stale and reordered answers,
  restarts that must forget, Phase II without Phase I. Correct: one value per
  ballot, a value accepted by a quorum is never contradicted, logs agree.
* **Log.** Slots chosen out of order, holes, piggybacked decisions one slot at a
  time, nothing sent twice. Correct: every node's callback sees one log in order;
  followers keep up; nothing is decided twice.
* **Window and queue.** Correct: never more proposers than the window, never an
  open window while values wait, order of arrival kept, every committed value in
  exactly one place.
* **Clients.** Two threads that send, redirections under way while the master
  moves. Correct: as many requests out as the window, none lost, doubled or
  committed twice, none redirected for ever, all answered while one node is the
  master, and the share of writes that was asked for.
* **Servers that are started again.** Nothing is stored. Correct: a follower that
  has forgotten its votes and its log does no harm while one node commits.
* **Thread pool.** Workers that sleep, wake up, throw, are replaced, are told to
  end; callers that wait for all of them. Correct: counters that agree with the
  threads, no lost notification, tasks executed once and in order, an end for
  everybody after shutdown.
* **Futures.** Flags read and written without the lock. Correct: only the
  function's result is ever read, cancelling in time stops the function, nobody
  waits for a result that is there, and none comes after a cancellation in time.
* **Network.** Channels keep their order and do not duplicate; any message may be
  lost and none is sent again; there are no timeouts.
* **Not in the code.** Stable storage, recovery of state, resending, leader
  election.
  `clean`, `crash` and `recover` are commented out.

## 2. Modules

| module | models | state |
|---|---|---|
| `SGateTypes` | nodes, values, quorums, the shape of ballots | constants only |
| `Acceptor` | `acceptor.cpp`, handlers as functions of a record | none |
| `Proposer` | `proposer.cpp` and the status the captain keeps beside a proposer, methods as functions of a record | none |
| `Synod` | one slot on all nodes: acceptors, proposers, messages, learning | `acceptors`, `proposers`, `chosen`, `announced`, `net`, histories `votes`, `issued` |
| `SynodInv` | the inductive invariant of `Synod` | as `Synod` |
| `SynodProofs` | its proof and the theorems | as `Synod` |
| `Captain` | the whole log on all nodes: window, queue, piggybacking, channels in order | `captains[n]`, `requests`, `replies`, histories `submitted`, `answered` |
| `ReplicatedLog` | what the captains promise together | `submitted`, `decided`, `delivered`, `answered` |
| `CaptainHistory` | the captains with crashes of followers and the history of votes; the two refinements, of `ReplicatedLog` and, slot by slot, of `Synod` | as `Captain`, and histories `votes`, `issued` |
| `Client` | the closed loop of the clients and the servers' part in it: reads, value ids, redirection, change of master | `clients[c]`, `sending`, `requests`, `views`, `pending`, `replies`, histories `writes`, `committed`, `answered` |
| `Pool` | `threadpool/`: the core, its workers, the three schedulers, the three shutdown policies, the size policy | `policy`, `worker`, `task`, `count`, `target`, `active`, `scheduler`, `terminating`, `caller`, `closed`, histories `scheduled`, `finished`, `cleared` |
| `Future` | `threadpool/future.hpp`, `detail/future.hpp`: one task with a result | `callable`, `worker`, `computed`, `ready`, `result`, `cancelled`, `executing`, `locked`, `caller`, histories `got`, `stopped` |
| `ProposerProofs` | lemmas about the functions of `Proposer` | none |
| `CaptainProofs` | the theorems about `Captain` for any committing nodes: types, window, where values are | as `Captain` |
| `LogProofs` | the theorems about `Captain` and `CaptainHistory` for one committing node: agreement, order, restarts, the implementation of `ReplicatedLog`, no lag without losses | as `CaptainHistory` |
| `ClientProofs` | the theorems about `Client` | as `Client` |
| `PoolProofs`, `FutureProofs` | the theorems about `Pool` and `Future`, with their inductive invariants | as `Pool`, `Future` |
| `MCSynod`, `MCCaptain`, `MCCaptainHistory`, `MCClient`, `MCPool`, `MCFuture` | instances for TLC | |

`Synod` and `Captain` both EXTEND `Acceptor` and `Proposer`: the pure part of the
protocol is written once. Methods are functions because the code calls them from
several places; an action is one message handled (or one call of `commit`) with
everything that happens before the handler returns. In particular a broadcast
includes the own acceptor's vote and the recording of its answer. That the own
answer only gets recorded uses that views have at least two nodes
(`NodeAssumption`): with one node `broadcast_msg` and `handle_msg` would call each
other recursively.

Correspondences that are not one to one:

* The map `proposers_` is a function on slots. Status `EMPTY` is "no entry, and
  never had one", `CHOSEN` "erased". Status `INIT` does not appear: the code sets
  it (`captain.cpp:157`, `276`, `291`) and the own acceptor's promise turns it into
  `PHASEI` within the same broadcast.
* The maps of answers are functions with an explicit "none".
* `chosen_values_` without its dummy entry 0 is a sequence; `max_chosen_` is its
  length. Values stand for `PropValue` objects and are compared by identity, as
  the code compares ids.
* `Synod` abstracts from the channel order: its messages form a set from which
  each is taken once. `Captain` has two sequences per pair of nodes, one for each
  direction of the connection between the DEALER socket of one and the ROUTER
  socket of the other.
* In `Synod` the decision of the slot is announced by a message `LAST`, which
  stands for `last_slot` and `last_value` on an ACCEPT of any slot. So a captain
  may tell the decision in the very step that opens another slot or decides this
  one (`Commit`, `HandleAccepted`), and a follower may handle an ACCEPT and a
  `LAST` at once (`HandleAcceptAndLast`). A follower that knows the slot it is
  told of does not answer the ACCEPT (`captain.cpp:376`): `HandleAccept` may leave
  out its answer if the sender may tell of a slot (`MayTellAnother`).
* The comment of `handle_msg_accept` (`acceptor.cpp:63`) says that a ballot is
  accepted if it is above the promised one; the code accepts the promised ballot
  as well (`acceptor.cpp:84`), as Phase II needs, and so does `WillAccept`.
* `Fast` and `Slow` of `Synod` are the nodes that may open the slot in Phase II
  and in Phase I. In the code that depends on whether the node lost its previous
  slot.

* In `Client` the log is abstract: `pending[n]` are the writes the captain of n has
  taken and not answered, and `views[n]` counts the masters of the configuration
  and of the SET_MASTER values that n has delivered. Both threads of a client are
  there: `start_commit` and the listener share `counter_mut_` while they make a
  request and send it after the unlock, so `Make` and `Send` are separate steps
  and `master_id_` is read in the second. `Block` stands for the 10 of
  `commit_counter_ % 10`. `ratio_` is one of the four values the program offers.
  The model is that of a build whose `MODE_TYPE` is not 1; with 1 `done_` is set
  from the start and the listener only counts. A value id is packed as in
  `captain.cpp:455`, node id above counter, with `CounterSpan` for the 2^32
  counters, and the answer is unpacked from it (`captain.cpp:212`).
* `Lossy` is a set of nodes: the connections from and to them lose messages, the
  others do not. A send that fails (`DONTWAIT`) and a message dropped later are
  the same loss.
* In `CaptainHistory` a `Crash` takes everything from a captain but its place in
  the view. What others have sent to it stays: ZeroMQ keeps messages for a peer
  that is away; in the runs with losses they may be gone as well.
* In `Pool` an action is one critical section of `m_monitor`. Condition variables
  are sets of sleeping threads; waking up without a notification is allowed
  everywhere. A worker is `notified` between its notification and its lock. The
  number of threads the system grants (`Worker`) bounds the loop of `resize`,
  which then fails as it does with `thread_resource_error`.
* In `Future` every access to a volatile member outside the lock is a step.
  `executing` is the set of the values that a read of `m_executing` may give:
  both, until a worker has set it. `callable` says whether `m_function` is one: the
  worker goes past an empty function (`detail/future.hpp:193`) and touches nothing.

Definitions whose comment begins with "Mutant" belong to no specification. Each
is a plausible mistake in the definition that follows it, and some property
fails when it takes that definition's place.

## 3. What TLC checks

| run | instance | shows |
|---|---|---|
| `synod_restart` | 3 nodes, Fast = {0}, Slow = {1}, ballots up to the second attempt | `IInv` (so every part of the inductive invariant), `OneValuePerBallot` |
| `synod_learn` | the same, both tell the decision, first ballots only | `TypeOK`, `Agreement`, `ChosenByQuorum`, `ChosenIsStable` |
| `captain_master` | 3 nodes, one commits 4 values, window 2, fairness | `ArrivalOrder`, `LagBounded`, `CaughtUp`, `EveryoneAnswered`, `EveryoneDelivers` |
| `captain_lossy` | 3 nodes, one commits 3 values, window 2, any message may be lost, the two followers may crash | `LogAgreement`, `ImplementsLog` (refinement of `ReplicatedLog`) |
| `captain_synod` | 3 nodes, two commit 3 values, window 1, 3 slots | `ImplementsSynod` (refinement of `Synod`, in every slot) |
| `captain_contend` | 3 nodes, two commit 3 values, window 1, 3 slots, messages from and to node 2 may be lost | `TypeOK`, `WindowKept`, `Accounted` |
| `client_window` | 1 client, which starts with 0, 2 servers, master 1, then 0, then 1, window 2, ratio 90, blocks of 3, 6 requests, fairness | `TypeOK`, `Conserved`, `WindowFull`, `CommittedOnce`, `WriteRatioKept`, `RedirectionsEnd`, `AllAnswered` |
| `pool_work` | 1 or 2 workers, 3 tasks of which one throws, 1 caller, each scheduler and shutdown policy, fairness | `TypeOK`, `Counted`, `ExecutedOnce`, `WaitMeansDone`, `StartOrder`, `NothingStarts`, `TasksStart`, `WaitEnds`, `AllLeave` |
| `future_result` | 2 callers, 2 possible results, fairness | `TypeOK`, `GetsResult`, `CancelStops`, `NeverUninitialised`, `HopelessStays`, `GetReturns` |
| `two_masters` | 3 nodes, two commit, one slot | violates `LogAgreement` |
| `client_ratio` | as `client_window` with master 1 throughout, ratio 10 | violates `WriteRatioKept` |
| `pool_shrink` | 2 workers, resized to 1 | violates `KeepsTarget` |

Bounds. `MaxBallot` stops a proposer from restarting above a ballot; ballots of
node n are 65536 k + n, so 131072 lets node 0 restart once and node 1 not at all
beyond its first ballot 65537. A message whose handling would exceed the bound
stays unhandled, which safety does not notice. `MaxSlot` stops a captain from
opening a slot; where one node commits it equals the number of values and never
bites. A value is committed once. Three nodes are the smallest view in which a
quorum is not everybody. With three nodes the own answer and one more are a
quorum; that a slot does not depend on it is what the proofs add, which are about
views of any size. Four values through a window of two put two values into the
queue. Symmetry is over values, which nothing orders; node ids order ballots, so
there is none over nodes. Deadlock is not checked: when all values are committed and
all messages handled, all requests answered, or the pool shut down, the system
rests.

Both runs in which nodes contend have a constraint `RestartBound`. In
`captain_synod` proposers restart only while some value has still to be submitted;
in `captain_contend` at most one of them may have restarted after that. What lies
behind the other states is not explored; crowded slots are explored to the end,
contended ones up to there.

For a client, a window of two lets one request be redirected while another is
answered; six requests in blocks of three give two full blocks, the first made by
both threads. `MaxCounter` stops a client from making requests; `WindowFull` says
nothing about a client that has reached it. Clients meet only in the servers'
views, so one is enough. `CounterSpan` is the number of counters a value id can
hold, and the run uses all of them: the last id is next to those of another node.

Two workers and three tasks let one task run, one wake a worker, and one wait; two
of the tasks have the same priority. One caller waits; `schedule`, `resize` and
`clear` are a step each, which any other thread may take. A task is scheduled once.

Fairness. `captain_master` assumes that every channel that has a message is read
eventually. `waiting_msg` polls all sockets in turn, and drains each ready one.
(ROUTER takes from its peers in turn.) No fairness is assumed of `commit`. The
run has no losses, because a lost message is never sent again, and one
committing node, because two may outbid each other for ever.

`client_window` assumes that both threads of the client run and that servers and
clients read their sockets. That a captain answers what it was given is assumed
only while the configured master stays (`MasterStays`): it is what
`EveryoneAnswered` says of one committing node without losses. Once the master
moves the code does not guarantee it. The new master opens slot 1, its ACCEPTs
tell of slot 1, a node that knows slot 1 returns without an answer
(`captain.cpp:376`), and the write may stay with the captain for ever. So `AllAnswered`,
that nothing stays open, is claimed while the master stays; it fails without that
hypothesis, and without the captain's fairness. `RedirectionsEnd` needs no answer of
any captain: if the servers come to agree on the master, what is open in the end is
with a captain. Nothing is assumed of `SetMaster`.

`pool_work` and `future_result` assume that the system runs every thread that can run
and that tasks end; a looped task engages its thread for as long as it likes
(`task_adaptors.hpp:104`), and what waits for such a task waits on. Nobody has to call
anything, and no thread has to wake up without a notification. `TasksStart` and `WaitEnds` are about pools that keep a
worker: a pool may lose all of them (`pool_shrink`, or a thread that the system
refuses), and calls of `resize` without end may keep workers from working.

What the runs say about one master:

* Slots are opened in the order of `commit`, and with ordered channels they are
  chosen in order too. `LagBounded` is what follows: the slot told next is never
  more than a window behind the slot opened next. It does need that no message is
  lost. Every ACCEPT of a new slot tells at most one decision, so a captain whose
  telling has fallen behind never catches up.
* At rest the followers know exactly the slots up to the master's `last_slot_`
  (`CaughtUp`). The last slots, up to a window of them, stay unknown to the
  followers until something else is committed.
* With losses the log may stop for ever at a hole, but what is delivered and
  answered is right (`ImplementsLog`). A follower that was started again delivers
  the log from its beginning if it is told of it, and nothing else; the votes it
  has forgotten do not matter, because a single master never needs a Phase I.

What they say about slots and log: windows, queues, connections and messages are
shared by all slots, and `ImplementsSynod` says that each slot nevertheless follows
the protocol of `Synod`, with two committing nodes, restarts, lost slots and values
that move on. So what is proved about `Synod` holds of each slot of these captains.
Agreement needs the assumption of section 4, which one committing node meets.

What they say about clients: redirections and a moving master lose, double and
repeat nothing, and no write goes back and forth for ever between servers that
agree. What becomes of a write that a captain has taken is a matter of the log,
and good while one node commits.

What they say about the pool and its futures, beside their texts:

* `GetReturns` leaves out `Hopeless`, the states with no result in which the future was
  cancelled before `set_value` has made its test, the task was removed, the function
  threw or is empty. `HopelessStays` shows that in none of these any step of the code
  can still store a result, so nothing is left out that could come. A thread that is
  in `get` then waits for ever, as `wait` looks at `m_ready` only. For a cancelled
  future this disagrees with the comment
  `throw( thread::cancelation_exception, ... )` at `operator()` and `get`
  (`future.hpp:81`, `86`): nothing throws it.
* `wait` is to block until the sum of active and pending tasks is down to a threshold
  (`pool_core.hpp:237-240`). A worker that takes a task lowers the sum, as `clear` does,
  and neither notifies anybody: a caller with threshold 1 that saw one task pending
  and one worker active sleeps on while that worker runs the task and nothing else
  is left. `WaitEnds` says that its sleep ends if every task does, not that it ends at
  that moment.
* Two shutdown policies are to wait for the termination of the workers
  (`shutdown_policies.hpp:29-30`, `46-47`). `terminate_all_workers` waits until none is
  active and joins those that have ended; a worker that sleeps is neither, and ends
  when the shutdown has returned. `WaitMeansDone` is about the tasks, `AllLeave` about
  the workers' end in the end.

Three runs end in a violation:

* `two_masters`. `commit` and the queue open a slot in Phase II whichever node
  runs them. Two nodes that commit open slot 1 at ballots 65536 and 65537; a
  quorum accepts the first, the same acceptors then accept the second, and the
  logs differ. `Captain::commit` is public and does not look at the master; the
  COMMIT handler does, but after a SET_MASTER value the new master starts at slot 1
  as well, since learning does not advance `max_slot_`.
* `client_ratio`. `test/clients.cpp` offers a write ratio of 10, for which most
  requests are reads and every tenth should be a write. It is `~write_or_read_`,
  and `~` of a `bool` is an `int` that is never 0, so it is a read too.
* `pool_shrink`. `execute_task` compares `m_worker_count` with the target
  (`pool_core.hpp:410`, `420`), and the count goes down only in `worker_destructed`.
  Of two workers that should become one, both may return before either is
  counted out, and the pool is left without a worker.

## 4. What is proved

`SynodProofs` proves about `Synod`, for every finite view of at least two nodes
with 16-bit ids, every set of values, every `MaxBallot`, every `Slow` and
`Teller`:

* `Invariance`: `Spec => []IInv`
* `TypeCorrect`, `BallotsAreUnique`, `ChosenStays`, `ChosenHasQuorum`,
  `SlotAgreement`: the properties `TypeOK`, `OneValuePerBallot`,
  `ChosenIsStable`, `ChosenByQuorum` and `Agreement`.

The assumption that matters is `LeastIdOpens`: a node that opens the slot in
Phase II has the least id of all nodes that propose for the slot (so at most one
node does). Then no ballot lies below its first one, and skipping Phase I is safe.
The shipped configurations meet it as long as node 0, the default master, is the
node that commits; `two_masters` shows what happens otherwise.

Agreement is not inductive. The invariant adds

* of each proposer (`ProposerOK`): its ballot is its own, its value is fixed just
  when it is in Phase II, and then the ballot has been issued with that value;
  `max_ballot_` is below the current ballot and was issued with `max_value_`, also
  across restarts, which keep both;
* of each issued ballot (`IssuedOK`): it belongs to its owner's past or present,
  which gives `OneValuePerBallot`;
* of each acceptor (`AcceptorOK`): its votes were issued, and `max_value_` is its
  highest vote;
* of each promise, under way or recorded (`PromiseOK`): the acceptor keeps it, and
  it tells the acceptor's highest vote below the ballot;
* of each yes to an ACCEPT, under way or recorded: a vote;
* `SafeInv`: for every issued ballot and every ballot of a participant below it,
  some quorum has, at the lower ballot, either voted for the same value or
  promised never to vote. This is the heart: it is what a quorum of promises and
  the choice of the highest reported ballot establish (`HandlePromisePreserves`),
  by induction over the ballots between the reported one and the new one.

`NextIInv` has one step per action. `ChosenIsStable` follows from `SafeInv` as two
quorums meet (`QuorumsMeet`), `Agreement` from that and `OneValuePerBallot`.

`LeastIdOpens`, the other assumptions and `IInv` itself are evaluated by TLC in the
runs of `MCSynod`.

`CaptainProofs` proves about `Captain`, for every view, window, set of values, any
committing nodes, any losses and any bounds: `CaptainTypeCorrect`, `WindowIsKept`
and `CommittedAreAccounted`. It assumes `CaptainAssumption` and what
`SGateTypes` says of nodes. The invariant has three parts.

* `TypeInv` is `TypeOK` with what makes a captain ready for its next message
  (`Ready`): the slots up to `max_slot` have had a proposer and the others have not,
  a proposer has a value of its own and in Phase II one to propose, the log is
  no longer than the slots are many, and `add_callback` has not run past its end.
  `DeliverFrom` is a CHOOSE and `LogWith` grows the log by holes, so types are not
  kept without it.
* `WindowInv`: the window is `WindowKept`, captain by captain.
* `AccountInv`: queue, open slots and answers divide the values a node was given;
  no two nodes were given the same.

`NextEffect` is the lemma in the middle: for all the handlers do, a step either
leaves a captain's work alone (`Works`), or takes a value (`Takes`), or is done
with a slot (`Finishes`: the value is answered and the queue served, or it moves
on). The invariants are then shown for these three effects only.

`LogProofs` is about captains of which one commits (`OneMaster`): any view, window,
values. The hypothesis is needed, `two_masters` is what happens otherwise, and the
programs meet it as long as nobody sets another master.

* `RestartsLoseNoWork` needs no master: nodes that do not commit may be started
  again at any time, and `WindowKept` and `Accounted` still hold of everybody,
  since such a node has neither queue nor proposers (`BystanderInv`).
* `LogIsAgreed`: `LogAgreement`, with any losses and restarts. The invariant
  `MasterInv` says that the master stays at its first ballot and unopposed; every
  acceptor, log, request and answer has what the master's proposer of the slot was
  given, or nothing; and the master tells only what it has chosen. Nothing in it
  refers to what a follower remembers, which is why a restart keeps it.
* `ArrivalOrderKept`: `ArrivalOrder`; the values submitted are those of the slots,
  then those of the queue (`OrderInv`).
* `CaptainsImplementLog`: `ImplementsLog`, with any losses and restarts. `VotesInv`
  relates the history to the captains: what was issued are the master's choices,
  one for each slot up to `max_slot`; votes are for such choices; and a vote that
  an acceptor shows, an answer under way or a recorded yes is in the history, also
  after a restart, so that a chosen slot has a quorum of votes. `DeliveryInv` says
  that logs hold only what the master has chosen and are delivered over no hole. A
  step can then decide only the slot a follower votes in (`HearsDecides`), for a
  value that was submitted (`OrderInv`) and only once. What the master does alone
  decides nothing (`NothingDecided`), as its own vote is one and a quorum at least
  two; it delivers and answers what was decided before.
* `LagIsBounded` and `QuietIsCaughtUp`: `LagBounded` and `CaughtUp`, where nothing is lost
  (`Lossy = {}`) and nothing restarts. Each of them fails if a message may be lost.

With one master a step is one of `MasterStep`: `commit` puts a value into a slot or
into the queue, a follower hears a request, the master records an answer, a
message is lost. `NextMaster` shows that the handlers do nothing else; the other
lemmas are about these. Without losses the connections to a follower are a pipe
(`PipesInv`): slots the master has recorded the follower's vote for, then
the answers under way, then the requests under way are consecutive up to `max_slot`
(`Run`), and the decisions under way are those after the end of the follower's
log up to `last_slot` (`Tells`). Two things follow that make the master's log grow
without holes (`Chain`). An answer that makes a quorum is for the first open slot,
because every follower has answered the slots in order. And a follower always
learns what it is told, because its acceptor has voted in that slot before. So at
most a window of slots is open, and each new request tells the next decision
(`Lag`). A follower that is told what it knows would not answer; `Tells` says that
this does not happen.

`ClientProofs` proves about `Client`, for any clients, servers, sequence of masters,
window, ratio and block size:

* `ClientTypeCorrect`.
* `RequestsAreConserved`, `WritesCommittedOnce`, `WindowIsFull`: `Conserved`,
  `CommittedOnce`, `WindowFull`, if `CountersFit`: a client makes no more requests
  than value ids have room for. The code packs a counter into 32 bits
  (`captain.cpp:456`) and unpacks it (`captain.cpp:213`), so that further requests
  would have the ids of another node; but the client's array `starts_`
  (`client.cpp:17`) has room for 20,000,000, far fewer. `client_window` uses the
  whole span.
* `WriteShareKept`: `WriteRatioKept` for every ratio but 10. `RatioTenNeverWrites` says
  what `client_ratio` shows, for every client: with 10 there are no writes.

`ClientInv` consists of `TypeOK`; `Counted`, in which the number of copies of a request
in all the threads, connections, captains and answers is 1 if the client has made
it and 0 if not; `SoundInv`, that a request reads just if it is not one of the writes,
and that only writes are redirected; `PendingInv`, that captains have nothing but
writes; `HistoryInv`, that what was given to captains is what they have or have
answered. `Counted` is a sum because that is what a step changes: it takes a copy
from one place and puts it into another (`Balanced`), and `OneOfFive` turns a sum of
1 into one place. `CommittedOnce` follows: a captain is given a request only from a
connection, then the captains do not have it, and by `HistoryInv` they never had.
`ProgressInv` adds for `WindowFull` that a client makes a request per answer, and
`SharedInv` for the ratio that each block has one read, at the number drawn for it,
whichever thread makes the request.

`PoolProofs` proves every safety property of `Pool` that a run checks, for any
number of workers, callers and tasks, any sizes and thresholds, each scheduler and
each shutdown policy: `PoolTypeCorrect`, `CountersAgree`, `TasksExecuteOnce`,
`NoStartAfterShutdown`, `WaitReturnsWhenDone`, `TasksStartInOrder`. The assumption is
`PoolAssumption`, of which one part says something of the system: it grants the
pool a finite number of threads at a time. The invariant `PInv` consists of

* `CountedOK`: the counters are the sizes of two sets of threads, those that exist
  and those that do not sleep (`Alive`, `Busy`). Waking, sleeping, leaving and
  creating many threads at once move a known number of elements
  (`OneMoreBusy`, `OneLessBusy`, `OneLess`, `ManyMore`);
* `TaskOK`: a worker has a task just while it runs it;
* `ShutOK`: once the workers are told to end, or a shutdown policy has got past its
  wait, nothing is pending and nobody has a handle to add to it;
* `OnceOK`: pending, assigned, finished and cleared tasks are disjoint and make up
  the scheduled ones, and none is pending twice;
* `OrderOK`: the scheduler keeps tasks in the order of `schedule`, whatever was
  taken from its middle (`WithoutMap`).

`WaitMeansDone` needs three of them: no active worker and no pending task leave no
busy thread (`CountedOK`), hence no assigned task (`TaskOK`), hence only finished
and cleared ones (`OnceOK`).

`FutureProofs` proves `TypeOK`, `GetsResult`, `CancelStops`, `NeverUninitialised` and
`HopelessStays` of `Future` for any threads, any set of results and functions that may
be empty. Its invariant `FInv` says what each flag means to a thread that reads it
without the lock: `ready` that the result is the computed one and the worker is
past storing it; a cancellation in time that the function will not begin any more.
`HopelessStep` has one step per action: only `Store` stores, it comes after the
test of `set_value` alone, and a cancellation before that test keeps the worker
from it.

Only model-checked: the liveness properties, which are out of the prover's reach, as
is ENABLED; and the refinement `ImplementsSynod`, whose proof is still to be written. What a recursive definition computes for every input is
out of reach too; no module here has one that a theorem would be about.

## 5. What is not modelled

* DECIDE, LEARN, TEACH: nothing in the code sends DECIDE, and the others only
  answer it, so their handlers never run.
* What a read returns: any node answers it without looking at the log
  (`captain.cpp:438`), so there is nothing to be right about.
* Clients and log together: `Client` takes the captain's answers for granted, and
  `SET_MASTER` there is not a value of the log. No program creates one.
* A client's statistics (`starts_`, `periods_`, `thr_counter_`), and the socket
  that its two threads share.
* A committing server that stops and comes back: it would open slot 1 again in
  Phase II at its first ballot. Nothing in the code or its texts is about that.
* An application thread that calls `commit` beside the network thread
  (`captain.cpp:88`), and callbacks that commit (`captain.cpp:603`): no program of
  the repository has either.
* Views of one node; a `window_size_` of 0, which queues everything for ever.
* Sockets, serialization, logging, configuration files.
* Return values of the pool's `resize` and of its timed `wait`; `looped_task_func`;
  `schedule` of a runnable, which only binds its arguments.
* `zhelpers.hpp` and the ZeroMQ samples under `test/`, which are not part of the
  system; the `main` functions of server and client.

## 6. Plan

Done: the slot and its proof; the log, the clients, the thread pool and its
futures, with proofs of every safety property that a run checks but one.

Next: the steps of `ImplementsSynod`, for any committing nodes, where nothing is lost
or restarted (`Synod` lets a message wait for ever, but takes none away unhandled).
Its channels are sets, so the proof needs that no two messages of a slot between
two nodes are alike: the answers and then the requests under way have increasing
ballots and phases, up to those of the proposer, and the slots told increase up to
`last_slot`. With that, that only ACCEPTs of first ballots tell anything, and that
the history has every vote an acceptor shows, each handler is mapped slot by slot.
