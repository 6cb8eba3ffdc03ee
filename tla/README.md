# Verification of the SNIN mesh fabric

TLA+ models, model-checking runs and machine-checked proofs for the message path
of the mesh: how the smart router takes a message in, numbers it, queues it by
priority, writes it to the mesh, puts messages back in order, waits for their
acknowledgement, pushes them to subscribers and keeps them for agents that are offline,
and how nodes agree by RAFT and by PBFT. Every definition is translated
from the Python source; `PROJECT.json` names the lines of each ("map").

    tlc -workers 2 -config MCRaft.cfg MCRaft             # one run
    tlapm Raft_proofs.tla                                # one module of proofs

## 1. The system

The repository is one Python code base for many processes, one asyncio event loop
each, that talk over TCP (lines of JSON or MessagePack), Redis, NATS and Nostr
relays. `ARCHITECTURE.md` names four layers.

| Component | State | Operations | Interacts with |
|---|---|---|---|
| **Smart router** (`smart_router.py`, `router_api.py`, `router_policy.py`) | clients, subscribers, weights and health of channels | `handle_client`, `route_message`, `send_via_channel`, loops for learning, retries, aging, cleanup | everything below |
| &nbsp; deduplicator (`message_deduplicator.py`) | LRU set of keys, `dedup:<key>` in Redis | `is_duplicate`, `cleanup` | intake, push |
| &nbsp; sequencer (`message_sequencer.py`) | `seq:<from>:<to>` in Redis, cached counters; per pair a buffer and the number expected | `next_seq`; `deliver`, `check_timeouts`, `cleanup_old_pairs` | intake, push |
| &nbsp; priority queue (`priority_queue.py`) | three bounded queues | `put`, `get`, `age_messages` | intake, workers |
| &nbsp; mesh channel (`smart_router.py` 640-800, 1160-1356) | connection to the content router, write buffer, breaker | send, flush, reconnect | content router |
| &nbsp; ACK tracker (`ack_tracker.py`) | pending, delivered, failed; statistics in a file | `register_send`, `receive_ack`, retries, cleanup | routing |
| &nbsp; push to subscribers (`smart_router.py` 1963-2300) | the table of subscriptions, sockets, lists of ready messages that tasks work off | subscribe, unsubscribe, push, round of timeouts | sequencer, dead letters |
| **RAFT** (`snin_raft.py`) | term, vote, log, commit index; state file | elections, `propose`, heartbeats, RPC handlers | NATS request/reply |
| **PBFT** (`snin_pbft.py`) | view, log with certificates, water marks | request, three phases, checkpoint, view change | broadcast queue |
| **Cheque book** (`cheque_book.py`) | books and masks of spent cheques, a JSON file | issue, spend, save, load | payments |
| **Dead letters** (`dead_letter.py`, `l5t_middleware.py`) | SQLite table, heartbeats | push, pull, mark, sync | routing, push, the health engine in another process |
| Circuit breaker (`circuit_breaker.py`) | state per channel | request, success, failure | read by the route engine only |
| Discovery, DAO, relays and routers, bridges, sessions, reputation, supervision, agents, dashboards | see "components" in `PROJECT.json` | | |

What is hard in this code is nearly always an `await`. Between two awaits a task
runs alone, so that locks look unnecessary; but state that was read before an
await is used after it (the list of retries, the writer of the mesh, the votes of
an election, the answer of Redis), and the same object is used by a handler per
connection and by several loops. To this come restarts (some state is in a file,
some in Redis, some nowhere), lost and late replies over NATS, numbers that never
come, full queues, and loops that hold messages while they wait.

What makes each component correct:

- *Intake*: a copy is accepted once, only copies are dropped, the numbers of a
  pair are unique and follow the order of a connection.
- *Reorder buffer*: each message is released, held, or counted as dropped, once;
  in order; and what is held is released in the end.
- *Priority queue*: no message lost or doubled by aging, none starves, a critical
  one does not wait behind others.
- *Mesh channel*: order over reconnections, no message written twice or vanishing
  without a fault, recovery whatever breaks.
- *ACK tracker*: one verdict, bounded retries with backoff, honest counters,
  nothing pending for ever.
- *Push*: a subscriber that is slow, dead, new or gone costs no other a message, none
  comes twice, and the order of the buffer survives the writes.
- *Dead letters*: a letter that is marked as delivered was handed over, none stays behind
  or comes twice without a reason.
- *RAFT*: one winner per term, votes survive as far as they are saved, committed
  entries on a majority, applied in order.
- *PBFT*: a number stands for one request on all replicas, in all views; what is
  accepted is executed; a view change takes everybody along.

## 2. The modules

Each component has a module with its state, one action per operation and its
properties; `MC<module>.tla` gives the constants of the runs that need definitions
(symmetry, functions), `MCPbftViews` a schedule; `<module>_proofs.tla` holds the theorems, `Push_proofs` also those
of `ReorderBuffer`. A definition named
`X_Something` before a definition `X` is a plausible bug in `X`, and is used only to
show that a property would notice it.

| Module | Models | Correspondence |
|---|---|---|
| `AckTracker` | `ack_tracker.py`, `ack_retry_loop` | The tables are sets of ids, `entry` the `PendingACK` objects. `GetPendingRetries` makes the list of the loop and starts its first send; `MarkRetry` is the return of an awaited send together with the start of the next. Expiry, ACKs, `cleanup_loop` and a crash, which keeps the statistics of the file, happen in between. |
| `Raft` | `snin_raft.py` | A handler of an RPC is one step. A task of a node (its main loop, or one per proposal) calls its peers one after the other: `StartElection`, `SendHeartbeats` and `Propose` make the first call, and `Reply` or `ReplyLost` do what the code does until its next await. Requests may be lost, or handled after nobody waits for them. `Restart` falls back to the state file. An entry counts how often its command was encoded anew (`coded`): a leader sends the bytes as latin-1 text and the follower stores that text as UTF-8 (`Stored`), which leaves only the commands of `Plain`, those without a byte from 0x80 on, as they were. |
| `ReorderBuffer` | class `ReorderBuffer` of `message_sequencer.py` | A buffer is the set of its messages: sorted by number and by arrival, so that the set determines the list. `Receive` is `deliver` with its four outcomes; `CheckTimeouts` and `CleanupOldPairs` are the loops. |
| `PriorityQueue` | `priority_queue.py`, `_priority_worker`, `_priority_aging_loop` | A step is a run of a task up to an await that suspends. The three getter tasks of `get` may take a message each before their worker wakes (`GetterTakes`, `Wake`). The aging loop moves one message a step; unless it waits for room, no other task runs meanwhile (`LoopFree`). |
| `MessageIntake` | `is_duplicate`, `next_seq` and their calls in `handle_client` and `_push_to_subscribers` | Routers share a Redis. A handler is suspended in each call; the call takes effect, or fails before or after it did. Keys and the counter have their times to live. |
| `MeshChannel` | the mesh part of `send_via_channel`, `_reconnect_mesh`, the flush of `self_learning_loop`, the breaker of `router_policy.py` | `Send` runs to the drain, which ends by `DrainOk` or `SendFails`; reconnections are counted by their next attempt, and the connections are numbered. A broken connection swallows what is written until a drain reports it. The push of a sent message to the subscribers, awaited after the drain (798-800), touches neither buffer nor writer and is left to `Push`. |
| `Push` | `_push_to_subscribers`, `_push_single`, `_reorder_timeout_loop`, subscribe, unsubscribe and the end of `handle_client` | Extends `ReorderBuffer`: an event handed to the buffer (`PushEvent`) and a round of the loop (`LoopRound`) are steps of both, and a worker of the priority queue that sends a message to the mesh hands it over a second time (`PushSent`). What the buffer returns is written message by message, subscriber by subscriber (`WriteNext`), by the task that called it. `running` is the task that has the event loop; a write gives it up only if its drain waits. |
| `DeadLetters` | `L5TMiddleware`, `HeartbeatTracker`, `DeadLetterQueue` and their calls in `route_message`, `handle_client` and `dlq_sync` of the health engine | A sync is a handler of the router (`Subscribe`) or a call of the health engine (`CallSync`), with one table and two processes. `SyncStart` reads, `Mark` is the return of the relays and the marks, `Hand` the write, `MarkFails` an error of SQLite in the middle of the marks; between `Mark` and `Hand` its process does nothing else (`Free`), but the other process, a broken connection (`Lose`) or a crash (`Restart`) may come. |
| `Pbft` | `PBFTReplica` and the broadcast of `PBFTCluster` | A handler is one step, as nothing it awaits suspends. The first message of the queue goes to each replica in turn (`turn`); once begun, the delivery goes on until the queue is empty. An absent log entry is one without a digest. |
| `ReplicatedLog` | nothing in the code: what a consensus promises | `Pbft` maps to it by what its replicas accepted and executed (`Log`), and the run `pbft` checks, and `ImplementsLogHolds` proves, that each of its steps is a step of this log, or none, until a request and a view change mix. |

`Push` contains `ReorderBuffer`, `Pbft` maps to `ReplicatedLog`; the others share no
variables. `MessageIntake` gives each message the number by which `ReorderBuffer` sorts,
decides which events `Push` is handed, and puts what `PriorityQueue` holds;
`MeshChannel` is one of the channels whose sends `AckTracker` counts.

## 3. The runs

Runs marked *violation* show a disagreement of the code with what its own text says.

| Run | Question | Result |
|---|---|---|
| `ack` | All interleavings of two messages with one event id, ACKs, the two loops, the clock and a crash | Accounts add up, one verdict, retries bounded and spaced by the backoff although the list is stale, each entry settled |
| `raft` | Three nodes: two terms, two elections, late and lost requests, one restart; or one leader of one term, with two proposals and heartbeats that overwrite each other's `next_index`, and one command that the transport changes | One winner per term while no node restarts; always with a majority of votes; a saved vote is honoured. While one node is elected: logs are prefixes of its log but for the bytes of such a command, committed entries on a majority, applied in order and once |
| `raft_apply` (violation) | "Register a callback for committed log entries" (`snin_raft.py:175`) | A follower learns that an entry is committed and never gives it to its callbacks |
| `reorder` | Two pairs, four messages, numbers lost and repeated, full buffers, timeouts, cleanup | One fate each; in order while numbers are unique and no buffer overflows; a number is skipped only if one after it was released; released in the end, as long as the loop makes its rounds |
| `priority` | One worker with its three getters, queues of two places and three messages at a time, so that puts and moves of the aging loop may wait; critical messages without end | Each message in one place; at most one lower message is started while critical ones wait; while no put has waited, queues stay oldest first and no message starves |
| `intake` | Two routers, one Redis, two keys, memories of one key, one failed call or restart, expiry of keys and of the counter | Copies accepted once; numbers unique and in order while Redis answers and the counter does not run out; only copies dropped |
| `intake_push` (violation) | Each event is pushed to the subscribers (`smart_router.py:2122`) | The event has the key of its own message, and is dropped as a copy of it |
| `push` | A sender that may subscribe, a worker that hands the same numbers over again, another subscriber, the loop of timeouts; three messages in any order, two subscriptions, one socket that becomes slow and one that is lost | Nobody is left out unless an exception cut the list off; nobody is served twice, not even what was handed over twice, unless the number came again while it was held back; a message overtakes only those whose push was suspended when it came, everything is pushed in the end |
| `dead_letters` | One agent, two connections to the router and one to the health engine, two letters, one fault, any `since` | What is marked was handed over, is in hand, or was in hand at a fault; nothing comes twice but by overlapping syncs or a letter of the very second named; nothing stays behind |
| `pbft` | Four replicas, requests and view changes in any mixture | They implement a replicated log; what is accepted is executed while requests and view changes do not mix; a view change leaves its last voter behind at most |
| `pbft_views` (violation) | "Replicas agree on ordering" (`snin_pbft.py:12`) | Two of four correct replicas execute different requests under number 0 |
| `mesh` | Two senders, reconnections, learning loop, two faults | In order and once on the connections; nothing vanishes unless something broke; the channel recovers; the buffer is written while there is a connection |

**Bounds**, and why the interesting cases happen within them. Two messages with one
event id are the least that an ACK can confuse; the clock of `ack` reaches expiry, the
backoffs and the cleanup. Three nodes are the least with majorities that are not
everybody, and two terms the least for a vote to be overtaken; `MaxLate = 1` gives a
late request of an old campaign. The constraint `ElectionsOrProposals` of `MCRaft` keeps the two
halves of `raft` apart, as their product is too large: once something is proposed, one node was the
only candidate, in one term, nobody restarted, no request is late (before, only requests for votes are), and two of the leader's tasks wait for replies at a
time, the least that overwrite each other. The theorems have no such limits. `raft_apply` needs one term, one
command and nothing lost. Four messages in two pairs fill a buffer of two and
then overflow it, or leave a gap, and `MAX_PAIRS = 1` makes cleanup run. Three
messages overfill a queue of two, so that a put of a client and of the aging loop waits,
and `waited`, a history variable of `MCPriorityQueue`, says when; ids of messages are used
again, so that the number of messages is not bounded. More workers are left to the proofs,
which cover both invariants for any number of them and any size. Memories of one key make each second key an
eviction, and a time to live of two ticks lets a key expire while another is checked; the
counter's, of three, lets it run out between two messages.
In `mesh` two faults allow a break and a slow drain at once, and `MaxConns = 8` is
never what stops a reconnection: each success needs one task, and tasks come from
refused messages and failed sends. In `push` a slow socket holds one list while the
worker or the loop works off another, which is the least for an overtaking, and a
lost socket found by two tasks is what makes `_push_single` raise; the clock may end
before the last held message is overdue, and `ClockStops` names that case. In `pbft`
four replicas are the least with `f = 1`; `MaxCalls = 4` bounds requests and view changes
together, and the window of two (100 in the code) refuses the third request; its
interval is the same, as in the code. The disagreement of `pbft_views` takes eight requests
for one number and eight views, out of reach of that search: `MCPbftViews` makes
the calls in the order of a fixed schedule, so that the run follows one behaviour of `Spec`
through sixteen deliveries, with bounds that admit all of it. The numbers of a replicated log are the requests
accepted, `MaxRequests`. In `dead_letters` two seconds tell a letter of the second that a
caller names from an earlier one, a third task makes syncs of one process and of two
overlap, and one fault at any moment is enough for each kind of loss; letters of different
agents share nothing but the table. Symmetry is used only where all properties are
invariants, or speak of single steps, and the permuted constants occur symmetrically.

Deadlock is not checked (`CHECK_DEADLOCK FALSE`) where a bound stops the behaviour:
the clock, or the number of messages or calls. The priority queue and the dead letters have no
such bound, or go on after it, and their runs check it.

**Fairness.** `AckTracker`: time passes, and the loop that looks for what is overdue is
scheduled. `ReorderBuffer`: time passes. That rounds of its loop go on is no fairness the code
guarantees, since a round awaits pushes whose drains have no limit: it is the premise `RoundsGoOn`
of `EventuallyReleased`, and what it asks of the subscribers is spelled out in `Push`. `Raft`, in
`raft_apply` only: the leader goes on with its heartbeats, requests that are there are handled, and
replies resume their tasks, so that it is not for want of a step that followers apply nothing. `PriorityQueue`: strong fairness for workers and for time, since they are disabled
only while the aging loop runs, which it does for a bounded time; clients need not put
anything. `Push`: a task that can run runs, time passes, the loop makes its rounds (it
catches every exception), an awaited drain that can return does, and a slow peer catches
up or is lost: that is asked of the peers, since the code waits for a drain without a
limit. `MeshChannel`: awaits and sleeps end, the content router is started again,
and a reconnection makes its next attempt (weak); clients go on sending, also in the
moments in which the channel is not blocked, and not each round of the learning loop
ends in an exception of its other parts (strong: `Send`, `Refuse`, `LearnFlush`).
`DeadLetters`: each await for the relays ends, as every read of a relay has a limit (a relay
that sends events without end is excluded); strong, since another task of the process may
be between its marks and its writes. That agents subscribe again and again is a premise of
`NoneStaysBehind`, and no fairness.

## 4. The proofs

All hold for every value of the constants allowed by the module's assumption.

- **`AckTracker_proofs`**: `TypeCorrect`, `RetriesAreBounded`, `BackoffIsRespected`,
  `AccountingHolds`, `OneVerdictHolds`. The two about retries rest on `RetryInv`: only
  the retry loop changes a retry count, so an entry of its old list stays due, and a
  message was sent as often as it was retried, plus once while its send is awaited.
  `Accounting` needs that ids are registered once, `OneVerdict` that an id with a
  verdict is no longer pending.
- **`Raft_proofs`**: `RaftTypeCorrect`, `WinnerHasMajorityHolds`,
  `OneWinnerPerTermHolds`, `SavedVoteHonouredHolds`, `TermsAndVotesHolds`, for any
  number of nodes, terms, restarts and late messages. `ElectionInv` consists of the types,
  of `Queues` (a live request belongs to the one call that waits for it, so that a reply
  is taken for the request it answers), of `Tasks` (what a task remembers of its campaign)
  and of `Campaigns` (a vote that was counted was given, in that term, to that
  candidate). `WinnerHasMajority` follows; two winners would share a voter, since two
  majorities do, and a voter that did not restart gives one vote per term (`VotesKept`).
  `VoteStep` is the form of every step but a restart, shown once per action, from which
  the two action properties and `SavedKept` (the state file never says more than the
  node knows) are taken. `LogsFollowLeaderHolds`, `CommittedOnMajorityHolds` and
  `AppliedInOrderHolds` are about the executions in which one node is elected, in as many
  terms as it likes (`OneLeader`), also when a candidate deposes it in the middle of a round
  and it goes on in the term of that candidate. None of the three is inductive:
  `ReplicationInv` adds that only who won ever sends entries (`SendersWon`), that the
  requests under way to a peer carry entries of the sender's log, none ends before the log
  of the peer does, and a later one not before an earlier one (`Ordered`), so that a request
  that matches shortens no log, that no answer on its way and no
  `match_index` says more than its peer has (`Reports`), and that nobody commits more than
  the leader did (`Commits`). The log of a follower is not a prefix of the leader's but of what the
  transport makes of it (`Copied`), from which `SameEntry` follows.
- **`Pbft_proofs`**: `OnlyLastVoterLagsHolds`, for any number of replicas, any window that does not exceed the interval, any requests and views;
  `AcceptedIsExecutedHolds` and `ImplementsLogHolds`, for four replicas or more (`N >= 4`: the
  header's `3f + 1` with a fault to tolerate; one replica alone executes nothing).
  `WindowInv`: only numbers of the first window have entries, as both handlers that make
  one look at the water marks, so that no execution is an interval after the checkpoint.
  `OnlyLastVoterLags` speaks of the moments when the
  queue is empty; `LagInv` says what holds in between, of `top`, the highest view voted for:
  a replica has counted the vote of another or `Awaits` it (`Counted`), whoever is in `top`
  has a quorum and whoever is not has none, unless its own vote made it (`Entered`), and of
  two such replicas each awaits the other (`LastVoter`). A vote for the next view is cast
  only after all for `top` were delivered (`Calm`), which is why the invariant survives
  the change of `top` (`LagOpen`), and `Behind` is what remains of the view before.
  `AcceptedIsExecuted` and the refinement rest on `OrderInv`: `mixed`, or there is a view `W[n]`
  in which each number `n` was given out, such that (`Unmixed`) the messages in the queue are in
  the order of their phases and, within a phase, of their numbers (`Phased`); they carry the
  request that was accepted under their number (`Genuine`), as the entries do (`Entries`);
  each replica has executed a prefix of what was accepted (`InOrder`); and whatever a
  replica has not recorded of a number is still on its way to it (`Carried`: `PrePrepared`,
  `PreparesCome`, `CommitsCome`), whatever completed a quorum was acted upon
  (`QuorumsActed`). When the commit that completes a quorum is taken, those of the smaller
  numbers were taken before, since the phases stay in order (`PhasedMoves`): so the
  numbers are executed in order, and once the queue is empty all are (`Finished`). A view
  change begins with no request under way and the same history everywhere, which is why the new
  primary goes on with the right number. `ImplementsLog` follows step by step: a request is
  `Log!Request`, an execution `Log!Apply`, every other step a stutter. Nothing is claimed of
  what follows once a request and a view change were under way at once, or a request was accepted
  while the replicas were in different views (`mixed`): `pbft_views` shows that agreement then fails.
- **`PriorityQueue_proofs`**: `PriorityTypeCorrect` (queues never exceed `MaxSize`),
  `CriticalOvertakenOnceHolds`, `InOnePlaceHolds` and `OldestFirstWithRoomHolds`. `OvertakenInv`: while the critical
  queue is empty, or a worker waits, it has overtaken nobody. `PlaceInv` is about holders
  (a queue, the puts that wait, the two lists of the aging loop, a worker): no two share a
  message (`Apart`), none has one twice (`Once`), together they hold what is accepted
  (`Whole`), and where a step overwrites, nothing was held (`Empty`). Every step then
  moves, adds or removes, and `MoveKeeps`, `AddKeeps` and `RemoveKeeps` are shown once.
  `OldestFirstWithRoom` is proved of `MCSpec`, the specification with the history variable
  `waited` that the run checks. `RoomInv`: unless a put waited, the messages that the aging
  loop has taken out are older than what is left of the queue it reads, and after the turn
  newer than what it has put back (`AgingOrder`).
- **`MeshChannel_proofs`**: `MeshTypeCorrect`, `MeshInOrder` and `NoneVanishesHolds`.
  `InOrder` alone is not inductive: a write to an older connection would break it.
  `OrderInv` adds that the writer, if there is one, is the last connection made, that
  those not made yet are empty, and that no number exceeds `sent`. Which task gives up
  which writer then does not matter. `KeptInv` adds to `NoneVanishes` that until
  something breaks each connection made is alive.
- **`MessageIntake_proofs`**: `NumbersOfPairHolds`, `AcceptedOnceHolds` and
  `DuplicatesAreCopiesHolds`, for any number of routers, connections, keys and restarts. `Counted`: the counter is not below a number
  it gave, unless it has run out since (`RanOutAfter`), which it does `SEQ_TTL` after the last
  EXPIRE (`Refreshed`); `Unlike` extends `NumbersOfPair` to the numbers that are under way. `CopiesInv`: a key
  stays in Redis for `DEDUP_TTL` after it was created and after its message was accepted,
  which needs that an EXPIRE call does not last as long. Neither depends on what the
  routers remember. `DuplicatesAreCopies` does: by `OriginalsInv` a key in the memory of a
  router is of a message that was accepted or is being handled (`Memories`), and one in Redis was
  accepted or put there by a handler that has not finished (`Shared`, `Answers`), unless a
  restart took the handler away.
- **`Push_proofs`**, of the reorder buffer: `ReorderTypeCorrect`, `OneFateHolds`,
  `ReleasedInOrderHolds`, `NoneReadyWaitsHolds`, `OnlyOvertakenSkippedHolds`,
  `BufferBoundedHolds`. `FateInv` says what the books of a message are; `Moves` is the
  form every operation has, so that it is shown once to keep them. `OrderInv` adds that
  what is released has a number below the one expected while numbers are unique and no
  buffer overflowed. `SkippedInv` adds `Backed`: the number a pair expects follows one
  that it released.
- **`Push_proofs`**, of the composition: `PushedOnceHolds`, `NoneLeftOutHolds`,
  `OvertakesOnlySuspendedHolds`, for any number of
  connections, subscriptions, pairs and messages. `PushedOnce` takes `FateInv` from
  the buffer, since every step of `Push` is a step or a stutter of the buffer
  (`BufferStep`): what a call returns was not returned before (`FreshIsNew`). `PushInv`:
  a released message is in the hands of one task at most, and what that task may still
  write (`Due`) is on no subscription's wire. `SubscribersOnce` shows that the list a
  task goes through names each subscription once. The second part of `PushedOnce`, about two
  hand-overs with one number, is `NumbersOnce`: what a pair holds back is above the number it
  expects and what it released is below, with no number twice in either (`OnceOf`), as long as
  none came while it was held back. `AudienceInv` gives `NoneLeftOut`: what was
  released is in the hands of a task, pushed or aborted (`Accounted`), aborts and connections
  that are gone need a loss (`Losses`), and a subscription of the audience was reached by a
  message or is among those that its task has still to write to (`Delivered`).
  `OvertakeInv` rests on `ReleasedInOrder`: while no buffer overflowed, what follows a
  message in its pair, and came when that one was not in the hands of a task, is behind it in
  its list (`HandOrder`); `cleanup_old_pairs` is no step of `Push`, so that the numbers a
  pair expects are never set back (`NoneForgotten`).

- **`DeadLetters_proofs`**: `NothingForgottenHolds`, `OnceUnlessTogetherHolds`, for any
  number of agents, letters, tasks, connections and faults. `LettersInv` adds to the two
  that a sync holds letters of its own agent and has marked what it is about to write
  (`OwnLetters`), that two syncs of an agent are on record in `together` (`OneSync`), and
  that what one of them holds was not handed over before, but for the second that its caller
  named (`GivenOnce`).

Every invariant, action property and refinement that a passing run checks is stated by a
theorem. Only model-checked: liveness, since fairness is out of the prover's reach:
`EventuallySettled`, `EventuallyReleased`, `NoStarvationWithRoom`, `AllTaken`,
`BufferIsWritten`, `EventuallyPushed`, `NoneStaysBehind`. The types of
`AckTracker`, `PriorityQueue` and `MeshChannel` are only proved. No module declares a
`RECURSIVE` operator.

## 5. What was learned

Besides the findings, these are differences between code and text, or limits of
what the properties say, seen while modelling.

- *ACK*: `ack_tracker.py:7` promises a retry without an ACK; the loop may also send one
  that was acknowledged while it awaited another (`smart_router.py:1449`).
- *RAFT*: a candidate counts its votes over awaits and looks at neither its role nor its
  term in the end (`snin_raft.py:239`): it may become a second leader of a term it only
  heard of, against "One leader handles all writes" (11). A *winner*, in the properties,
  is one whose votes were of the term it campaigned in. Votes are saved only by leaders and at a stop, so that with a restart two
  nodes may win a term, hence `restarts = 0` in `OneWinnerPerTerm`. A deposed leader goes
  on with its round in the term of its successor (`snin_raft.py:277`). `_handle_append_entries`
  advances the commit index (350) and never calls `_apply_committed`, so that only the
  callbacks of leaders run, against "Register a callback for committed log entries" (175) and
  "Apply committed entries to state machine" (382): the run `raft_apply`. A command goes
  over the network as latin-1 text (477) and is stored by the follower as UTF-8 (345), so that each byte from 0x80 on becomes two:
  the logs agree on such an entry in term and command, and not in its bytes, and a follower that is elected
  later sends it on changed once more. Hence `SameEntry` in the two properties about logs. `NatsTransport`
  does not define the `add_subscription` that the engine calls.
- *Reorder*: `check_timeouts` looks at the message with the lowest number, not at the
  oldest (`message_sequencer.py:183`). A message that comes after its timeout is dropped
  and counted as a duplicate (94, 168). A full buffer is released out of order with what
  came (151-154): the condition `bufferFull = 0` of `ReleasedInOrder`.
- *Priority*: `get` drops the message of a second getter that was done in the same turn
  (`priority_queue.py:117`); `InOnePlace` is about the messages that are not `lost` so. The weighted round robin 5:3:1 of the header (`priority_queue.py:9`,
  52-54) does not exist. Queues are oldest first only while no put waits for room.
- *Intake*: after a failure of Redis numbers go on from the cache and may repeat. The
  counter of a pair lives 24 hours after its last message (`message_sequencer.py:62`): a pair that
  was silent for a day begins at 1 again, though Redis answers (`AnewBetween`), while a reorder buffer that
  has not forgotten the pair still expects the number after its last. A
  message that a restart interrupts between `SADD` and its acceptance is refused when it
  is sent again, for the time to live of the key, or for ever if it got none.
- *Push*: when two tasks find the same subscriber dead, the second `del` raises
  (`smart_router.py:2252`; 2011 and 2111 use a `pop` that does not): the rest of its list
  is pushed to nobody, and if the task is a handler its client is disconnected. A message
  that is sent while nobody subscribes is not handed to the buffer at all, so that its
  number is missing later. The list that a message completes excludes the connection of
  that message for all the others in it. Who subscribes twice gets everything twice, and
  any client may end any subscription by its number. One slow subscriber stops the loop of
  timeouts, for all. `send_via_channel` pushes a message it sends to the mesh, which the handler of the client has
  pushed before (798-800), without excluding the sender. What has been released is then dropped as a duplicate, but a
  number that comes again while it is held back is held twice: one copy of it leaves, the other
  stays at the head of the buffer until a timeout releases it too, and sets the number expected back to the one after it
  (`doubled` in `PushedOnce`).
- *PBFT*: the primary refuses numbers from `high_water` on (100), and a checkpoint is made
  when one at least 100 is executed (`snin_pbft.py:393`): none ever is, and the cluster
  stops after 100 requests, against "every K requests" (180) and "Wait for checkpoint to advance" (251). A replica does not count its own vote for a view, so the last
  voter stays in the old one with `view_change_active` set, and cannot vote again. A quorum
  of 2f+1 prepares has to come from the 3f backups, since the primary sends none, against "including our own" (218): with four replicas one that is silent
  stops everything, against the tolerance of f named in the header (8) and in the self-test (637-641). Requests that are
  under way during a view change are lost, or executed by some replicas only; hence
  `mixed`. A fourth vote re-enters the view and resets the next number. Nobody handles
  NEW-VIEW or verifies a signature; backups execute a dummy made of the digest. `f` is `(N - 1) // 3` for any N (490), but only the header
  says that N is `3f + 1` (8): with six replicas two quorums of three need not intersect. While
  nothing mixes that does no harm, as `ImplementsLogHolds` says. When it does mix, agreement
  fails with four correct replicas (run `pbft_views`): the new primary starts again at
  `last_executed + 1` (465) and reads no certificate of the votes, `handle_request` replaces the
  entry of that number and the commits in it (255), a backup keeps the one it has (293), and
  commits are counted over all views. All this
  holds for the lockstep delivery of `PBFTCluster`, the only one there is.
- *Dead letters*: letters are marked as delivered before any is written, where the comment
  says after (`l5t_middleware.py:217`): what is in hand when a connection or the router
  fails, or what is marked when SQLite fails at one of the marks, is lost, the third case of `NothingForgotten`. Two syncs for an agent hand out the
  same letters, as each reads them before the other marks them. `pull` compares
  `created_at > since` and `_get_local_undelivered` `>=` (`dead_letter.py:376`, 545), so that a
  letter of the very second is returned and not marked (`edge`). A heartbeat counts what
  waits but delivers nothing: a letter that came after its agent subscribed, and while no
  heartbeat was known, waits for the next subscription; hence the premise of
  `NoneStaysBehind`. What a relay returns is hashed with the key of the bridge as sender and
  the sender as receiver (`_event_to_message`), so that it is never recognised as a letter of
  the table and comes again with each sync, and the filter `#p` also returns letters the
  agent sent. The queue the router falls back to has no private key
  (`smart_router.py:1773`), so that its push refuses everything and nothing is stored; the
  list of relays is in a module that is not in the repository, and without it no sync waits.
  `purge_expired` and the heartbeat's `check_timeouts` have no caller.
- *Mesh*: the pending queue that shall keep messages over a break
  (`smart_router.py:781`) is always empty, since unpacking the buffer raises; what a
  failed drain had written is reported as sent. `GiveUp` closes a writer that another
  task has just opened (669-671). The "successes in a row" of the breaker (212) count
  over failures. When all channels are blocked the log says that mesh is forced (1673),
  and the send is still refused (751).
- *Degradation*: `graceful_degradation.py:248` subtracts a number from a list, and its
  check always raises.

## 6. Not modelled

`PROJECT.json` lists each component with its reason: cryptography (computational),
adapters that are I/O, scores and graphs (numerical, without concurrency of their own),
applications and user interfaces. In the modelled components these are left out: texts,
logs and counters without effect; the choice of a channel (any channel may be chosen, or
be blocked); formats of messages, but for what their conversion does to the mesh buffer;
process boundaries inside Redis, which executes a command in one step.

In `Push` the marketplace handlers are left out (`smart_router.py` 2003-2011, 2104-2111): they look for a
record in the table of subscriptions, which has a name in that place, and raise when
anybody has subscribed.

Hazards without a property (`PROJECT.json` has their lines) are those in which the code simply does
what the hazard says, so that a property could only repeat it: a restart between the dedup key and
the acceptance; an ACK entry that expires between the two passes and is counted nowhere
(`Accounting` is an upper bound); a candidate that takes the lead of a term it did not campaign in
(`elected` records the term it did); the message of an unclaimed getter (a place of its own in `InOnePlace`);
the checkpoint that PBFT never makes, and the silent backup that stops it. Section 5 describes them.
The rest of a round of AppendEntries after its sender was deposed is not in the run `raft`, which
replicates in one term, but in the theorems about its properties. A block of the mesh channel can also
be lifted early by a drain that was under way; the code states no least length of a block.

## 7. Plan

Done: ACK tracker, RAFT, reorder buffer, priority queue, intake, mesh channel, push, PBFT
with its abstract log, dead letters, and the proofs of section 4. Left, in this order:

1. The flush of dead letters as a part of `Subscribe` in `Push`.
2. Broadcasts and events without a number in `Push`, which bypass the buffer.
3. Further abstract specifications and refinements: an ordered lossy channel
   (`MeshChannel`), an ordered release (`ReorderBuffer`), one verdict (`AckTracker`).
4. `route_message`: fallback over channels, with the breaker. `ChequeBook`: issue, spend,
   save and reload with crashes.
5. Proofs: step simulations for the specifications of 3.
