--------------------------- MODULE ReorderBuffer ---------------------------
(***************************************************************************)
(* The receiving side of message_sequencer.py: ReorderBuffer puts the      *)
(* messages of each (from, to) pair back into the order of their numbers.  *)
(*                                                                         *)
(* Its three methods contain no await that suspends, so each is one step.  *)
(* A buffer, in the code a list sorted by number and then by arrival, is   *)
(* the set of its messages: a message's id is its place in the order of    *)
(* arrival, so the set determines the list.  An empty list and a missing   *)
(* key are the same to every method.                                       *)
(***************************************************************************)
EXTENDS Integers, FiniteSets, FiniteSetsExt

CONSTANTS
    Pairs,             \* the (from, to) keys
    MaxMsgs,           \* bound: number of messages that arrive
    MaxSeq,            \* bound: largest number a message carries
    MaxCopies,         \* bound: messages of a pair that carry one number
    MAX_BUFFER_SIZE, REORDER_TIMEOUT, CLEANUP_INTERVAL, MAX_PAIRS,
    LastArrival,       \* bound: no message arrives after this time
    MaxTime            \* bound: the clock stops here

MsgId == 1..MaxMsgs
SeqNum == 1..MaxSeq

ASSUME ReorderAssumption ==
    /\ Pairs # {}
    /\ MaxMsgs \in Nat \ {0} /\ MaxSeq \in Nat \ {0} /\ MaxCopies \in Nat
    /\ MAX_BUFFER_SIZE \in Nat \ {0}
    /\ REORDER_TIMEOUT \in Nat /\ CLEANUP_INTERVAL \in Nat
    /\ MAX_PAIRS \in Nat /\ LastArrival \in Nat /\ MaxTime \in Nat

VARIABLES
    now,           \* time.monotonic(), from 1
    arrived,       \* how many messages have been handed to deliver
    msg,           \* the pair, number and arrival time of each of them
    buffers,       \* _buffers: the messages a pair holds back
    expected,      \* _next_expected, 1 for a pair it has no entry for
    lastActivity,  \* _last_activity, 0 for a pair it has no entry for
    bufferFull,    \* stats["dropped_buffer_full"]
    batch,         \* history: how many lists of ready messages were returned
    released,      \* history: the list a message was in, 0 if in none
    duplicates,    \* history: messages counted in stats["duplicates"]
    discarded,     \* history: messages thrown away with the buffer of a pair
    forgotten      \* history: value of arrived when a pair was last removed

reorderVars == <<now, arrived, msg, buffers, expected, lastActivity,
                 bufferFull, batch, released, duplicates, discarded,
                 forgotten>>

Arrived == 1..arrived
Message == [pair: Pairs, seq: SeqNum, at: Nat]

\* The order of the list a buffer is in the code.
Before(i, j) == \/ msg[i].seq < msg[j].seq
                \/ msg[i].seq = msg[j].seq /\ i < j

Seqs(S)    == {msg[i].seq : i \in S}
LastSeq(S) == Max(Seqs(S))

\* Mutant: the buffer is not looked at after a delivery.
Drained_None(p, s) == {}

\* What the while loop of deliver pops after number s was delivered: a
\* message goes if those up to it are numbered s + 1, s + 2, ... without a
\* gap and without a copy.
Drained(p, s) ==
    {i \in buffers[p] :
        LET upTo == {j \in buffers[p] : j = i \/ Before(j, i)} IN
          /\ \A j \in upTo : msg[j].seq > s
          /\ \A j, k \in upTo : msg[j].seq = msg[k].seq => j = k
          /\ \A n \in (s + 1)..msg[i].seq : \E j \in upTo : msg[j].seq = n}

\* What a pair expects that _next_expected does not know.
FirstSeq == 1

Count(p, s) == Cardinality({i \in Arrived : msg[i].pair = p /\ msg[i].seq = s})

ReorderInit ==
    /\ now = 1
    /\ arrived = 0
    /\ \E p \in Pairs : msg = [i \in MsgId |-> [pair |-> p, seq |-> 1, at |-> 0]]
    /\ buffers = [p \in Pairs |-> {}]
    /\ expected = [p \in Pairs |-> FirstSeq]
    /\ lastActivity = [p \in Pairs |-> 0]
    /\ bufferFull = 0
    /\ batch = 0
    /\ released = [i \in MsgId |-> 0]
    /\ duplicates = {} /\ discarded = {}
    /\ forgotten = [p \in Pairs |-> 0]

\* A message with number s of pair p is handed to deliver.
Arrive(p, s) ==
    /\ arrived < MaxMsgs
    /\ arrived' = arrived + 1
    /\ msg' = [msg EXCEPT ![arrived + 1] = [pair |-> p, seq |-> s, at |-> now]]
    /\ lastActivity' = [lastActivity EXCEPT ![p] = now]
    /\ UNCHANGED <<now, discarded, forgotten>>

\* seq == expected: deliver it and what follows it in the buffer.
DeliverExpected(p, s) ==
    /\ s = expected[p]
    /\ Arrive(p, s)
    /\ LET ready == Drained(p, s) IN
         /\ buffers' = [buffers EXCEPT ![p] = @ \ ready]
         /\ expected' = [expected EXCEPT ![p] =
                           IF ready = {} THEN s + 1 ELSE LastSeq(ready) + 1]
         /\ batch' = batch + 1
         /\ released' = [i \in MsgId |-> IF i \in ready \cup {arrived + 1}
                                         THEN batch + 1 ELSE released[i]]
    /\ UNCHANGED <<bufferFull, duplicates>>

HasRoom(p) == Cardinality(buffers[p]) < MAX_BUFFER_SIZE

\* seq > expected and there is room: hold it back.
Buffer(p, s) ==
    /\ s > expected[p]
    /\ HasRoom(p)
    /\ Arrive(p, s)
    /\ buffers' = [buffers EXCEPT ![p] = @ \cup {arrived + 1}]
    /\ UNCHANGED <<expected, bufferFull, batch, released, duplicates>>

\* seq > expected and the buffer is full: return all of it, then this one.
\* The two are different lists of the history, since this one comes last
\* whatever its number is.
FlushFull(p, s) ==
    /\ s > expected[p]
    /\ ~HasRoom(p)
    /\ Arrive(p, s)
    /\ bufferFull' = bufferFull + 1
    /\ buffers' = [buffers EXCEPT ![p] = {}]
    /\ expected' = [expected EXCEPT ![p] = s + 1]
    /\ batch' = batch + 2
    /\ released' = [i \in MsgId |-> IF i \in buffers[p] THEN batch + 1
                                    ELSE IF i = arrived + 1 THEN batch + 2
                                    ELSE released[i]]
    /\ UNCHANGED duplicates

\* seq < expected: count it as a duplicate and drop it.
SkipDuplicate(p, s) ==
    /\ s < expected[p]
    /\ Arrive(p, s)
    /\ duplicates' = duplicates \cup {arrived + 1}
    /\ UNCHANGED <<buffers, expected, bufferFull, batch, released>>

Deliver(p, s) == \/ DeliverExpected(p, s)
                 \/ Buffer(p, s)
                 \/ FlushFull(p, s)
                 \/ SkipDuplicate(p, s)

\* buf[0] of a buffer that is not empty.
First(p) == CHOOSE i \in buffers[p] : \A j \in buffers[p] \ {i} : Before(i, j)

\* Mutant: a buffer with a single message is taken for an empty one.
TimedOut_Single == {p \in Pairs : /\ Cardinality(buffers[p]) > 1
                                  /\ now - msg[First(p)].at > REORDER_TIMEOUT}

\* The pairs whose head has waited longer than the timeout.
TimedOut == {p \in Pairs : /\ buffers[p] # {}
                           /\ now - msg[First(p)].at > REORDER_TIMEOUT}

\* Mutant: after a timeout the pair still expects what never came.
ExpectedAfter_Forgets(p) == expected[p]

\* Mutant: one number too many is skipped.
ExpectedAfter_OffByOne(p) ==
    IF p \in TimedOut THEN LastSeq(buffers[p]) + 2 ELSE expected[p]

\* What p expects after check_timeouts.
ExpectedAfter(p) == IF p \in TimedOut THEN LastSeq(buffers[p]) + 1 ELSE expected[p]

\* Mutant: the buffer is returned and not deleted.
KeptAfter_All(p) == buffers[p]

\* What p holds back after check_timeouts.
KeptAfter(p) == IF p \in TimedOut THEN {} ELSE buffers[p]

\* check_timeouts: return every message of the pairs that timed out.
CheckTimeouts ==
    LET ready == UNION {buffers[p] : p \in TimedOut} IN
    /\ buffers' = [p \in Pairs |-> KeptAfter(p)]
    /\ expected' = [p \in Pairs |-> ExpectedAfter(p)]
    /\ batch' = IF ready = {} THEN batch ELSE batch + 1
    /\ released' = [i \in MsgId |-> IF i \in ready THEN batch + 1 ELSE released[i]]
    /\ UNCHANGED <<now, arrived, msg, lastActivity, bufferFull, duplicates,
                   discarded, forgotten>>

Tracked == {p \in Pairs : lastActivity[p] # 0}
Stale   == {p \in Tracked : now - lastActivity[p] > CLEANUP_INTERVAL}

\* What the sort by activity puts first, when too many pairs are left.
Oldest(live, excess) ==
    /\ excess \subseteq live
    /\ Cardinality(live \ excess) = IF Cardinality(live) > MAX_PAIRS
                                    THEN MAX_PAIRS ELSE Cardinality(live)
    /\ \A p \in excess, q \in live \ excess : lastActivity[p] <= lastActivity[q]

\* cleanup_old_pairs: forget the pairs that are idle or too many.
CleanupOldPairs ==
    /\ \E excess \in SUBSET (Tracked \ Stale) :
         /\ Oldest(Tracked \ Stale, excess)
         /\ LET gone == Stale \cup excess IN
              /\ gone # {}
              /\ discarded' = discarded \cup UNION {buffers[p] : p \in gone}
              /\ buffers' = [p \in Pairs |-> IF p \in gone THEN {} ELSE buffers[p]]
              /\ expected' = [p \in Pairs |-> IF p \in gone THEN FirstSeq ELSE expected[p]]
              /\ lastActivity' = [p \in Pairs |-> IF p \in gone THEN 0
                                                  ELSE lastActivity[p]]
              /\ forgotten' = [p \in Pairs |-> IF p \in gone THEN arrived
                                               ELSE forgotten[p]]
    /\ UNCHANGED <<now, arrived, msg, bufferFull, batch, released, duplicates>>

Tick == /\ now < MaxTime
        /\ now' = now + 1
        /\ UNCHANGED <<arrived, msg, buffers, expected, lastActivity,
                       bufferFull, batch, released, duplicates, discarded,
                       forgotten>>

\* A message reaches the router; how often a number is repeated is the
\* environment's choice.
Receive(p, s) == /\ now <= LastArrival
                 /\ Count(p, s) < MaxCopies
                 /\ Deliver(p, s)

ReorderNext == \/ \E p \in Pairs, s \in SeqNum : Receive(p, s)
               \/ CheckTimeouts
               \/ CleanupOldPairs
               \/ Tick

ReorderSpec == ReorderInit /\ [][ReorderNext]_reorderVars

\* The clock advances.  That the loop goes on making its rounds is not assumed.
ReorderFairSpec == ReorderSpec /\ WF_reorderVars(Tick)
-----------------------------------------------------------------------------
(* Properties *)

\* The variables keep to their types.
TypeOK ==
    /\ now \in Nat \ {0}
    /\ arrived \in 0..MaxMsgs
    /\ msg \in [MsgId -> Message]
    /\ buffers \in [Pairs -> SUBSET MsgId]
    /\ expected \in [Pairs -> Nat \ {0}]
    /\ lastActivity \in [Pairs -> Nat]
    /\ bufferFull \in Nat /\ batch \in Nat
    /\ released \in [MsgId -> Nat]
    /\ duplicates \subseteq MsgId /\ discarded \subseteq MsgId
    /\ forgotten \in [Pairs -> Nat]

Buffered == UNION {buffers[p] : p \in Pairs}
Released == {i \in Arrived : released[i] # 0}

\* Every message handed to deliver has met one fate: it is held back by its
\* own pair, it was returned, it was counted as a duplicate, or it went with
\* a pair that was cleaned up; and never two of them.
OneFate ==
    /\ Arrived = Buffered \cup Released \cup duplicates \cup discarded
    /\ \A p \in Pairs : \A i \in buffers[p] : msg[i].pair = p
    /\ Buffered \cap (Released \cup duplicates \cup discarded) = {}
    /\ Released \cap (duplicates \cup discarded) = {}
    /\ duplicates \cap discarded = {}

\* A buffer never holds more than MAX_BUFFER_SIZE messages.
BufferBounded == \A p \in Pairs : Cardinality(buffers[p]) <= MAX_BUFFER_SIZE

\* The number the sender gives a message is not used twice in its pair.
Unique(p) == \A i, j \in Arrived :
                msg[i].pair = p /\ msg[j].pair = p /\ msg[i].seq = msg[j].seq
                    => i = j

\* The messages of p that arrived since the pair was last cleaned up.
Session(p) == {i \in Arrived : msg[i].pair = p /\ i > forgotten[p]}

\* Released in the order of their numbers: inside one list the code keeps
\* that order, so only different lists matter.
InOrder(p) == \A i, j \in Session(p) \cap Released :
                  released[i] < released[j] => msg[i].seq < msg[j].seq

\* What the buffer is for: as long as numbers are unique and no buffer
\* overflows, messages of a pair leave in the order of their numbers, across
\* timeouts too.
ReleasedInOrder ==
    bufferFull = 0 => \A p \in Pairs : Unique(p) => InOrder(p)

\* With unique numbers a message is held back only for one that is missing:
\* what the pair expects is never in its buffer, and nothing older is.
NoneReadyWaits ==
    \A p \in Pairs : Unique(p) => \A i \in buffers[p] : msg[i].seq > expected[p]

\* Whatever is dropped as a duplicate was overtaken: a message with its
\* number or a later one was returned before.
OnlyOvertakenSkipped ==
    \A i \in duplicates : \E j \in Released :
        /\ msg[j].pair = msg[i].pair /\ j < i
        /\ msg[j].seq >= msg[i].seq

\* _reorder_timeout_loop makes a round whenever there is something to release: it
\* catches every exception, but it awaits the push of the round before, whose
\* drains have no limit, so a subscriber that stays slow for ever stops it.
RoundsGoOn == WF_reorderVars(CheckTimeouts)

\* As long as the rounds go on, a message that is held back does not wait for ever
\* for one that was lost: not even when the pair falls silent or is cleaned up.
EventuallyReleased ==
    RoundsGoOn => \A i \in MsgId : i \in Buffered ~> i \notin Buffered
=============================================================================
