--------------------------- MODULE MessageIntake ---------------------------
(***************************************************************************)
(* What handle_client of smart_router.py does with a message between       *)
(* reading it and queueing it: the check for duplicates                    *)
(* (message_deduplicator.py), the number of the message in its pair        *)
(* (SeqNumTracker of message_sequencer.py), and the check for duplicates   *)
(* that its event goes through before it is pushed to the subscribers.     *)
(*                                                                         *)
(* Several routers share one Redis.  A handler is suspended in every call  *)
(* to Redis, and runs without interruption between two calls.  The call    *)
(* takes effect when Redis executes it; it fails when it is not executed   *)
(* or when its answer does not arrive in time.                             *)
(*                                                                         *)
(* All messages are of one (from, to) pair: Redis and the routers keep the *)
(* numbers of different pairs apart.  They have a sender and a payload, so *)
(* that a message and its event have the same dedup key.                   *)
(***************************************************************************)
EXTENDS Integers, Sequences, FiniteSets, SequencesExt

CONSTANTS
    Routers,
    Connections,       \* the clients' connections, one handler each
    RouterOf,          \* the router of a connection
    Keys,              \* the dedup keys: sender, receiver and payload
    MAX_KEYS,          \* capacity of the in-memory set of a router
    DEDUP_TTL,
    SEQ_TTL,           \* how long Redis keeps a counter that nobody uses
    SOCKET_TIMEOUT,    \* how long a call to Redis may take
    MaxMessages,       \* bound: no message is read when so many are accepted
    MaxFaults,         \* bound: number of failed calls and of restarts
    MaxTime            \* bound: the clock stops here

ASSUME IntakeAssumption ==
    /\ RouterOf \in [Connections -> Routers]
    /\ MAX_KEYS \in Nat \ {0} /\ DEDUP_TTL \in Nat \ {0}
    /\ SEQ_TTL \in Nat
    /\ SOCKET_TIMEOUT \in 0..(DEDUP_TTL - 1) /\ SOCKET_TIMEOUT < SEQ_TTL
    /\ MaxMessages \in Nat /\ MaxFaults \in Nat /\ MaxTime \in Nat

VARIABLES
    now,
    local,       \* _local of each router: keys with their times, oldest first
    dedup,       \* Redis dedup:<key>: when it expires
    counter,     \* Redis seq:<from>:<to>
    counterEnds, \* when it expires
    cached,      \* _counters of each router
    task,        \* where the handler of each connection is
    accepted,    \* history: the messages accepted as new, in that order
    unpushed,    \* history: those whose event was dropped as a duplicate
    failures, restarts

vars == <<now, local, dedup, counter, counterEnds, cached, task, accepted,
          unpushed, failures, restarts>>

Absent == 0               \* there is no such key in Redis
Never  == MaxTime + DEDUP_TTL + SEQ_TTL + 1   \* the key has no time to live

Ready == [stage |-> "ready", what |-> "message", key |-> 0, since |-> 0,
          new |-> FALSE, seq |-> 0, msg |-> 0]

Init ==
    /\ now = 1
    /\ local = [r \in Routers |-> <<>>]
    /\ dedup = [k \in Keys |-> Absent]
    /\ counter = 0 /\ counterEnds = Absent
    /\ cached = [r \in Routers |-> 0]
    /\ task = [c \in Connections |-> Ready]
    /\ accepted = <<>>
    /\ unpushed = {}
    /\ failures = 0 /\ restarts = 0

Holds(k)    == dedup[k] > now
InLocal(r, k) == \E i \in DOMAIN local[r] : local[r][i].key = k

\* LRUDedupSet.add: the key becomes the youngest, and the oldest gives way to
\* a new one.
Added(s, k) ==
    LET known == {i \in DOMAIN s : s[i].key = k}
        room  == IF known # {} THEN RemoveAt(s, CHOOSE i \in known : TRUE)
                 ELSE IF Len(s) >= MAX_KEYS THEN Tail(s) ELSE s
    IN Append(room, [key |-> k, at |-> now])

\* LRUDedupSet.cleanup_old: the times are in order, the old keys come first.
Recent(s) ==
    SubSeq(s, Cardinality({i \in DOMAIN s : now - s[i].at > DEDUP_TTL}) + 1, Len(s))

\* A duplicate: the message is refused, or the event reaches no subscriber.
Dropped(c, t) ==
    /\ task' = [task EXCEPT ![c] = Ready]
    /\ unpushed' = IF t.what = "event" THEN unpushed \union {t.msg} ELSE unpushed

\* The first part of is_duplicate, for the message or the event of connection
\* c: a key that is known is a duplicate (and every 100th check cleans up), a
\* new one is looked up in Redis.
Check(c, t) ==
    LET r == RouterOf[c] IN
      IF InLocal(r, t.key)
        THEN /\ \E s \in {Added(local[r], t.key), Recent(Added(local[r], t.key))} :
                  local' = [local EXCEPT ![r] = s]
             /\ Dropped(c, t)
        ELSE /\ local' = [local EXCEPT ![r] = Added(@, t.key)]
             /\ task' = [task EXCEPT ![c] = [t EXCEPT !.stage = "add",
                                                      !.since = now]]
             /\ UNCHANGED unpushed

\* A message is read from connection c.
Receive(c, k) ==
    /\ task[c].stage = "ready"
    /\ Len(accepted) < MaxMessages
    /\ Check(c, [Ready EXCEPT !.key = k])
    /\ UNCHANGED <<now, dedup, counter, counterEnds, cached, accepted, failures,
                   restarts>>

\* is_duplicate returns True after the answers of Redis.
Duplicate(c) == Dropped(c, task[c]) /\ UNCHANGED accepted

\* is_duplicate returns False: the message is accepted and gets a number, or
\* the event is handed on to the subscribers.
Unique(c) ==
    /\ IF task[c].what = "message"
         THEN /\ accepted' = Append(accepted, [key |-> task[c].key, by |-> c,
                                               at |-> now, seq |-> 0])
              /\ task' = [task EXCEPT ![c].stage = "incr", ![c].since = now,
                                      ![c].msg = Len(accepted) + 1]
         ELSE /\ task' = [task EXCEPT ![c] = Ready]
              /\ UNCHANGED accepted
    /\ UNCHANGED unpushed

\* Mutant: a message is dropped when Redis does not answer.
Unchecked_Dropped(c) == Duplicate(c)

\* is_duplicate catches the exception: the in-memory set has decided.
Unchecked(c) == Unique(c)
-----------------------------------------------------------------------------
(* The calls to Redis.                                                     *)

\* A call of connection c at a stage that is answered.
Answered(c, stage) ==
    /\ task[c].stage = stage
    /\ UNCHANGED <<now, cached, local, failures, restarts>>

\* A call of connection c at a stage that fails.
Fails(c, stage) ==
    /\ task[c].stage = stage
    /\ failures + restarts < MaxFaults
    /\ failures' = failures + 1
    /\ UNCHANGED <<now, restarts>>

\* SADD creates the key without a time to live, or finds it.
SaddEffect(k) == dedup' = [dedup EXCEPT ![k] = IF Holds(k) THEN @ ELSE Never]

Sadd(c) ==
    /\ Answered(c, "add")
    /\ SaddEffect(task[c].key)
    /\ task' = [task EXCEPT ![c].stage = "expire", ![c].since = now,
                            ![c].new = ~Holds(task[c].key)]
    /\ UNCHANGED <<counter, counterEnds, accepted, unpushed>>

SaddFails(c) ==
    /\ Fails(c, "add")
    /\ SaddEffect(task[c].key) \/ UNCHANGED dedup
    /\ Unchecked(c)
    /\ UNCHANGED <<local, counter, counterEnds, cached>>

ExpireEffect(k) ==
    dedup' = [dedup EXCEPT ![k] = IF Holds(k) THEN now + DEDUP_TTL ELSE @]

\* Mutant: the answer of SADD is not looked at.
IsNew_Always(c) == TRUE

\* added == 1.
IsNew(c) == task[c].new

Expire(c) ==
    /\ Answered(c, "expire")
    /\ ExpireEffect(task[c].key)
    /\ IF IsNew(c) THEN Unique(c) ELSE Duplicate(c)
    /\ UNCHANGED <<counter, counterEnds>>

\* The exception hides the answer of SADD.
ExpireFails(c) ==
    /\ Fails(c, "expire")
    /\ ExpireEffect(task[c].key) \/ UNCHANGED dedup
    /\ Unchecked(c)
    /\ UNCHANGED <<local, counter, counterEnds, cached>>

\* The counter is there.
Counting == counterEnds > now

\* INCR begins at 0 when there is no counter, and gives it no time to live.
Following == IF Counting THEN counter + 1 ELSE 1

IncrEffect ==
    /\ counter' = Following
    /\ counterEnds' = IF Counting THEN counterEnds ELSE Never

Incr(c) ==
    /\ Answered(c, "incr")
    /\ IncrEffect
    /\ task' = [task EXCEPT ![c].stage = "seqExpire", ![c].since = now,
                            ![c].seq = Following]
    /\ UNCHANGED <<dedup, accepted, unpushed>>

\* The message of connection c has number n: its event goes through the check
\* of _push_to_subscribers, unless nobody has subscribed.
Numbered(c, n) ==
    /\ accepted' = [accepted EXCEPT ![task[c].msg].seq = n]
    /\ cached' = [cached EXCEPT ![RouterOf[c]] = n]
    /\ \/ /\ task' = [task EXCEPT ![c] = Ready]
          /\ UNCHANGED <<local, unpushed>>
       \/ Check(c, [task[c] EXCEPT !.what = "event", !.seq = 0])

\* Mutant: the number is read back after the second call.
NumberOf_ReadBack(c) == counter

\* What INCR returned.
NumberOf(c) == task[c].seq

\* EXPIRE of the counter, which may be gone.
SeqExpireEffect ==
    /\ counterEnds' = IF Counting THEN now + SEQ_TTL ELSE counterEnds
    /\ UNCHANGED counter

\* The number is remembered as it was when INCR was answered.
SeqExpire(c) ==
    /\ task[c].stage = "seqExpire"
    /\ SeqExpireEffect
    /\ Numbered(c, NumberOf(c))
    /\ UNCHANGED <<now, dedup, failures, restarts>>

\* A call of next_seq fails: the number follows the last one remembered.
SeqFails(c) ==
    /\ \/ Fails(c, "incr") /\ IncrEffect
       \/ Fails(c, "seqExpire") /\ SeqExpireEffect
       \/ /\ Fails(c, "incr") \/ Fails(c, "seqExpire")
          /\ UNCHANGED <<counter, counterEnds>>
    /\ Numbered(c, cached[RouterOf[c]] + 1)
    /\ UNCHANGED dedup

RedisStep(c) == \/ Sadd(c) \/ SaddFails(c) \/ Expire(c) \/ ExpireFails(c)
                \/ Incr(c) \/ SeqExpire(c) \/ SeqFails(c)

-----------------------------------------------------------------------------
\* The dedup loop of router r.
Cleanup(r) ==
    /\ Recent(local[r]) # local[r]
    /\ local' = [local EXCEPT ![r] = Recent(@)]
    /\ UNCHANGED <<now, dedup, counter, counterEnds, cached, task, accepted,
                   unpushed, failures, restarts>>

\* Router r stops and starts again: what it had in memory is gone.
Restart(r) ==
    /\ failures + restarts < MaxFaults
    /\ restarts' = restarts + 1
    /\ local' = [local EXCEPT ![r] = <<>>]
    /\ cached' = [cached EXCEPT ![r] = 0]
    /\ task' = [c \in Connections |-> IF RouterOf[c] = r THEN Ready ELSE task[c]]
    /\ UNCHANGED <<now, dedup, counter, counterEnds, accepted, unpushed, failures>>

Tick ==
    /\ now < MaxTime
    /\ \A c \in Connections :
         task[c].stage # "ready" => now - task[c].since < SOCKET_TIMEOUT
    /\ now' = now + 1
    /\ UNCHANGED <<local, dedup, counter, counterEnds, cached, task, accepted,
                   unpushed, failures, restarts>>

Next ==
    \/ \E c \in Connections : (\E k \in Keys : Receive(c, k)) \/ RedisStep(c)
    \/ \E r \in Routers : Cleanup(r) \/ Restart(r)
    \/ Tick

Spec == Init /\ [][Next]_vars
-----------------------------------------------------------------------------
Messages == DOMAIN accepted

\* While Redis answers, a message that arrives at several routers or over
\* several connections is accepted once in DEDUP_TTL, although keys are evicted
\* from the routers' memories and routers lose them when they restart.
AcceptedOnce ==
    failures = 0 =>
      \A i, j \in Messages : i < j /\ accepted[i].key = accepted[j].key
        => accepted[j].at - accepted[i].at >= DEDUP_TTL

\* At t the counter got SEQ_TTL to live, with the number of a message, and of
\* those accepted since only such have numbers as came when it had all but run
\* out and met with slow calls.
LastUsed(t) ==
    /\ \E m \in Messages : /\ accepted[m].seq # 0
                           /\ accepted[m].at <= t
                           /\ t <= accepted[m].at + 2 * SOCKET_TIMEOUT
    /\ \A m \in Messages : accepted[m].seq # 0 =>
         accepted[m].at <= t \/ accepted[m].at + 2 * SOCKET_TIMEOUT >= t + SEQ_TTL

\* It ran out between messages i and j.
AnewBetween(i, j) ==
    \E t \in 1..now : /\ LastUsed(t) /\ t + SEQ_TTL <= now
                      /\ accepted[i].at < t + SEQ_TTL
                      /\ t + SEQ_TTL <= accepted[j].at + SOCKET_TIMEOUT

\* While Redis answers, no two messages of a pair get the same number, on
\* whatever routers and connections they arrive, also after restarts; and the
\* messages of one connection are numbered in the order they were accepted.
\* Numbers begin anew only when the pair was silent for SEQ_TTL.
NumbersOfPair ==
    failures = 0 =>
      \A i, j \in Messages : i < j /\ accepted[i].seq # 0 /\ accepted[j].seq # 0
        => /\ \/ accepted[i].seq # accepted[j].seq
              \/ AnewBetween(i, j) \/ AnewBetween(j, i)
           /\ accepted[i].by = accepted[j].by
                => accepted[i].seq < accepted[j].seq \/ AnewBetween(i, j)

\* While no router restarts, a key that makes a message a duplicate is the key
\* of a message that was accepted or is being handled: whichever call to Redis
\* fails and whatever happens in between, no message is taken for the copy of
\* one that was never accepted.
DuplicatesAreCopies ==
    restarts = 0 =>
      \A k \in Keys : Holds(k) \/ (\E r \in Routers : InLocal(r, k)) =>
        \/ \E i \in Messages : accepted[i].key = k
        \/ \E c \in Connections : task[c].stage \in {"add", "expire"} /\ task[c].key = k

\* smart_router.py:2122, an event is pushed to all subscribed agents: no event
\* is dropped as a duplicate of the message that it is made from.
EventsArePushed == unpushed = {}
=============================================================================
