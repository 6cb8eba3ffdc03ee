--------------------------- MODULE PriorityQueue ---------------------------
(***************************************************************************)
(* priority_queue.py and the tasks of smart_router.py that use it: the     *)
(* client handlers that put messages, the workers that get and route them, *)
(* and the loop that raises the priority of messages that have waited.     *)
(*                                                                         *)
(* The tasks share one event loop: a task runs until it awaits something   *)
(* that is not ready.  A step of a client or a worker is one such run.     *)
(* The aging loop moves one message a step, and until it sleeps or waits   *)
(* for room in a full queue no other task runs (LoopFree).                 *)
(*                                                                         *)
(* The number of messages is unlimited: the id of a message that is gone   *)
(* is given to a later one.                                                *)
(***************************************************************************)
EXTENDS Integers, Sequences, FiniteSets

CONSTANTS
    Messages,                \* bound: how many messages are there at a time
    Workers,                 \* the _pq_workers worker tasks
    MaxSize,                 \* the maxsize of each of the three queues
    AGING_NORMAL_TO_HIGH,
    AGING_HIGH_TO_CRITICAL

ASSUME PriorityAssumption ==
    /\ MaxSize \in Nat \ {0}
    /\ AGING_NORMAL_TO_HIGH \in Nat /\ AGING_HIGH_TO_CRITICAL \in Nat

NORMAL   == 0
HIGH     == 1
CRITICAL == 2
Priority == {NORMAL, HIGH, CRITICAL}

VARIABLES
    queues,     \* _normal, _high and _critical: each message with its age
    putters,    \* the puts of clients that wait for room
    aging,      \* what age_messages is doing and the messages it holds
    worker,     \* what each worker is doing and the messages it holds
    accepted,   \* history: messages put and neither routed nor lost yet
    lost,       \* history: messages a getter took and no worker routed
    overtaken   \* history: lower messages a worker started since _critical
                \* was last empty

vars == <<queues, putters, aging, worker, accepted, lost, overtaken>>

\* Ages are told apart up to the larger threshold: an age above it stays.
OldestAge == 1 + IF AGING_NORMAL_TO_HIGH > AGING_HIGH_TO_CRITICAL
                   THEN AGING_NORMAL_TO_HIGH ELSE AGING_HIGH_TO_CRITICAL

AgingStage  == {"sleep", "normal", "normalBack", "high", "highBack"}
WorkerStage == {"poll", "wait", "route", "pause"}

Age     == 0..OldestAge
Queued  == [m: Messages, age: Age]

\* asyncio.Queue.full.
Full(p) == Len(queues[p]) >= MaxSize

Sleeping == [stage |-> "sleep", hand |-> <<>>, young |-> <<>>,
             waits |-> FALSE]

Init ==
    /\ queues = [p \in Priority |-> <<>>]
    /\ putters = {}
    /\ aging = Sleeping
    /\ worker = [w \in Workers |-> [stage |-> "poll", got |-> {}]]
    /\ accepted = {} /\ lost = {}
    /\ overtaken = [w \in Workers |-> 0]

\* The aging task is suspended, so that the others can run.
LoopFree == aging.stage = "sleep" \/ aging.waits

-----------------------------------------------------------------------------
(* The handlers of clients.                                                *)

\* await self._priority_queue.put(msg): a message of priority p is queued, or
\* its handler waits for room.
Put(m, p) ==
    /\ LoopFree
    /\ m \notin accepted
    /\ accepted' = accepted \union {m}
    /\ lost' = lost \ {m}
    /\ LET qm == [m |-> m, age |-> 0] IN
         IF Full(p)
           THEN /\ putters' = putters \union {[qm |-> qm, prio |-> p]}
                /\ UNCHANGED queues
           ELSE /\ queues' = [queues EXCEPT ![p] = Append(@, qm)]
                /\ UNCHANGED putters
    /\ UNCHANGED <<aging, worker, overtaken>>

\* A put that waited finds room.
PutGoesOn(u) ==
    /\ LoopFree
    /\ ~Full(u.prio)
    /\ putters' = putters \ {u}
    /\ queues' = [queues EXCEPT ![u.prio] = Append(@, u.qm)]
    /\ UNCHANGED <<aging, worker, accepted, lost, overtaken>>

-----------------------------------------------------------------------------
(* The workers.                                                            *)

\* Worker w starts to route message m of priority p, and the lists of the
\* messages that wait become q.
StartRoute(w, m, p, q) ==
    /\ worker' = [worker EXCEPT ![w] = [stage |-> "route", got |-> {<<m, p>>}]]
    /\ overtaken' = IF q[CRITICAL] = <<>> THEN [v \in Workers |-> 0]
                    ELSE IF p = CRITICAL THEN overtaken
                    ELSE [overtaken EXCEPT ![w] = @ + 1]

\* Mutant: the queues are looked at in the order of their names.
NextPriority_HighFirst ==
    IF queues[HIGH] # <<>> THEN HIGH
    ELSE IF queues[NORMAL] # <<>> THEN NORMAL ELSE CRITICAL

\* The first of CRITICAL, HIGH and NORMAL that has a message.
NextPriority ==
    CHOOSE p \in Priority :
      /\ queues[p] # <<>>
      /\ \A r \in Priority : r > p => queues[r] = <<>>

\* try_get_critical, then the three attempts of get.
Poll(w) ==
    /\ LoopFree
    /\ worker[w].stage = "poll"
    /\ IF \A p \in Priority : queues[p] = <<>>
         THEN /\ worker' = [worker EXCEPT ![w] = [stage |-> "wait", got |-> {}]]
              /\ UNCHANGED <<queues, overtaken>>
         ELSE LET p == NextPriority
                  q == [queues EXCEPT ![p] = Tail(@)]
              IN /\ queues' = q
                 /\ StartRoute(w, Head(queues[p]).m, p, q)
    /\ UNCHANGED <<putters, aging, accepted, lost>>

\* One of the three tasks a worker waits for gets a message.  The worker is
\* woken a turn of the loop later: until then the other two may get one too.
GetterTakes(w, p) ==
    /\ LoopFree
    /\ worker[w].stage = "wait"
    /\ queues[p] # <<>>
    /\ \A g \in worker[w].got : g[2] # p
    /\ worker' = [worker EXCEPT ![w] =
                    [stage |-> "wait",
                     got |-> worker[w].got \union {<<Head(queues[p]).m, p>>}]]
    /\ queues' = [queues EXCEPT ![p] = Tail(@)]
    /\ overtaken' = IF queues'[CRITICAL] = <<>> THEN [v \in Workers |-> 0]
                    ELSE overtaken
    /\ UNCHANGED <<putters, aging, accepted, lost>>

\* What the tasks other than the one whose result is returned had taken.
Unclaimed(w, g) == {h[1] : h \in worker[w].got \ {g}}

\* asyncio.wait returns: the tasks that got nothing are cancelled, and the
\* result of some task that did is returned.
Wake(w) ==
    /\ LoopFree
    /\ worker[w].stage = "wait"
    /\ \E g \in worker[w].got :
         /\ StartRoute(w, g[1], g[2], queues)
         /\ lost' = lost \union Unclaimed(w, g)
         /\ accepted' = accepted \ Unclaimed(w, g)
    /\ UNCHANGED <<queues, putters, aging>>

\* route_message returns, or raises and the worker pauses.
Routed(w) ==
    /\ LoopFree
    /\ worker[w].stage = "route"
    /\ \E next \in {"poll", "pause"} :
         worker' = [worker EXCEPT ![w] = [stage |-> next, got |-> {}]]
    /\ accepted' = accepted \ {g[1] : g \in worker[w].got}
    /\ UNCHANGED <<queues, putters, aging, lost, overtaken>>

\* await asyncio.sleep(0.1) is over.
PauseEnds(w) ==
    /\ LoopFree
    /\ worker[w].stage = "pause"
    /\ worker' = [worker EXCEPT ![w] = [stage |-> "poll", got |-> {}]]
    /\ UNCHANGED <<queues, putters, aging, accepted, lost, overtaken>>

-----------------------------------------------------------------------------
(* The aging loop.                                                         *)

\* The queue each part of age_messages empties and refills.
From == [normal |-> NORMAL, normalBack |-> NORMAL,
         high |-> HIGH, highBack |-> HIGH]

\* The part after each.
After == [normal |-> "normalBack", normalBack |-> "high",
          high |-> "highBack", highBack |-> "sleep"]

TakesFrom(stage) == stage \in {"normal", "high"}
RefillsTo(stage) == stage \in {"normalBack", "highBack"}

\* The sleep of 5 seconds is over.
AgeStart ==
    /\ aging.stage = "sleep"
    /\ aging' = [aging EXCEPT !.stage = "normal"]
    /\ UNCHANGED <<queues, putters, worker, accepted, lost, overtaken>>

\* Mutant: only NORMAL messages age.
Aged_NormalOnly(qm, p) == p = NORMAL /\ qm.age > AGING_NORMAL_TO_HIGH

Aged(qm, p) == qm.age > IF p = NORMAL THEN AGING_NORMAL_TO_HIGH
                                      ELSE AGING_HIGH_TO_CRITICAL

\* Mutant: the messages kept apart go back last first.
Kept_InFront(young, qm) == <<qm>> \o young

\* moved.append(qm).
Kept(young, qm) == Append(young, qm)

\* get_nowait: the message is old enough, and is to go up with a new age, or
\* it is kept apart.
AgeTake ==
    /\ TakesFrom(aging.stage) /\ aging.hand = <<>>
    /\ LET p == From[aging.stage] IN
         /\ queues[p] # <<>>
         /\ queues' = [queues EXCEPT ![p] = Tail(@)]
         /\ LET qm == Head(queues[p]) IN
              aging' = IF Aged(qm, p)
                         THEN [aging EXCEPT !.hand = <<[qm EXCEPT !.age = 0]>>]
                         ELSE [aging EXCEPT !.young = Kept(@, qm)]
    /\ UNCHANGED <<putters, worker, accepted, lost, overtaken>>

\* The queue of the message the loop is about to put, and that message.
AgeTarget == IF RefillsTo(aging.stage) THEN From[aging.stage]
                                       ELSE From[aging.stage] + 1

AgeNext == IF RefillsTo(aging.stage) THEN Head(aging.young)
                                     ELSE Head(aging.hand)

AgeHasNext == \/ TakesFrom(aging.stage) /\ aging.hand # <<>>
              \/ RefillsTo(aging.stage) /\ aging.young # <<>>

\* Mutant: the message the loop holds when it has to wait is forgotten.
AgeKeeps_Dropped == [aging EXCEPT !.hand = <<>>]

\* What the loop holds while it waits for room.
AgeKeeps == [aging EXCEPT !.waits = TRUE]

\* await put: the message is queued, or the loop waits for room.
AgePut ==
    /\ AgeHasNext
    /\ IF Full(AgeTarget)
         THEN /\ ~aging.waits
              /\ aging' = AgeKeeps
              /\ UNCHANGED queues
         ELSE /\ queues' = [queues EXCEPT ![AgeTarget] = Append(@, AgeNext)]
              /\ aging' = [aging EXCEPT
                   !.waits = FALSE,
                   !.hand = <<>>,
                   !.young = IF RefillsTo(aging.stage) THEN Tail(@) ELSE @]
    /\ UNCHANGED <<putters, worker, accepted, lost, overtaken>>

\* A while loop or a for loop of age_messages ends.
AgeLoopEnds ==
    /\ aging.stage # "sleep"
    /\ ~AgeHasNext
    /\ TakesFrom(aging.stage) => queues[From[aging.stage]] = <<>>
    /\ aging' = [aging EXCEPT !.stage = After[aging.stage]]
    /\ UNCHANGED <<queues, putters, worker, accepted, lost, overtaken>>

-----------------------------------------------------------------------------
Older(qm) == [qm EXCEPT !.age = IF @ < OldestAge THEN @ + 1 ELSE @]
OlderSeq(s) == [i \in DOMAIN s |-> Older(s[i])]

Tick ==
    /\ LoopFree
    /\ queues' = [p \in Priority |-> OlderSeq(queues[p])]
    /\ putters' = {[u EXCEPT !.qm = Older(u.qm)] : u \in putters}
    /\ aging' = [aging EXCEPT !.hand = OlderSeq(@), !.young = OlderSeq(@)]
    /\ UNCHANGED <<worker, accepted, lost, overtaken>>

AgingStep == AgeStart \/ AgeTake \/ AgePut \/ AgeLoopEnds

WorkerStep(w) == \/ Poll(w) \/ Wake(w) \/ Routed(w) \/ PauseEnds(w)
                 \/ \E p \in Priority : GetterTakes(w, p)

Next ==
    \/ \E m \in Messages, p \in Priority : Put(m, p)
    \/ \E u \in putters : PutGoesOn(u)
    \/ \E w \in Workers : WorkerStep(w)
    \/ AgingStep
    \/ Tick

Spec == Init /\ [][Next]_vars

\* The event loop runs every task that is ready once a turn, so a task is not
\* passed over for ever because another happens to run (strong fairness, as
\* LoopFree is false whenever the aging loop runs); route_message returns or
\* raises, and time passes.  Nothing obliges a client to put a message.
Fairness ==
    /\ \A w \in Workers : SF_vars(WorkerStep(w))
    /\ WF_vars(AgingStep)
    /\ SF_vars(Tick)

FairSpec == Spec /\ Fairness
-----------------------------------------------------------------------------
\* Type correctness.
TypeOK ==
    /\ queues \in [Priority -> Seq(Queued)]
    /\ \A p \in Priority : Len(queues[p]) <= MaxSize
    /\ putters \subseteq [qm: Queued, prio: Priority]
    /\ aging \in [stage: AgingStage, hand: Seq(Queued), young: Seq(Queued),
                  waits: BOOLEAN]
    /\ Len(aging.hand) <= 1
    /\ worker \in [Workers -> [stage: WorkerStage,
                               got: SUBSET (Messages \X Priority)]]
    /\ accepted \subseteq Messages /\ lost \subseteq Messages
    /\ overtaken \in [Workers -> Nat]

\* Each place a message is in, with the message.
Places ==
    (UNION { {<<queues[p][i].m, "queue", p, i>> : i \in DOMAIN queues[p]} :
               p \in Priority })
    \union {<<u.qm.m, "put", u.prio, 0>> : u \in putters}
    \union {<<aging.hand[i].m, "hand", 0, i>> : i \in DOMAIN aging.hand}
    \union {<<aging.young[i].m, "young", 0, i>> : i \in DOMAIN aging.young}
    \union (UNION { {<<g[1], "worker", g[2], w>> : g \in worker[w].got} :
                      w \in Workers })

\* Until it is routed, or lost by a worker that was woken by two queues, a
\* message is in exactly one place, whatever moves between the queues, waits
\* for room or is taken while the aging loop holds messages.
InOnePlace ==
    \A m \in Messages :
      Cardinality({x \in Places : x[1] = m}) = IF m \in accepted THEN 1 ELSE 0

\* A worker starts at most one lower message while critical ones wait: the one
\* it took before the first of them came (smart_router.py:2302, a critical
\* message does not wait behind the others).
CriticalOvertakenOnce == \A w \in Workers : overtaken[w] <= 1

\* In a queue no message is behind a younger one, which is what makes get take
\* the oldest: the aging loop keeps it so when it empties and refills a queue.
\* (It does not if a put has to wait for room.)
OldestFirst ==
    \A p \in Priority : \A i, j \in DOMAIN queues[p] :
      i < j => queues[p][i].age >= queues[p][j].age
=============================================================================
