------------------------ MODULE PriorityQueue_proofs ------------------------
(***************************************************************************)
(* Type correctness of the priority queue, the bound on the lower messages *)
(* that are started while critical ones wait, that an accepted message is  *)
(* in exactly one place, and the order of the queues, for every number of  *)
(* messages and of workers, queues of every size and all thresholds.       *)
(***************************************************************************)
EXTENDS MCPriorityQueue, SequenceTheorems, FiniteSetTheorems, TLAPS

USE DEF NORMAL, HIGH, CRITICAL, Priority

\* The larger threshold is a number, and an age that grows stays an age.
LEMMA AgesStayAges ==
    /\ OldestAge \in Nat /\ 0 \in Age
    /\ \A qm \in Queued : Older(qm) \in Queued
<1>1. OldestAge \in Nat /\ 0 \in Age
  BY PriorityAssumption DEF OldestAge, Age
<1>2. ASSUME NEW qm \in Queued PROVE Older(qm) \in Queued
  BY <1>1 DEF Older, Queued, Age
<1>. QED  BY <1>1, <1>2

\* The messages of a list grow older where they are.
LEMMA OlderList ==
    ASSUME NEW s \in Seq(Queued)
    PROVE  /\ OlderSeq(s) \in Seq(Queued)
           /\ Len(OlderSeq(s)) = Len(s)
           /\ OlderSeq(s) = <<>> => s = <<>>
<1>1. DOMAIN s = 1..Len(s) /\ Len(s) \in Nat
  OBVIOUS
<1>2. OlderSeq(s) = [i \in 1..Len(s) |-> Older(s[i])]
  BY <1>1 DEF OlderSeq
<1>3. \A i \in 1..Len(s) : Older(s[i]) \in Queued
  BY AgesStayAges, <1>1
<1>4. OlderSeq(s) \in Seq(Queued) /\ Len(OlderSeq(s)) = Len(s)
  BY <1>1, <1>2, <1>3
<1>. QED  BY <1>4

\* What the aging loop puts next, and the queue it goes to.
LEMMA AgeNextIsQueued ==
    ASSUME TypeOK, AgeHasNext
    PROVE  AgeNext \in Queued /\ AgeTarget \in Priority
  BY DEF TypeOK, AgeHasNext, AgeNext, AgeTarget, TakesFrom, RefillsTo, From

\* The queue worker w polls, when one has a message.
LEMMA NextPriorityHasMessage ==
    ASSUME NEW r \in Priority, queues[r] # <<>>
    PROVE  /\ NextPriority \in Priority
           /\ queues[NextPriority] # <<>>
           /\ NextPriority # CRITICAL => queues[CRITICAL] = <<>>
<1>. DEFINE P(p) == /\ queues[p] # <<>>
                    /\ \A t \in Priority : t > p => queues[t] = <<>>
<1>1. \E p \in Priority : P(p)
  <2>1. CASE queues[CRITICAL] # <<>>
    BY <2>1
  <2>2. CASE queues[CRITICAL] = <<>> /\ queues[HIGH] # <<>>
    BY <2>2
  <2>3. CASE queues[CRITICAL] = <<>> /\ queues[HIGH] = <<>>
    BY <2>3
  <2>. QED  BY <2>1, <2>2, <2>3
<1>2. NextPriority \in Priority /\ P(NextPriority)
  BY <1>1 DEF NextPriority
<1>. QED  BY <1>2

LEMMA InitTypeOK == Init => TypeOK
<1>. SUFFICES ASSUME Init PROVE TypeOK
  OBVIOUS
<1>1. queues \in [Priority -> Seq(Queued)] /\ \A p \in Priority : Len(queues[p]) <= MaxSize
  BY PriorityAssumption DEF Init
<1>2. /\ aging \in [stage: AgingStage, hand: Seq(Queued), young: Seq(Queued),
                    waits: BOOLEAN]
      /\ Len(aging.hand) <= 1
  BY DEF Init, Sleeping, AgingStage
<1>. QED  BY <1>1, <1>2 DEF Init, TypeOK, WorkerStage

\* A put of a client, which waits for room or goes on.
LEMMA PutKeepsType ==
    ASSUME TypeOK,
           \/ \E m \in Messages, p \in Priority : Put(m, p)
           \/ \E u \in putters : PutGoesOn(u)
    PROVE  TypeOK'
<1>1. ASSUME NEW m \in Messages, NEW p \in Priority, Put(m, p) PROVE TypeOK'
  <2>. DEFINE qm == [m |-> m, age |-> 0]
  <2>1. qm \in Queued
    BY AgesStayAges DEF Queued
  <2>2. CASE Full(p)
    BY <1>1, <2>1, <2>2 DEF Put, TypeOK
  <2>3. CASE ~Full(p)
    <3>1. queues' = [queues EXCEPT ![p] = Append(queues[p], qm)] /\ UNCHANGED putters
      BY <1>1, <2>3 DEF Put
    <3>2. queues[p] \in Seq(Queued) /\ Len(queues[p]) + 1 <= MaxSize
      BY <2>3, PriorityAssumption DEF Full, TypeOK
    <3>3. /\ Append(queues[p], qm) \in Seq(Queued)
          /\ Len(Append(queues[p], qm)) = Len(queues[p]) + 1
      BY <2>1, <3>2
    <3>4. queues' \in [Priority -> Seq(Queued)] /\ \A r \in Priority : Len(queues'[r]) <= MaxSize
      BY <3>1, <3>2, <3>3 DEF TypeOK
    <3>. QED  BY <1>1, <3>1, <3>4 DEF Put, TypeOK
  <2>. QED  BY <2>2, <2>3
<1>2. ASSUME NEW u \in putters, PutGoesOn(u) PROVE TypeOK'
  <2>1. u.qm \in Queued /\ u.prio \in Priority
    BY DEF TypeOK
  <2>2. queues[u.prio] \in Seq(Queued) /\ Len(queues[u.prio]) + 1 <= MaxSize
    BY <1>2, <2>1, PriorityAssumption DEF PutGoesOn, Full, TypeOK
  <2>3. /\ Append(queues[u.prio], u.qm) \in Seq(Queued)
        /\ Len(Append(queues[u.prio], u.qm)) = Len(queues[u.prio]) + 1
    BY <2>1, <2>2
  <2>4. queues' = [queues EXCEPT ![u.prio] = Append(queues[u.prio], u.qm)]
    BY <1>2 DEF PutGoesOn
  <2>5. queues' \in [Priority -> Seq(Queued)] /\ \A r \in Priority : Len(queues'[r]) <= MaxSize
    BY <2>1, <2>2, <2>3, <2>4 DEF TypeOK
  <2>. QED  BY <1>2, <2>5 DEF PutGoesOn, TypeOK
<1>. QED  BY <1>1, <1>2

\* What is left of a queue when its first message is taken.
LEMMA TakenFrom ==
    ASSUME TypeOK, NEW p \in Priority, queues[p] # <<>>,
           queues' = [queues EXCEPT ![p] = Tail(queues[p])]
    PROVE  /\ Head(queues[p]) \in Queued
           /\ queues' \in [Priority -> Seq(Queued)]
           /\ \A r \in Priority : Len(queues'[r]) <= MaxSize
<1>1. queues[p] \in Seq(Queued)
  BY DEF TypeOK
<1>2. /\ Head(queues[p]) \in Queued /\ Tail(queues[p]) \in Seq(Queued)
      /\ Len(Tail(queues[p])) <= Len(queues[p])
  BY <1>1, HeadTailProperties
<1>. QED  BY <1>2, PriorityAssumption DEF TypeOK

LEMMA StartRouteType ==
    ASSUME TypeOK, NEW w \in Workers, NEW m \in Messages, NEW p \in Priority,
           NEW q, StartRoute(w, m, p, q)
    PROVE  /\ worker' \in [Workers -> [stage: WorkerStage,
                                       got: SUBSET (Messages \X Priority)]]
           /\ overtaken' \in [Workers -> Nat]
<1>1. worker' \in [Workers -> [stage: WorkerStage, got: SUBSET (Messages \X Priority)]]
  <2>1. [stage |-> "route", got |-> {<<m, p>>}] \in
          [stage: WorkerStage, got: SUBSET (Messages \X Priority)]
    BY DEF WorkerStage
  <2>. QED  BY <2>1 DEF StartRoute, TypeOK
<1>2. overtaken' \in [Workers -> Nat]
  BY DEF StartRoute, TypeOK
<1>. QED  BY <1>1, <1>2

LEMMA WorkerKeepsType ==
    ASSUME TypeOK, NEW w \in Workers, WorkerStep(w)
    PROVE  TypeOK'
<1>. USE DEF WorkerStage
<1>1. CASE Poll(w)
  <2>1. CASE \A p \in Priority : queues[p] = <<>>
    <3>1. worker' = [worker EXCEPT ![w] = [stage |-> "wait", got |-> {}]]
      BY <1>1, <2>1 DEF Poll
    <3>. QED  BY <1>1, <2>1, <3>1 DEF Poll, TypeOK
  <2>2. CASE \E p \in Priority : queues[p] # <<>>
    <3>. DEFINE p == NextPriority
                q == [queues EXCEPT ![p] = Tail(queues[p])]
    <3>1. p \in Priority /\ queues[p] # <<>>
      BY <2>2, NextPriorityHasMessage
    <3>2. queues' = q /\ StartRoute(w, Head(queues[p]).m, p, q)
      BY <1>1, <2>2 DEF Poll
    <3>. HIDE DEF p
    <3>3. Head(queues[p]) \in Queued
      BY <3>1, <3>2, TakenFrom
    <3>4. Head(queues[p]).m \in Messages
      BY <3>3 DEF Queued
    <3>5. /\ queues' \in [Priority -> Seq(Queued)]
          /\ \A r \in Priority : Len(queues'[r]) <= MaxSize
      BY <3>1, <3>2, TakenFrom
    <3>. HIDE DEF q
    <3>6. /\ worker' \in [Workers -> [stage: WorkerStage,
                                      got: SUBSET (Messages \X Priority)]]
          /\ overtaken' \in [Workers -> Nat]
      BY <3>1, <3>2, <3>4, StartRouteType
    <3>. QED  BY <1>1, <3>5, <3>6 DEF Poll, TypeOK
  <2>. QED  BY <2>1, <2>2
<1>2. ASSUME NEW p \in Priority, GetterTakes(w, p) PROVE TypeOK'
  <2>1. queues[p] # <<>> /\ queues' = [queues EXCEPT ![p] = Tail(queues[p])]
    BY <1>2 DEF GetterTakes
  <2>2. /\ Head(queues[p]) \in Queued
        /\ queues' \in [Priority -> Seq(Queued)]
        /\ \A r \in Priority : Len(queues'[r]) <= MaxSize
    BY <2>1, TakenFrom
  <2>3. <<Head(queues[p]).m, p>> \in Messages \X Priority
    BY <2>2 DEF Queued
  <2>. DEFINE r == [stage |-> "wait",
                    got |-> worker[w].got \union {<<Head(queues[p]).m, p>>}]
  <2>4. worker' = [worker EXCEPT ![w] = r]
    BY <1>2 DEF GetterTakes
  <2>5. worker' \in [Workers -> [stage: WorkerStage, got: SUBSET (Messages \X Priority)]]
    <3>1. worker[w].got \subseteq Messages \X Priority
      BY DEF TypeOK
    <3>2. r \in [stage: WorkerStage, got: SUBSET (Messages \X Priority)]
      BY <2>3, <3>1
    <3>. HIDE DEF r
    <3>. QED  BY <2>4, <3>2 DEF TypeOK
  <2>6. overtaken' \in [Workers -> Nat]
    BY <1>2 DEF GetterTakes, TypeOK
  <2>. QED  BY <1>2, <2>2, <2>5, <2>6 DEF GetterTakes, TypeOK
<1>3. CASE Wake(w)
  <2>1. PICK g \in worker[w].got :
               /\ StartRoute(w, g[1], g[2], queues)
               /\ lost' = lost \union Unclaimed(w, g)
               /\ accepted' = accepted \ Unclaimed(w, g)
    BY <1>3 DEF Wake
  <2>2. worker[w].got \subseteq Messages \X Priority
    BY DEF TypeOK
  <2>3. g[1] \in Messages /\ g[2] \in Priority /\ Unclaimed(w, g) \subseteq Messages
    BY <2>2 DEF Unclaimed
  <2>4. /\ worker' \in [Workers -> [stage: WorkerStage,
                                    got: SUBSET (Messages \X Priority)]]
        /\ overtaken' \in [Workers -> Nat]
    BY <2>1, <2>3, StartRouteType
  <2>. QED  BY <1>3, <2>1, <2>3, <2>4 DEF Wake, TypeOK
<1>4. CASE Routed(w)
  BY <1>4 DEF Routed, TypeOK
<1>5. CASE PauseEnds(w)
  BY <1>5 DEF PauseEnds, TypeOK
<1>. QED  BY <1>1, <1>2, <1>3, <1>4, <1>5 DEF WorkerStep

LEMMA AgingKeepsType ==
    ASSUME TypeOK, AgingStep
    PROVE  TypeOK'
<1>. USE DEF AgingStage
<1>1. CASE AgeStart
  BY <1>1 DEF AgeStart, TypeOK
<1>2. CASE AgeTake
  <2>. DEFINE p == From[aging.stage]
              qm == Head(queues[p])
  <2>1. p \in Priority
    BY <1>2 DEF AgeTake, TakesFrom, From
  <2>2. queues[p] # <<>> /\ queues' = [queues EXCEPT ![p] = Tail(queues[p])]
    BY <1>2 DEF AgeTake
  <2>3. aging' = IF Aged(qm, p)
                   THEN [aging EXCEPT !.hand = <<[qm EXCEPT !.age = 0]>>]
                   ELSE [aging EXCEPT !.young = Append(aging.young, qm)]
    BY <1>2 DEF AgeTake, Kept
  <2>. HIDE DEF p
  <2>4. /\ qm \in Queued
        /\ queues' \in [Priority -> Seq(Queued)]
        /\ \A r \in Priority : Len(queues'[r]) <= MaxSize
    BY <2>1, <2>2, TakenFrom
  <2>. HIDE DEF qm
  <2>5. [qm EXCEPT !.age = 0] \in Queued
    BY <2>4, AgesStayAges DEF Queued
  <2>6. /\ <<[qm EXCEPT !.age = 0]>> \in Seq(Queued)
        /\ Len(<<[qm EXCEPT !.age = 0]>>) = 1
        /\ Append(aging.young, qm) \in Seq(Queued)
    BY <2>4, <2>5 DEF TypeOK
  <2>7. /\ aging' \in [stage: AgingStage, hand: Seq(Queued), young: Seq(Queued),
                       waits: BOOLEAN]
        /\ Len(aging'.hand) <= 1
    <3>. DEFINE h == <<[qm EXCEPT !.age = 0]>>
                y == Append(aging.young, qm)
    <3>1. h \in Seq(Queued) /\ Len(h) = 1 /\ y \in Seq(Queued)
      BY <2>6
    <3>2. \/ aging' = [aging EXCEPT !.hand = h]
          \/ aging' = [aging EXCEPT !.young = y]
      BY <2>3
    <3>. HIDE DEF h, y
    <3>3. \/ aging' = [stage |-> aging.stage, hand |-> h, young |-> aging.young,
                       waits |-> aging.waits]
          \/ aging' = [stage |-> aging.stage, hand |-> aging.hand, young |-> y,
                       waits |-> aging.waits]
      BY <3>2 DEF TypeOK
    <3>4. /\ aging.stage \in AgingStage /\ aging.waits \in BOOLEAN
          /\ aging.hand \in Seq(Queued) /\ aging.young \in Seq(Queued)
          /\ Len(aging.hand) <= 1
      BY DEF TypeOK
    <3>5. Len(aging'.hand) <= 1
      <4>1. aging'.hand = h \/ aging'.hand = aging.hand
        BY <3>3
      <4>2. CASE aging'.hand = h
        <5>1. Len(aging'.hand) = 1
          BY <4>2, <3>1
        <5>. QED  BY <5>1
      <4>3. CASE aging'.hand = aging.hand
        BY <4>3, <3>4
      <4>. QED  BY <4>1, <4>2, <4>3
    <3>. QED  BY ONLY <3>1, <3>3, <3>4, <3>5
  <2>8. UNCHANGED <<putters, worker, accepted, lost, overtaken>>
    BY <1>2 DEF AgeTake
  <2>. QED  BY <2>4, <2>7, <2>8 DEF TypeOK
<1>3. CASE AgePut
  <2>1. AgeNext \in Queued /\ AgeTarget \in Priority
    BY <1>3, AgeNextIsQueued DEF AgePut
  <2>2. CASE Full(AgeTarget)
    BY <1>3, <2>2 DEF AgePut, AgeKeeps, TypeOK
  <2>3. CASE ~Full(AgeTarget)
    <3>1. /\ queues' = [queues EXCEPT ![AgeTarget] = Append(queues[AgeTarget], AgeNext)]
          /\ aging' = [aging EXCEPT !.waits = FALSE, !.hand = <<>>,
                         !.young = IF RefillsTo(aging.stage) THEN Tail(aging.young)
                                                             ELSE aging.young]
      BY <1>3, <2>3 DEF AgePut
    <3>2. queues[AgeTarget] \in Seq(Queued) /\ Len(queues[AgeTarget]) + 1 <= MaxSize
      BY <2>1, <2>3, PriorityAssumption DEF Full, TypeOK
    <3>3. /\ Append(queues[AgeTarget], AgeNext) \in Seq(Queued)
          /\ Len(Append(queues[AgeTarget], AgeNext)) = Len(queues[AgeTarget]) + 1
      BY <2>1, <3>2
    <3>4. /\ queues' \in [Priority -> Seq(Queued)]
          /\ \A r \in Priority : Len(queues'[r]) <= MaxSize
      BY <2>1, <3>1, <3>2, <3>3 DEF TypeOK
    <3>5. RefillsTo(aging.stage) => aging.young # <<>>
      BY <1>3 DEF AgePut, AgeHasNext, RefillsTo, TakesFrom
    <3>6. RefillsTo(aging.stage) => Tail(aging.young) \in Seq(Queued)
      BY <3>5, HeadTailProperties DEF TypeOK
    <3>7. /\ aging' \in [stage: AgingStage, hand: Seq(Queued), young: Seq(Queued),
                         waits: BOOLEAN]
          /\ Len(aging'.hand) <= 1
      <4>. DEFINE y == IF RefillsTo(aging.stage) THEN Tail(aging.young)
                                                 ELSE aging.young
      <4>1. y \in Seq(Queued)
        BY <3>6 DEF TypeOK
      <4>2. aging' = [aging EXCEPT !.waits = FALSE, !.hand = <<>>, !.young = y]
        BY <3>1
      <4>. HIDE DEF y
      <4>3. aging' = [stage |-> aging.stage, hand |-> <<>>, young |-> y, waits |-> FALSE]
        BY <4>2 DEF TypeOK
      <4>. QED  BY <4>1, <4>3 DEF TypeOK
    <3>. QED  BY <1>3, <3>4, <3>7 DEF AgePut, TypeOK
  <2>. QED  BY <2>2, <2>3
<1>4. CASE AgeLoopEnds
  <2>1. After[aging.stage] \in AgingStage
    BY <1>4 DEF AgeLoopEnds, After, TypeOK
  <2>. QED  BY <1>4, <2>1 DEF AgeLoopEnds, TypeOK
<1>. QED  BY <1>1, <1>2, <1>3, <1>4 DEF AgingStep

LEMMA TickKeepsType == TypeOK /\ Tick => TypeOK'
<1>. SUFFICES ASSUME TypeOK, Tick PROVE TypeOK'
  OBVIOUS
<1>1. /\ queues' \in [Priority -> Seq(Queued)]
      /\ \A p \in Priority : Len(queues'[p]) <= MaxSize
  BY OlderList DEF Tick, TypeOK
<1>2. putters' \subseteq [qm: Queued, prio: Priority]
  <2>1. ASSUME NEW u \in putters
        PROVE  [u EXCEPT !.qm = Older(u.qm)] \in [qm: Queued, prio: Priority]
    BY AgesStayAges DEF TypeOK
  <2>. QED  BY <2>1 DEF Tick
<1>3. aging.hand \in Seq(Queued) /\ aging.young \in Seq(Queued)
  BY DEF TypeOK
<1>4. aging' = [aging EXCEPT !.hand = OlderSeq(aging.hand), !.young = OlderSeq(aging.young)]
  BY DEF Tick
<1>5. /\ aging' \in [stage: AgingStage, hand: Seq(Queued), young: Seq(Queued),
                     waits: BOOLEAN]
      /\ Len(aging'.hand) <= 1
  BY <1>3, <1>4, OlderList DEF TypeOK
<1>. QED  BY <1>1, <1>2, <1>5 DEF Tick, TypeOK

\* Type correctness (TypeOK): among others, no queue ever holds more than
\* MaxSize messages, whoever puts them, and the aging loop has one message in
\* its hand at most.
THEOREM PriorityTypeCorrect == Spec => []TypeOK
<1>1. TypeOK /\ [Next]_vars => TypeOK'
  <2>. SUFFICES ASSUME TypeOK, [Next]_vars PROVE TypeOK'
    OBVIOUS
  <2>1. CASE UNCHANGED vars
    BY <2>1 DEF vars, TypeOK
  <2>2. CASE Next
    BY <2>2, PutKeepsType, WorkerKeepsType, AgingKeepsType, TickKeepsType DEF Next
  <2>. QED  BY <2>1, <2>2
<1>. QED  BY <1>1, InitTypeOK, PTL DEF Spec

-----------------------------------------------------------------------------
(* A worker starts at most one lower message while critical ones wait.     *)

\* The count of a worker is above 0 only while critical messages wait, and a
\* worker that waits for all queues, which were empty, starts from 0.
OvertakenInv ==
    /\ CriticalOvertakenOnce
    /\ queues[CRITICAL] = <<>> => \A w \in Workers : overtaken[w] = 0
    /\ \A w \in Workers : worker[w].stage = "wait" => overtaken[w] = 0

LEMMA InitOvertakenInv == Init => OvertakenInv
  BY DEF Init, OvertakenInv, CriticalOvertakenOnce

\* Worker w starts message m: it is a critical one, or none waits, or w had
\* not started one before.
LEMMA StartRouteOvertakes ==
    ASSUME TypeOK, OvertakenInv, NEW w \in Workers, NEW m, NEW p, NEW q,
           StartRoute(w, m, p, q), q[CRITICAL] = queues'[CRITICAL],
           \/ q[CRITICAL] = <<>> \/ p = CRITICAL \/ overtaken[w] = 0
    PROVE  OvertakenInv'
<1>1. worker' = [worker EXCEPT ![w] = [stage |-> "route", got |-> {<<m, p>>}]]
  BY DEF StartRoute
<1>2. \A v \in Workers : worker'[v].stage = "wait" => worker[v].stage = "wait" /\ v # w
  BY <1>1 DEF TypeOK
<1>3. CASE q[CRITICAL] = <<>>
  BY <1>2, <1>3 DEF StartRoute, OvertakenInv, CriticalOvertakenOnce
<1>4. CASE q[CRITICAL] # <<>> /\ p = CRITICAL
  BY <1>2, <1>4 DEF StartRoute, OvertakenInv, CriticalOvertakenOnce
<1>5. CASE q[CRITICAL] # <<>> /\ p # CRITICAL
  <2>1. overtaken' = [overtaken EXCEPT ![w] = 1]
    <3>1. overtaken' = [overtaken EXCEPT ![w] = overtaken[w] + 1] /\ overtaken[w] = 0
      BY <1>5 DEF StartRoute
    <3>. QED  BY <3>1
  <2>. QED  BY <1>2, <1>5, <2>1 DEF TypeOK, OvertakenInv, CriticalOvertakenOnce
<1>. QED  BY <1>3, <1>4, <1>5

LEMMA WorkerKeepsOvertakenInv ==
    ASSUME TypeOK, OvertakenInv, NEW w \in Workers, WorkerStep(w)
    PROVE  OvertakenInv'
<1>1. CASE Poll(w)
  <2>1. CASE \A p \in Priority : queues[p] = <<>>
    <3>1. \A v \in Workers : overtaken[v] = 0
      BY <2>1 DEF OvertakenInv
    <3>2. UNCHANGED <<queues, overtaken>>
      BY <1>1, <2>1 DEF Poll
    <3>. QED  BY <3>1, <3>2 DEF OvertakenInv, CriticalOvertakenOnce
  <2>2. CASE \E p \in Priority : queues[p] # <<>>
    <3>. DEFINE p == NextPriority
                q == [queues EXCEPT ![p] = Tail(queues[p])]
    <3>1. p \in Priority /\ (p # CRITICAL => queues[CRITICAL] = <<>>)
      BY <2>2, NextPriorityHasMessage
    <3>2. queues' = q /\ StartRoute(w, Head(queues[p]).m, p, q)
      BY <1>1, <2>2 DEF Poll
    <3>. HIDE DEF p
    <3>3. p # CRITICAL => q[CRITICAL] = <<>>
      BY <3>1 DEF TypeOK
    <3>. HIDE DEF q
    <3>. QED  BY <3>2, <3>3, StartRouteOvertakes
  <2>. QED  BY <2>1, <2>2
<1>2. ASSUME NEW p \in Priority, GetterTakes(w, p) PROVE OvertakenInv'
  <2>1. /\ overtaken' = IF queues'[CRITICAL] = <<>> THEN [v \in Workers |-> 0] ELSE overtaken
        /\ worker[w].stage = "wait"
    BY <1>2 DEF GetterTakes
  <2>2. \A v \in Workers : worker'[v].stage = "wait" => worker[v].stage = "wait"
    BY <1>2 DEF GetterTakes, TypeOK
  <2>3. \A v \in Workers : overtaken'[v] = 0 \/ overtaken'[v] = overtaken[v]
    BY <2>1
  <2>4. CriticalOvertakenOnce'
    BY <2>3 DEF OvertakenInv, CriticalOvertakenOnce
  <2>. QED  BY <2>1, <2>2, <2>3, <2>4 DEF OvertakenInv
<1>3. CASE Wake(w)
  <2>1. PICK g \in worker[w].got : StartRoute(w, g[1], g[2], queues)
    BY <1>3 DEF Wake
  <2>2. queues' = queues /\ overtaken[w] = 0
    BY <1>3 DEF Wake, OvertakenInv
  <2>. QED  BY <2>1, <2>2, StartRouteOvertakes
<1>4. CASE Routed(w) \/ PauseEnds(w)
  <2>1. \A v \in Workers : worker'[v].stage = "wait" => worker[v].stage = "wait"
    <3>1. PICK next \in {"poll", "pause"} :
                 worker' = [worker EXCEPT ![w] = [stage |-> next, got |-> {}]]
      BY <1>4 DEF Routed, PauseEnds
    <3>2. next # "wait"
      OBVIOUS
    <3>3. \A v \in Workers : v # w => worker'[v] = worker[v]
      BY <3>1 DEF TypeOK
    <3>4. worker'[w].stage = next
      BY <3>1 DEF TypeOK
    <3>. QED  BY <3>2, <3>3, <3>4
  <2>2. UNCHANGED <<queues, overtaken>>
    BY <1>4 DEF Routed, PauseEnds
  <2>. QED  BY <2>1, <2>2 DEF OvertakenInv, CriticalOvertakenOnce
<1>. QED  BY <1>1, <1>2, <1>3, <1>4 DEF WorkerStep

\* The other steps start no message, and none empties _critical.
LEMMA OthersKeepOvertakenInv ==
    ASSUME TypeOK, OvertakenInv, UNCHANGED <<worker, overtaken>>,
           queues'[CRITICAL] = <<>> => queues[CRITICAL] = <<>>
    PROVE  OvertakenInv'
  BY DEF OvertakenInv, CriticalOvertakenOnce

LEMMA OthersKeepCritical ==
    ASSUME TypeOK,
           \/ \E m \in Messages, p \in Priority : Put(m, p)
           \/ \E u \in putters : PutGoesOn(u)
           \/ AgingStep \/ Tick \/ UNCHANGED vars
    PROVE  /\ UNCHANGED <<worker, overtaken>>
           /\ queues'[CRITICAL] = <<>> => queues[CRITICAL] = <<>>
<1>1. ASSUME NEW p \in Priority, NEW e \in Queued,
             queues' = [queues EXCEPT ![p] = Append(queues[p], e)]
      PROVE  queues'[CRITICAL] = <<>> => queues[CRITICAL] = <<>>
  <2>1. queues[p] \in Seq(Queued)
    BY DEF TypeOK
  <2>2. Append(queues[p], e) # <<>>
    BY <2>1
  <2>. QED  BY <1>1, <2>2 DEF TypeOK
<1>2. ASSUME NEW m \in Messages, NEW p \in Priority, Put(m, p)
      PROVE  /\ UNCHANGED <<worker, overtaken>>
             /\ queues'[CRITICAL] = <<>> => queues[CRITICAL] = <<>>
  <2>1. [m |-> m, age |-> 0] \in Queued
    BY AgesStayAges DEF Queued
  <2>2. \/ UNCHANGED queues
        \/ queues' = [queues EXCEPT ![p] = Append(queues[p], [m |-> m, age |-> 0])]
    BY <1>2 DEF Put
  <2>. QED  BY <1>1, <1>2, <2>1, <2>2 DEF Put
<1>3. ASSUME NEW u \in putters, PutGoesOn(u)
      PROVE  /\ UNCHANGED <<worker, overtaken>>
             /\ queues'[CRITICAL] = <<>> => queues[CRITICAL] = <<>>
  <2>1. u.qm \in Queued /\ u.prio \in Priority
    BY DEF TypeOK
  <2>. QED  BY <1>1, <1>3, <2>1 DEF PutGoesOn
<1>4. CASE AgePut
  <2>1. AgeNext \in Queued /\ AgeTarget \in Priority
    BY <1>4, AgeNextIsQueued DEF AgePut
  <2>2. \/ UNCHANGED queues
        \/ queues' = [queues EXCEPT ![AgeTarget] = Append(queues[AgeTarget], AgeNext)]
    BY <1>4 DEF AgePut
  <2>. QED  BY <1>1, <1>4, <2>1, <2>2 DEF AgePut
<1>5. CASE AgeTake
  <2>1. From[aging.stage] \in Priority \ {CRITICAL}
    BY <1>5 DEF AgeTake, TakesFrom, From
  <2>2. /\ queues' = [queues EXCEPT ![From[aging.stage]] = Tail(queues[From[aging.stage]])]
        /\ UNCHANGED <<worker, overtaken>>
    BY <1>5 DEF AgeTake
  <2>. QED  BY <2>1, <2>2 DEF TypeOK
<1>6. CASE AgeStart \/ AgeLoopEnds \/ UNCHANGED vars
  BY <1>6 DEF AgeStart, AgeLoopEnds, vars
<1>7. CASE Tick
  BY <1>7, OlderList DEF Tick, TypeOK
<1>. QED  BY <1>2, <1>3, <1>4, <1>5, <1>6, <1>7 DEF AgingStep

\* CriticalOvertakenOnce: whatever the number of workers, of messages and of
\* places, a worker starts at most one lower message while critical ones wait.
THEOREM CriticalOvertakenOnceHolds == Spec => []CriticalOvertakenOnce
<1>1. TypeOK /\ OvertakenInv /\ [Next]_vars => OvertakenInv'
  <2>. SUFFICES ASSUME TypeOK, OvertakenInv, [Next]_vars PROVE OvertakenInv'
    OBVIOUS
  <2>1. CASE \E w \in Workers : WorkerStep(w)
    BY <2>1, WorkerKeepsOvertakenInv
  <2>2. CASE \/ \E m \in Messages, p \in Priority : Put(m, p)
             \/ \E u \in putters : PutGoesOn(u)
             \/ AgingStep \/ Tick \/ UNCHANGED vars
    BY <2>2, OthersKeepCritical, OthersKeepOvertakenInv
  <2>. QED  BY <2>1, <2>2 DEF Next
<1>2. OvertakenInv => CriticalOvertakenOnce
  BY DEF OvertakenInv
<1>. QED  BY <1>1, <1>2, InitOvertakenInv, PriorityTypeCorrect, PTL DEF Spec

-----------------------------------------------------------------------------
(* Each message in one place                                               *)

Msgs(q)     == {q[i].m : i \in DOMAIN q}
Distinct(q) == \A i, j \in DOMAIN q : q[i].m = q[j].m => i = j

\* What holds messages: the queues, the puts that wait, the two lists of the
\* aging loop, and the workers.
Holder == {<<"queue", p>> : p \in Priority} \cup {<<"worker", w>> : w \in Workers}
            \cup {<<"put", 0>>, <<"hand", 0>>, <<"young", 0>>}

Waiting == {u.qm.m : u \in putters}
Got(w)  == {g[1] : g \in worker[w].got}

Content(k) == CASE k[1] = "queue"  -> Msgs(queues[k[2]])
                [] k[1] = "worker" -> Got(k[2])
                [] k[1] = "put"    -> Waiting
                [] k[1] = "hand"   -> Msgs(aging.hand)
                [] k[1] = "young"  -> Msgs(aging.young)

\* No message has two holders, and those that are held are the accepted ones.
Apart == \A a, b \in Holder : a # b => Content(a) \cap Content(b) = {}
Whole == \A m : m \in accepted <=> \E k \in Holder : m \in Content(k)

\* No holder has a message twice.
Once ==
    /\ \A p \in Priority : Distinct(queues[p])
    /\ Distinct(aging.young)
    /\ \A u, v \in putters : u.qm.m = v.qm.m => u = v
    /\ \A w \in Workers : \A g, h \in worker[w].got : g[1] = h[1] => g = h

\* Where a step overwrites what was held, nothing was held.
Empty ==
    /\ \A w \in Workers : worker[w].stage \in {"poll", "pause"} => worker[w].got = {}
    /\ RefillsTo(aging.stage) => aging.hand = <<>>

PlaceInv == Apart /\ Whole /\ Once /\ Empty

LEMMA ContentOf ==
    /\ \A p \in Priority : <<"queue", p>> \in Holder
                           /\ Content(<<"queue", p>>) = Msgs(queues[p])
    /\ \A w \in Workers : <<"worker", w>> \in Holder
                          /\ Content(<<"worker", w>>) = Got(w)
    /\ <<"put", 0>> \in Holder /\ Content(<<"put", 0>>) = Waiting
    /\ <<"hand", 0>> \in Holder /\ Content(<<"hand", 0>>) = Msgs(aging.hand)
    /\ <<"young", 0>> \in Holder /\ Content(<<"young", 0>>) = Msgs(aging.young)
BY DEF Holder, Content

LEMMA ContentAfter ==
    /\ \A p \in Priority : Content(<<"queue", p>>)' = Msgs(queues'[p])
    /\ \A w \in Workers : Content(<<"worker", w>>)' = Got(w)'
    /\ Content(<<"put", 0>>)' = Waiting'
    /\ Content(<<"hand", 0>>)' = Msgs(aging'.hand)
    /\ Content(<<"young", 0>>)' = Msgs(aging'.young)
BY DEF Content

\* The holders outside S hold what they held.
LEMMA Elsewhere ==
    ASSUME NEW S,
           \A p \in Priority : <<"queue", p>> \notin S => Msgs(queues'[p]) = Msgs(queues[p]),
           \A w \in Workers : <<"worker", w>> \notin S => Got(w)' = Got(w),
           <<"put", 0>> \notin S => Waiting' = Waiting,
           <<"hand", 0>> \notin S => Msgs(aging'.hand) = Msgs(aging.hand),
           <<"young", 0>> \notin S => Msgs(aging'.young) = Msgs(aging.young)
    PROVE  \A k \in Holder \ S : Content(k)' = Content(k)
BY ContentOf, ContentAfter DEF Holder

\* A message goes from one holder to another.
LEMMA MoveKeeps ==
    ASSUME Apart, Whole, NEW a \in Holder, NEW b \in Holder, a # b,
           NEW m \in Content(a), \A k \in Holder \ {a, b} : Content(k)' = Content(k),
           Content(a)' = Content(a) \ {m}, Content(b)' = Content(b) \cup {m},
           accepted' = accepted
    PROVE  Apart' /\ Whole'
<1>1. \A k \in Holder : k # a => m \notin Content(k)
  BY DEF Apart
<1>2. \A k \in Holder : k \notin {a, b} => Content(k)' = Content(k)
  OBVIOUS
<1>3. ASSUME NEW k \in Holder, NEW l \in Holder, k # l
      PROVE  Content(k)' \cap Content(l)' = {}
  <2>1. Content(k) \cap Content(l) = {}
    BY <1>3 DEF Apart
  <2>2. CASE k = b
    BY <2>1, <2>2, <1>1, <1>2, <1>3
  <2>3. CASE l = b
    BY <2>1, <2>3, <1>1, <1>2, <1>3
  <2>4. CASE k # b /\ l # b
    BY <2>1, <2>4, <1>2
  <2>5. QED
    BY <2>2, <2>3, <2>4
<1>4. ASSUME NEW n
      PROVE  (\E k \in Holder : n \in Content(k)') <=> \E k \in Holder : n \in Content(k)
  <2>1. ASSUME NEW k \in Holder, n \in Content(k)'
        PROVE  \E l \in Holder : n \in Content(l)
    <3>1. CASE k = b /\ n = m
      BY <3>1
    <3>2. CASE ~(k = b /\ n = m)
      BY <3>2, <2>1, <1>2
    <3>3. QED
      BY <3>1, <3>2
  <2>2. ASSUME NEW k \in Holder, n \in Content(k)
        PROVE  \E l \in Holder : n \in Content(l)'
    <3>1. CASE k = a /\ n = m
      BY <3>1
    <3>2. CASE ~(k = a /\ n = m)
      BY <3>2, <2>2, <1>2
    <3>3. QED
      BY <3>1, <3>2
  <2>3. QED
    BY <2>1, <2>2
<1>5. QED
  BY <1>3, <1>4 DEF Apart, Whole

\* A message that nobody holds is given to a holder.
LEMMA AddKeeps ==
    ASSUME Apart, Whole, NEW b \in Holder, NEW m, m \notin accepted,
           \A k \in Holder \ {b} : Content(k)' = Content(k),
           Content(b)' = Content(b) \cup {m}, accepted' = accepted \cup {m}
    PROVE  Apart' /\ Whole'
<1>1. \A k \in Holder : m \notin Content(k)
  BY DEF Whole
<1>2. ASSUME NEW k \in Holder, NEW l \in Holder, k # l
      PROVE  Content(k)' \cap Content(l)' = {}
  <2>1. Content(k) \cap Content(l) = {}
    BY <1>2 DEF Apart
  <2>2. QED
    BY <2>1, <1>1, <1>2
<1>3. ASSUME NEW n
      PROVE  (\E k \in Holder : n \in Content(k)')
               <=> n = m \/ \E k \in Holder : n \in Content(k)
  <2>1. \A k \in Holder : n \in Content(k)' => n = m \/ n \in Content(k)
    OBVIOUS
  <2>2. \A k \in Holder : n \in Content(k) => n \in Content(k)'
    OBVIOUS
  <2>3. m \in Content(b)'
    OBVIOUS
  <2>4. QED
    BY <2>1, <2>2, <2>3
<1>4. QED
  BY <1>2, <1>3 DEF Apart, Whole

\* A holder lets messages go.
LEMMA RemoveKeeps ==
    ASSUME Apart, Whole, NEW a \in Holder, NEW R,
           R \subseteq Content(a), \A k \in Holder \ {a} : Content(k)' = Content(k),
           Content(a)' = Content(a) \ R, accepted' = accepted \ R
    PROVE  Apart' /\ Whole'
<1>1. \A k \in Holder : k # a => Content(k) \cap R = {}
  BY DEF Apart
<1>2. ASSUME NEW k \in Holder, NEW l \in Holder, k # l
      PROVE  Content(k)' \cap Content(l)' = {}
  <2>1. Content(k) \cap Content(l) = {}
    BY <1>2 DEF Apart
  <2>2. QED
    BY <2>1, <1>2
<1>3. ASSUME NEW n
      PROVE  (\E k \in Holder : n \in Content(k)')
               <=> n \notin R /\ \E k \in Holder : n \in Content(k)
  <2>1. \A k \in Holder : n \in Content(k)' => n \in Content(k) /\ n \notin R
    BY <1>1
  <2>2. \A k \in Holder : n \in Content(k) /\ n \notin R => n \in Content(k)'
    OBVIOUS
  <2>3. QED
    BY <2>1, <2>2
<1>4. QED
  BY <1>2, <1>3 DEF Apart, Whole

\* Nothing changes hands.
LEMMA SameKeeps ==
    ASSUME Apart, Whole, \A k \in Holder : Content(k)' = Content(k), accepted' = accepted
    PROVE  Apart' /\ Whole'
BY DEF Apart, Whole

LEMMA AddedLast ==
    ASSUME NEW q \in Seq(Queued), NEW qm \in Queued, Distinct(q), qm.m \notin Msgs(q)
    PROVE  Msgs(Append(q, qm)) = Msgs(q) \cup {qm.m} /\ Distinct(Append(q, qm))
<1>1. /\ DOMAIN Append(q, qm) = DOMAIN q \cup {Len(q) + 1}
      /\ \A i \in DOMAIN q : Append(q, qm)[i] = q[i]
      /\ Append(q, qm)[Len(q) + 1] = qm
  OBVIOUS
<1>2. \A i \in DOMAIN q : q[i].m # qm.m
  BY DEF Msgs
<1>3. Distinct(Append(q, qm))
  BY <1>1, <1>2 DEF Distinct
<1>4. Msgs(Append(q, qm)) = Msgs(q) \cup {qm.m}
  BY <1>1 DEF Msgs
<1>5. QED
  BY <1>3, <1>4

LEMMA TakenFirst ==
    ASSUME NEW q \in Seq(Queued), q # <<>>, Distinct(q)
    PROVE  /\ Head(q).m \in Msgs(q) /\ Head(q) \in Queued
           /\ Msgs(Tail(q)) = Msgs(q) \ {Head(q).m} /\ Distinct(Tail(q))
<1>1. Len(q) \in Nat /\ Len(q) >= 1 /\ DOMAIN q = 1..Len(q) /\ 1 \in DOMAIN q
      /\ Head(q) = q[1] /\ Head(q) \in Queued
      /\ DOMAIN Tail(q) = 1..(Len(q) - 1)
      /\ \A i \in 1..(Len(q) - 1) : Tail(q)[i] = q[i + 1]
  OBVIOUS
<1>2. \A i \in DOMAIN q : i # 1 => i - 1 \in DOMAIN Tail(q) /\ Tail(q)[i - 1] = q[i]
  BY <1>1
<1>3. \A i \in DOMAIN Tail(q) : i + 1 \in DOMAIN q /\ i + 1 # 1 /\ Tail(q)[i] = q[i + 1]
  BY <1>1
<1>4. Distinct(Tail(q))
  <2> SUFFICES ASSUME NEW i \in DOMAIN Tail(q), NEW j \in DOMAIN Tail(q),
                      Tail(q)[i].m = Tail(q)[j].m
               PROVE  i = j
    BY DEF Distinct
  <2>1. i + 1 = j + 1
    BY <1>3 DEF Distinct
  <2>2. QED
    BY <2>1, <1>1
<1>5. \A i \in DOMAIN q : i # 1 => q[i].m # q[1].m
  BY <1>1 DEF Distinct
<1>6. ASSUME NEW n
      PROVE  (\E i \in DOMAIN Tail(q) : n = Tail(q)[i].m)
               <=> n # q[1].m /\ \E i \in DOMAIN q : n = q[i].m
  <2>1. ASSUME NEW i \in DOMAIN Tail(q), n = Tail(q)[i].m
        PROVE  n # q[1].m /\ \E j \in DOMAIN q : n = q[j].m
    <3>1. i + 1 \in DOMAIN q /\ i + 1 # 1 /\ n = q[i + 1].m
      BY <2>1, <1>3
    <3>2. QED
      BY <3>1, <1>5
  <2>2. ASSUME NEW i \in DOMAIN q, n # q[1].m, n = q[i].m
        PROVE  \E j \in DOMAIN Tail(q) : n = Tail(q)[j].m
    <3>1. i - 1 \in DOMAIN Tail(q) /\ Tail(q)[i - 1] = q[i]
      BY <2>2, <1>2
    <3>2. QED
      BY <2>2, <3>1
  <2>3. QED
    BY <2>1, <2>2
<1>7. Msgs(Tail(q)) = Msgs(q) \ {Head(q).m}
  BY <1>1, <1>6 DEF Msgs
<1>8. Head(q).m \in Msgs(q)
  BY <1>1 DEF Msgs
<1>9. QED
  BY <1>1, <1>4, <1>7, <1>8

LEMMA NoMsgs == Msgs(<<>>) = {} /\ Distinct(<<>>)
BY DEF Msgs, Distinct

\* The messages of a list that grow older stay the same.
LEMMA OlderMsgs ==
    ASSUME NEW q \in Seq(Queued)
    PROVE  /\ Msgs(OlderSeq(q)) = Msgs(q)
           /\ Distinct(q) => Distinct(OlderSeq(q))
<1>1. DOMAIN OlderSeq(q) = DOMAIN q /\ \A i \in DOMAIN q : OlderSeq(q)[i].m = q[i].m
  <2>1. \A i \in DOMAIN q : q[i] \in Queued
    OBVIOUS
  <2>2. \A qm \in Queued : Older(qm).m = qm.m
    BY DEF Older, Queued
  <2>3. QED
    BY <2>1, <2>2 DEF OlderSeq
<1>2. QED
  BY <1>1 DEF Msgs, Distinct

\* What is held is accepted.
LEMMA HeldAccepted ==
    ASSUME Whole
    PROVE  \A k \in Holder : Content(k) \subseteq accepted
BY DEF Whole

-----------------------------------------------------------------------------
(* The steps of clients and workers *)

LEMMA PutKeepsPlaces ==
    ASSUME TypeOK, PlaceInv, NEW m \in Messages, NEW p \in Priority, Put(m, p)
    PROVE  PlaceInv'
<1> DEFINE qm == [m |-> m, age |-> 0]
<1>1. /\ m \notin accepted /\ accepted' = accepted \cup {m}
      /\ UNCHANGED <<aging, worker>> /\ qm \in Queued /\ qm.m = m
      /\ queues \in [Priority -> Seq(Queued)]
  BY AgesStayAges DEF Put, TypeOK, Queued
<1>2. \A k \in Holder : m \notin Content(k)
  BY <1>1, HeldAccepted DEF PlaceInv
<1>3. \A w \in Workers : Got(w)' = Got(w)
  BY <1>1 DEF Got
<1>4. Empty'
  BY <1>1 DEF PlaceInv, Empty
<1> HIDE DEF qm
<1>5. CASE Full(p)
  <2>1. putters' = putters \cup {[qm |-> qm, prio |-> p]} /\ queues' = queues
    BY <1>5 DEF Put, qm
  <2>2. Waiting' = Waiting \cup {m} /\ m \notin Waiting
    <3>1. m \notin Waiting
      BY <1>2, ContentOf
    <3> DEFINE u == [qm |-> qm, prio |-> p]
    <3>2. u.qm.m = m /\ putters' = putters \cup {u}
      BY <2>1, <1>1
    <3> HIDE DEF u
    <3>3. QED
      BY <3>1, <3>2 DEF Waiting
  <2>3. Once'
    <3>1. \A u, v \in putters' : u.qm.m = v.qm.m => u = v
      BY <2>1, <2>2, <1>1 DEF PlaceInv, Once, Waiting
    <3>2. QED
      BY <3>1, <2>1, <1>1 DEF PlaceInv, Once
  <2>4. \A k \in Holder \ {<<"put", 0>>} : Content(k)' = Content(k)
    BY <2>1, <1>1, <1>3, Elsewhere
  <2>5. Apart' /\ Whole'
    BY <2>2, <2>4, <1>1, ContentOf, ContentAfter, AddKeeps DEF PlaceInv
  <2>6. QED
    BY <2>3, <2>5, <1>4 DEF PlaceInv
<1>6. CASE ~Full(p)
  <2>1. queues' = [queues EXCEPT ![p] = Append(@, qm)] /\ putters' = putters
    BY <1>6 DEF Put, qm
  <2>2. queues'[p] = Append(queues[p], qm) /\ \A r \in Priority : r # p => queues'[r] = queues[r]
    BY <2>1, <1>1
  <2>3. m \notin Msgs(queues[p]) /\ queues[p] \in Seq(Queued) /\ Distinct(queues[p])
    BY <1>1, <1>2, ContentOf DEF PlaceInv, Once
  <2>4. Msgs(queues'[p]) = Msgs(queues[p]) \cup {m} /\ Distinct(queues'[p])
    BY <2>2, <2>3, <1>1, AddedLast
  <2>5. Once'
    BY <2>1, <2>2, <2>4, <1>1 DEF PlaceInv, Once
  <2>6. Waiting' = Waiting
    BY <2>1 DEF Waiting
  <2>7. \A k \in Holder \ {<<"queue", p>>} : Content(k)' = Content(k)
    BY <2>2, <2>6, <1>1, <1>3, Elsewhere
  <2>8. Apart' /\ Whole'
    BY <2>4, <2>7, <1>1, ContentOf, ContentAfter, AddKeeps DEF PlaceInv
  <2>9. QED
    BY <2>5, <2>8, <1>4 DEF PlaceInv
<1>7. QED
  BY <1>5, <1>6

LEMMA PutGoesOnKeepsPlaces ==
    ASSUME TypeOK, PlaceInv, NEW u \in putters, PutGoesOn(u)
    PROVE  PlaceInv'
<1> DEFINE m == u.qm.m
           p == u.prio
<1>1. /\ UNCHANGED <<aging, worker, accepted>> /\ u.qm \in Queued /\ p \in Priority
      /\ queues \in [Priority -> Seq(Queued)]
      /\ putters' = putters \ {u} /\ queues' = [queues EXCEPT ![p] = Append(@, u.qm)]
  BY DEF PutGoesOn, TypeOK
<1>2. m \in Waiting /\ Waiting' = Waiting \ {m}
  BY <1>1 DEF PlaceInv, Once, Waiting
<1> HIDE DEF p
<1>3. m \notin Msgs(queues[p])
  BY <1>1, <1>2, ContentOf, ZenonT(60) DEF PlaceInv, Apart
<1>4. queues'[p] = Append(queues[p], u.qm) /\ \A r \in Priority : r # p => queues'[r] = queues[r]
  BY <1>1
<1>5. Msgs(queues'[p]) = Msgs(queues[p]) \cup {m} /\ Distinct(queues'[p])
  BY <1>1, <1>3, <1>4, AddedLast DEF PlaceInv, Once
<1>6. Once' /\ Empty'
  BY <1>1, <1>4, <1>5 DEF PlaceInv, Once, Empty
<1>7. \A w \in Workers : Got(w)' = Got(w)
  BY <1>1 DEF Got
<1>8. \A k \in Holder \ {<<"put", 0>>, <<"queue", p>>} : Content(k)' = Content(k)
  BY <1>1, <1>4, <1>7, Elsewhere
<1> HIDE DEF m
<1>9. Apart' /\ Whole'
  <2>1. <<"put", 0>> \in Holder /\ <<"queue", p>> \in Holder /\ <<"put", 0>> # <<"queue", p>>
        /\ Content(<<"put", 0>>) = Waiting /\ Content(<<"queue", p>>) = Msgs(queues[p])
    BY <1>1, ContentOf
  <2>2. Content(<<"put", 0>>)' = Waiting' /\ Content(<<"queue", p>>)' = Msgs(queues'[p])
    BY <1>1, ContentAfter
  <2>3. QED
    BY <1>1, <1>2, <1>5, <1>8, <2>1, <2>2, MoveKeeps DEF PlaceInv
<1>10. QED
  BY <1>6, <1>9 DEF PlaceInv

\* A worker takes the first message of a queue.
LEMMA WorkerTakes ==
    ASSUME TypeOK, PlaceInv, NEW w \in Workers, NEW p \in Priority, queues[p] # <<>>,
           NEW stage \in {"wait", "route"},
           queues' = [queues EXCEPT ![p] = Tail(@)],
           worker' = [worker EXCEPT ![w] =
             [stage |-> stage, got |-> worker[w].got \cup {<<Head(queues[p]).m, p>>}]],
           UNCHANGED <<putters, aging, accepted>>
    PROVE  PlaceInv'
<1> DEFINE m == Head(queues[p]).m
           got == worker[w].got \cup {<<Head(queues[p]).m, p>>}
<1>1. queues \in [Priority -> Seq(Queued)] /\ Distinct(queues[p])
      /\ worker \in [Workers -> [stage: WorkerStage, got: SUBSET (Messages \X Priority)]]
  BY DEF TypeOK, PlaceInv, Once
<1>2. /\ m \in Msgs(queues[p])
      /\ Msgs(Tail(queues[p])) = Msgs(queues[p]) \ {m} /\ Distinct(Tail(queues[p]))
  BY <1>1, TakenFirst
<1>3. queues'[p] = Tail(queues[p]) /\ \A r \in Priority : r # p => queues'[r] = queues[r]
  BY <1>1
<1>4. worker'[w].got = got /\ worker'[w].stage = stage
      /\ \A v \in Workers : v # w => worker'[v] = worker[v]
  BY <1>1
<1> HIDE DEF m
<1>5. /\ <<"queue", p>> \in Holder /\ <<"worker", w>> \in Holder
      /\ <<"queue", p>> # <<"worker", w>>
      /\ Content(<<"queue", p>>) = Msgs(queues[p]) /\ Content(<<"worker", w>>) = Got(w)
      /\ m \notin Got(w)
  <2>1. /\ <<"queue", p>> \in Holder /\ <<"worker", w>> \in Holder
        /\ Content(<<"queue", p>>) = Msgs(queues[p]) /\ Content(<<"worker", w>>) = Got(w)
    BY ContentOf
  <2>2. <<"queue", p>> # <<"worker", w>>
    OBVIOUS
  <2>3. QED
    BY <1>2, <2>1, <2>2 DEF PlaceInv, Apart
<1>6. Got(w)' = Got(w) \cup {m} /\ \A v \in Workers : v # w => Got(v)' = Got(v)
  <2>1. Got(w)' = {g[1] : g \in got}
    BY <1>4 DEF Got
  <2>2. {g[1] : g \in got} = {g[1] : g \in worker[w].got} \cup {m}
    <3> DEFINE x == <<Head(queues[p]).m, p>>
    <3>1. got = worker[w].got \cup {x} /\ x[1] = m
      BY DEF m
    <3> HIDE DEF x
    <3>2. QED
      BY <3>1
  <2>3. QED
    BY <2>1, <2>2, <1>4 DEF Got
<1>7. \A g, h \in got : g[1] = h[1] => g = h
  BY <1>5 DEF Got, PlaceInv, Once, m
<1> HIDE DEF got
<1>8. Once' /\ Empty'
  BY <1>2, <1>3, <1>4, <1>7 DEF PlaceInv, Once, Empty
<1>9. \A k \in Holder \ {<<"queue", p>>, <<"worker", w>>} : Content(k)' = Content(k)
  <2>1. Waiting' = Waiting
    BY DEF Waiting
  <2>2. QED
    BY <1>3, <1>6, <2>1, Elsewhere
<1>10. Apart' /\ Whole'
  <2>1. /\ Content(<<"queue", p>>)' = Content(<<"queue", p>>) \ {m}
        /\ Content(<<"worker", w>>)' = Content(<<"worker", w>>) \cup {m}
        /\ m \in Content(<<"queue", p>>)
    BY <1>2, <1>3, <1>5, <1>6, ContentAfter
  <2>2. QED
    BY <1>5, <1>9, <2>1, MoveKeeps DEF PlaceInv
<1>11. QED
  BY <1>8, <1>10 DEF PlaceInv

\* A worker holds what is left of what it held.
LEMMA WorkerKeepsRest ==
    ASSUME TypeOK, PlaceInv, NEW w \in Workers,
           \A v \in Workers : v # w => worker'[v] = worker[v],
           worker'[w].got \subseteq worker[w].got,
           worker'[w].stage \in {"poll", "pause"} => worker'[w].got = {},
           accepted' = accepted \ {g[1] : g \in worker[w].got \ worker'[w].got},
           UNCHANGED <<queues, putters, aging>>
    PROVE  PlaceInv'
<1> PICK got : got = worker'[w].got
  OBVIOUS
<1> PICK R : R = {g[1] : g \in worker[w].got \ got}
  OBVIOUS
<1>0. worker \in [Workers -> [stage: WorkerStage, got: SUBSET (Messages \X Priority)]]
      /\ <<"worker", w>> \in Holder /\ Content(<<"worker", w>>) = Got(w)
      /\ Content(<<"worker", w>>)' = Got(w)'
  BY ContentOf, ContentAfter DEF TypeOK
<1>2. \A g, h \in worker[w].got : g[1] = h[1] => g = h
  BY DEF PlaceInv, Once
<1>3. R \subseteq Got(w)
  BY DEF Got
<1>4. Got(w)' = Got(w) \ R
  <2>1. Got(w)' = {g[1] : g \in got}
    BY DEF Got
  <2>2. {g[1] : g \in got} = {g[1] : g \in worker[w].got} \ R
    BY <1>2
  <2>3. QED
    BY <2>1, <2>2 DEF Got
<1>5. \A v \in Workers : v # w => Got(v)' = Got(v)
  BY DEF Got
<1>6. Once' /\ Empty'
  BY <1>2 DEF PlaceInv, Once, Empty
<1>7. \A k \in Holder \ {<<"worker", w>>} : Content(k)' = Content(k)
  <2>1. Waiting' = Waiting
    BY DEF Waiting
  <2>2. QED
    BY <1>5, <2>1, Elsewhere
<1>8. Apart' /\ Whole'
  <2>1. accepted' = accepted \ R
    OBVIOUS
  <2>2. PICK a \in Holder : a = <<"worker", w>>
    BY <1>0
  <2>3. R \subseteq Content(a) /\ Content(a)' = Content(a) \ R
    BY <1>0, <1>3, <1>4, <2>2
  <2>4. \A k \in Holder \ {a} : Content(k)' = Content(k)
    BY <1>7, <2>2
  <2>5. Apart /\ Whole
    BY DEF PlaceInv
  <2>6. QED
    BY <2>1, <2>3, <2>4, <2>5, RemoveKeeps
<1>9. QED
  BY <1>6, <1>8 DEF PlaceInv

LEMMA WorkerKeepsPlaces ==
    ASSUME TypeOK, PlaceInv, NEW w \in Workers, WorkerStep(w)
    PROVE  PlaceInv'
<1>0. worker \in [Workers -> [stage: WorkerStage, got: SUBSET (Messages \X Priority)]]
  BY DEF TypeOK
<1>1. {} \subseteq worker[w].got
  OBVIOUS
<1>2. CASE Poll(w)
  <2>1. worker[w].got = {} /\ UNCHANGED <<putters, aging, accepted>>
    BY <1>2 DEF Poll, PlaceInv, Empty
  <2>2. CASE \A p \in Priority : queues[p] = <<>>
    <3>1. worker' = [worker EXCEPT ![w] = [stage |-> "wait", got |-> {}]]
          /\ UNCHANGED queues
      BY <1>2, <2>2 DEF Poll
    <3>2. worker'[w].got = {} /\ worker'[w].stage = "wait"
          /\ \A v \in Workers : v # w => worker'[v] = worker[v]
      BY <1>0, <3>1
    <3>3. QED
      BY <1>1, <2>1, <3>1, <3>2, WorkerKeepsRest
  <2>3. CASE \E p \in Priority : queues[p] # <<>>
    <3> DEFINE p == NextPriority
    <3>1. p \in Priority /\ queues[p] # <<>>
      BY <2>3, NextPriorityHasMessage
    <3>2. /\ queues' = [queues EXCEPT ![p] = Tail(@)]
          /\ worker' = [worker EXCEPT ![w] =
                          [stage |-> "route", got |-> {<<Head(queues[p]).m, p>>}]]
      BY <1>2, <2>3 DEF Poll, StartRoute
    <3> HIDE DEF p
    <3>3. {<<Head(queues[p]).m, p>>} = worker[w].got \cup {<<Head(queues[p]).m, p>>}
      BY <2>1
    <3>4. worker' = [worker EXCEPT ![w] =
            [stage |-> "route", got |-> worker[w].got \cup {<<Head(queues[p]).m, p>>}]]
      BY <3>2, <3>3
    <3>5. QED
      BY <2>1, <3>1, <3>2, <3>4, WorkerTakes
  <2>4. QED
    BY <2>2, <2>3
<1>4. ASSUME NEW p \in Priority, GetterTakes(w, p)
      PROVE  PlaceInv'
  <2>1. /\ queues[p] # <<>> /\ UNCHANGED <<putters, aging, accepted>>
        /\ queues' = [queues EXCEPT ![p] = Tail(@)]
        /\ worker' = [worker EXCEPT ![w] =
             [stage |-> "wait", got |-> worker[w].got \cup {<<Head(queues[p]).m, p>>}]]
    BY <1>4 DEF GetterTakes
  <2>2. QED
    BY <2>1, WorkerTakes
<1>5. CASE Wake(w)
  <2>1. PICK g \in worker[w].got :
          /\ worker' = [worker EXCEPT ![w] = [stage |-> "route", got |-> {<<g[1], g[2]>>}]]
          /\ accepted' = accepted \ Unclaimed(w, g)
    BY <1>5 DEF Wake, StartRoute
  <2>2. <<g[1], g[2]>> = g
    BY <1>0, <2>1
  <2>3. {g} \subseteq worker[w].got
        /\ accepted' = accepted \ {h[1] : h \in worker[w].got \ {g}}
    BY <2>1 DEF Unclaimed
  <2>4. UNCHANGED <<queues, putters, aging>>
    BY <1>5 DEF Wake
  <2>5. worker'[w].got = {g} /\ worker'[w].stage = "route"
        /\ \A v \in Workers : v # w => worker'[v] = worker[v]
    BY <1>0, <2>1, <2>2
  <2>6. QED
    BY <2>3, <2>4, <2>5, WorkerKeepsRest
<1>6. CASE Routed(w)
  <2>1. PICK next \in {"poll", "pause"} :
          worker' = [worker EXCEPT ![w] = [stage |-> next, got |-> {}]]
    BY <1>6 DEF Routed
  <2>2. accepted' = accepted \ {g[1] : g \in worker[w].got \ {}}
        /\ UNCHANGED <<queues, putters, aging>>
    BY <1>6 DEF Routed
  <2>3. worker'[w].got = {} /\ \A v \in Workers : v # w => worker'[v] = worker[v]
    BY <1>0, <2>1
  <2>4. QED
    BY <1>1, <2>2, <2>3, WorkerKeepsRest
<1>7. CASE PauseEnds(w)
  <2>1. worker[w].got = {}
    BY <1>7 DEF PauseEnds, PlaceInv, Empty
  <2>2. /\ worker' = [worker EXCEPT ![w] = [stage |-> "poll", got |-> {}]]
        /\ UNCHANGED <<queues, putters, aging, accepted>>
    BY <1>7 DEF PauseEnds
  <2>3. accepted' = accepted \ {g[1] : g \in worker[w].got \ {}}
    BY <2>1, <2>2
  <2>4. worker'[w].got = {} /\ \A v \in Workers : v # w => worker'[v] = worker[v]
    BY <1>0, <2>2
  <2>5. QED
    BY <1>1, <2>2, <2>3, <2>4, WorkerKeepsRest
<1>8. QED
  BY <1>2, <1>4, <1>5, <1>6, <1>7 DEF WorkerStep

-----------------------------------------------------------------------------
(* The steps of the aging loop *)

LEMMA AgeTakeKeepsPlaces ==
    ASSUME TypeOK, PlaceInv, AgeTake
    PROVE  PlaceInv'
<1>0. From[aging.stage] \in Priority
  BY DEF AgeTake, TakesFrom, From
<1> PICK p \in Priority : p = From[aging.stage]
  BY <1>0
<1> PICK qm : qm = Head(queues[p])
  OBVIOUS
<1>1. /\ TakesFrom(aging.stage) /\ aging.hand = <<>> /\ p \in Priority /\ queues[p] # <<>>
      /\ queues' = [queues EXCEPT ![p] = Tail(@)]
      /\ UNCHANGED <<putters, worker, accepted>>
  BY DEF AgeTake
<1>2. queues \in [Priority -> Seq(Queued)] /\ aging.young \in Seq(Queued)
      /\ aging \in [stage: AgingStage, hand: Seq(Queued), young: Seq(Queued), waits: BOOLEAN]
  BY DEF TypeOK
<1>3. \/ aging' = [aging EXCEPT !.hand = <<[qm EXCEPT !.age = 0]>>]
      \/ aging' = [aging EXCEPT !.young = Append(@, qm)]
  BY DEF AgeTake, Kept
<1>4. /\ qm.m \in Msgs(queues[p]) /\ qm \in Queued
      /\ Msgs(Tail(queues[p])) = Msgs(queues[p]) \ {qm.m} /\ Distinct(Tail(queues[p]))
  BY <1>1, <1>2, TakenFirst DEF PlaceInv, Once
<1>5. queues'[p] = Tail(queues[p]) /\ \A r \in Priority : r # p => queues'[r] = queues[r]
  BY <1>1, <1>2
<1>6. /\ <<"queue", p>> \in Holder /\ Content(<<"queue", p>>) = Msgs(queues[p])
      /\ Content(<<"queue", p>>)' = Content(<<"queue", p>>) \ {qm.m}
      /\ qm.m \in Content(<<"queue", p>>)
      /\ <<"queue", p>> # <<"hand", 0>> /\ <<"queue", p>> # <<"young", 0>>
  <2>1. <<"queue", p>> \in Holder /\ Content(<<"queue", p>>) = Msgs(queues[p])
    BY <1>1, ContentOf
  <2>2. Content(<<"queue", p>>)' = Msgs(queues'[p])
    BY <1>1, ContentAfter
  <2>3. QED
    BY <1>4, <1>5, <2>1, <2>2
<1>7. Waiting' = Waiting /\ \A w \in Workers : Got(w)' = Got(w)
  BY <1>1 DEF Waiting, Got
<1>8. CASE aging' = [aging EXCEPT !.hand = <<[qm EXCEPT !.age = 0]>>]
  <2> DEFINE um == [qm EXCEPT !.age = 0]
  <2>1. um.m = qm.m
    BY <1>4 DEF Queued
  <2>2. aging'.hand = <<um>> /\ aging'.young = aging.young /\ aging'.stage = aging.stage
    BY <1>2, <1>8
  <2> HIDE DEF um
  <2>3. Msgs(aging'.hand) = {qm.m} /\ Msgs(aging.hand) = {}
    BY <2>1, <2>2, <1>1 DEF Msgs
  <2>4. Once' /\ Empty'
    BY <1>1, <1>4, <1>5, <2>2 DEF PlaceInv, Once, Empty, TakesFrom, RefillsTo
  <2>5. \A k \in Holder \ {<<"queue", p>>, <<"hand", 0>>} : Content(k)' = Content(k)
    BY <1>5, <1>7, <2>2, Elsewhere
  <2>6. /\ <<"hand", 0>> \in Holder
        /\ Content(<<"hand", 0>>)' = Content(<<"hand", 0>>) \cup {qm.m}
    BY <2>3, ContentOf, ContentAfter
  <2>7. Apart' /\ Whole'
    <3>1. accepted' = accepted /\ Apart /\ Whole
      BY <1>1 DEF PlaceInv
    <3>2. QED
      BY <1>6, <2>5, <2>6, <3>1, MoveKeeps
  <2>8. QED
    BY <2>4, <2>7 DEF PlaceInv
<1>9. CASE aging' = [aging EXCEPT !.young = Append(@, qm)]
  <2>1. /\ aging'.young = Append(aging.young, qm) /\ aging'.hand = aging.hand
        /\ aging'.stage = aging.stage
    BY <1>2, <1>9
  <2>2. <<"young", 0>> \in Holder /\ Content(<<"young", 0>>) = Msgs(aging.young)
        /\ Content(<<"young", 0>>)' = Msgs(aging'.young)
    BY ContentOf, ContentAfter
  <2>3. qm.m \notin Msgs(aging.young)
    BY <1>6, <2>2 DEF PlaceInv, Apart
  <2>4. Msgs(aging'.young) = Msgs(aging.young) \cup {qm.m} /\ Distinct(aging'.young)
    BY <1>2, <1>4, <2>1, <2>3, AddedLast DEF PlaceInv, Once
  <2>5. Once' /\ Empty'
    BY <1>1, <1>4, <1>5, <2>1, <2>4 DEF PlaceInv, Once, Empty
  <2>6. \A k \in Holder \ {<<"queue", p>>, <<"young", 0>>} : Content(k)' = Content(k)
    BY <1>5, <1>7, <2>1, Elsewhere
  <2>7. Apart' /\ Whole'
    <3>1. accepted' = accepted /\ Apart /\ Whole
      BY <1>1 DEF PlaceInv
    <3>2. Content(<<"young", 0>>)' = Content(<<"young", 0>>) \cup {qm.m}
      BY <2>2, <2>4
    <3>3. QED
      BY <1>6, <2>2, <2>6, <3>1, <3>2, MoveKeeps
  <2>8. QED
    BY <2>5, <2>7 DEF PlaceInv
<1>10. QED
  BY <1>3, <1>8, <1>9

\* The aging loop holds what it held, and the queues do too.
LEMMA AgingHoldsOn ==
    ASSUME TypeOK, PlaceInv, UNCHANGED <<queues, putters, worker, accepted>>,
           aging'.hand = aging.hand, aging'.young = aging.young,
           RefillsTo(aging'.stage) => aging'.hand = <<>>
    PROVE  PlaceInv'
<1>1. Waiting' = Waiting /\ \A w \in Workers : Got(w)' = Got(w)
  BY DEF Waiting, Got
<1>2. \A k \in Holder \ {} : Content(k)' = Content(k)
  BY <1>1, Elsewhere
<1>3. Apart' /\ Whole'
  BY <1>2, SameKeeps DEF PlaceInv
<1>4. Once' /\ Empty'
  BY DEF PlaceInv, Once, Empty
<1>5. QED
  BY <1>3, <1>4 DEF PlaceInv

LEMMA AgePutKeepsPlaces ==
    ASSUME TypeOK, PlaceInv, AgePut
    PROVE  PlaceInv'
<1>1. /\ queues \in [Priority -> Seq(Queued)]
      /\ aging \in [stage: AgingStage, hand: Seq(Queued), young: Seq(Queued), waits: BOOLEAN]
      /\ Len(aging.hand) <= 1
      /\ UNCHANGED <<putters, worker, accepted>>
  BY DEF TypeOK, AgePut
<1>2. CASE Full(AgeTarget)
  <2>1. queues' = queues /\ aging' = AgeKeeps
    BY <1>2 DEF AgePut
  <2>2. aging'.hand = aging.hand /\ aging'.young = aging.young /\ aging'.stage = aging.stage
    BY <1>1, <2>1 DEF AgeKeeps
  <2>3. QED
    BY <1>1, <2>1, <2>2, AgingHoldsOn DEF PlaceInv, Empty
<1>3. CASE ~Full(AgeTarget)
  <2>1. PICK p \in Priority : p = AgeTarget
    BY AgeNextIsQueued DEF AgePut
  <2>2. PICK qm \in Queued : qm = AgeNext
    BY AgeNextIsQueued DEF AgePut
  <2>3. /\ queues' = [queues EXCEPT ![p] = Append(@, qm)]
        /\ aging' = [aging EXCEPT !.waits = FALSE, !.hand = <<>>,
                       !.young = IF RefillsTo(aging.stage) THEN Tail(@) ELSE @]
    BY <1>3, <2>1, <2>2 DEF AgePut
  <2>4. queues'[p] = Append(queues[p], qm)
        /\ \A r \in Priority : r # p => queues'[r] = queues[r]
    BY <1>1, <2>3
  <2>5. /\ aging'.hand = <<>> /\ aging'.stage = aging.stage
        /\ aging'.young = IF RefillsTo(aging.stage) THEN Tail(aging.young) ELSE aging.young
    BY <1>1, <2>3
  <2>6. Waiting' = Waiting /\ \A w \in Workers : Got(w)' = Got(w)
    BY <1>1 DEF Waiting, Got
  \* The list a that the message leaves.
  <2>7. ASSUME NEW a \in {<<"hand", 0>>, <<"young", 0>>},
               qm.m \in Content(a), Content(a)' = Content(a) \ {qm.m},
               \A k \in Holder \ {a, <<"queue", p>>} : Content(k)' = Content(k)
        PROVE  Apart' /\ Whole' /\ Distinct(queues'[p])
    <3>1. /\ a \in Holder /\ <<"queue", p>> \in Holder /\ a # <<"queue", p>>
          /\ Content(<<"queue", p>>) = Msgs(queues[p])
      BY <2>7, ContentOf
    <3>2. qm.m \notin Msgs(queues[p])
      BY <3>1, <2>7 DEF PlaceInv, Apart
    <3>3. Msgs(queues'[p]) = Msgs(queues[p]) \cup {qm.m} /\ Distinct(queues'[p])
      BY <1>1, <2>4, <3>2, AddedLast DEF PlaceInv, Once
    <3>4. Content(<<"queue", p>>)' = Content(<<"queue", p>>) \cup {qm.m}
      BY <3>1, <3>3, ContentAfter
    <3>5. Apart /\ Whole /\ accepted' = accepted
      BY <1>1 DEF PlaceInv
    <3>6. QED
      BY <2>7, <3>1, <3>3, <3>4, <3>5, MoveKeeps
  <2>8. CASE RefillsTo(aging.stage)
    <3>1. aging.young # <<>> /\ qm = Head(aging.young) /\ aging.hand = <<>>
      BY <2>2, <2>8 DEF AgePut, AgeHasNext, AgeNext, TakesFrom, RefillsTo, PlaceInv, Empty
    <3>2. aging.young \in Seq(Queued) /\ Distinct(aging.young) /\ aging'.young = Tail(aging.young)
      BY <1>1, <2>5, <2>8 DEF PlaceInv, Once
    <3>3. /\ qm.m \in Msgs(aging.young)
          /\ Msgs(aging'.young) = Msgs(aging.young) \ {qm.m} /\ Distinct(aging'.young)
      BY <3>1, <3>2, TakenFirst
    <3>4. qm.m \in Content(<<"young", 0>>)
          /\ Content(<<"young", 0>>)' = Content(<<"young", 0>>) \ {qm.m}
      BY <3>3, ContentOf, ContentAfter
    <3>5. \A k \in Holder \ {<<"young", 0>>, <<"queue", p>>} : Content(k)' = Content(k)
      BY <2>4, <2>5, <2>6, <3>1, Elsewhere
    <3>6. Apart' /\ Whole' /\ Distinct(queues'[p])
      BY <2>7, <3>4, <3>5
    <3>7. Once' /\ Empty'
      BY <1>1, <2>4, <2>5, <3>3, <3>6 DEF PlaceInv, Once, Empty
    <3>8. QED
      BY <3>6, <3>7 DEF PlaceInv
  <2>9. CASE ~RefillsTo(aging.stage)
    <3>1. aging.hand # <<>> /\ qm = Head(aging.hand) /\ aging'.young = aging.young
      BY <2>2, <2>5, <2>9 DEF AgePut, AgeHasNext, AgeNext
    <3>2. Len(aging.hand) = 1 /\ aging.hand[1] = qm /\ DOMAIN aging.hand = 1..1
      <4>1. PICK h \in Seq(Queued) : h = aging.hand
        BY <1>1
      <4>2. Len(h) <= 1 /\ h # <<>> /\ qm = Head(h)
        BY <1>1, <3>1, <4>1
      <4>3. Len(h) \in Nat /\ Len(h) # 0 /\ DOMAIN h = 1..Len(h)
        BY <4>2
      <4>4. Len(h) = 1
        BY <4>2, <4>3
      <4>5. Head(h) = h[1]
        BY <4>2
      <4>6. QED
        BY <4>1, <4>2, <4>3, <4>4, <4>5
    <3>3. Msgs(aging.hand) = {qm.m} /\ Msgs(aging'.hand) = {}
      <4>1. DOMAIN aging.hand = {1}
        BY <3>2
      <4>2. QED
        BY <2>5, <3>2, <4>1, NoMsgs DEF Msgs
    <3>4. qm.m \in Content(<<"hand", 0>>)
          /\ Content(<<"hand", 0>>)' = Content(<<"hand", 0>>) \ {qm.m}
      BY <3>3, ContentOf, ContentAfter
    <3>5. \A k \in Holder \ {<<"hand", 0>>, <<"queue", p>>} : Content(k)' = Content(k)
      BY <2>4, <2>6, <3>1, Elsewhere
    <3>6. Apart' /\ Whole' /\ Distinct(queues'[p])
      BY <2>7, <3>4, <3>5
    <3>7. Once' /\ Empty'
      BY <1>1, <2>4, <2>5, <3>1, <3>6 DEF PlaceInv, Once, Empty
    <3>8. QED
      BY <3>6, <3>7 DEF PlaceInv
  <2>10. QED
    BY <2>8, <2>9
<1>4. QED
  BY <1>2, <1>3

LEMMA AgingKeepsPlaces ==
    ASSUME TypeOK, PlaceInv, AgingStep
    PROVE  PlaceInv'
<1>1. aging \in [stage: AgingStage, hand: Seq(Queued), young: Seq(Queued), waits: BOOLEAN]
  BY DEF TypeOK
<1>2. CASE AgeStart
  <2>1. aging'.hand = aging.hand /\ aging'.young = aging.young /\ ~RefillsTo(aging'.stage)
        /\ UNCHANGED <<queues, putters, worker, accepted>>
    BY <1>1, <1>2 DEF AgeStart, RefillsTo
  <2>2. QED
    BY <2>1, AgingHoldsOn
<1>3. CASE AgeLoopEnds
  <2>1. aging'.hand = aging.hand /\ aging'.young = aging.young
        /\ UNCHANGED <<queues, putters, worker, accepted>>
    BY <1>1, <1>3 DEF AgeLoopEnds
  <2>2. aging.hand = <<>>
    BY <1>1, <1>3 DEF AgeLoopEnds, AgeHasNext, AgingStage, TakesFrom, RefillsTo, PlaceInv, Empty
  <2>3. QED
    BY <2>1, <2>2, AgingHoldsOn
<1>4. QED
  BY <1>2, <1>3, AgeTakeKeepsPlaces, AgePutKeepsPlaces DEF AgingStep

LEMMA TickKeepsPlaces ==
    ASSUME TypeOK, PlaceInv, Tick
    PROVE  PlaceInv'
<1>1. /\ queues \in [Priority -> Seq(Queued)] /\ putters \subseteq [qm: Queued, prio: Priority]
      /\ aging \in [stage: AgingStage, hand: Seq(Queued), young: Seq(Queued), waits: BOOLEAN]
      /\ UNCHANGED <<worker, accepted>>
  BY DEF TypeOK, Tick
<1>2. \A p \in Priority : queues'[p] = OlderSeq(queues[p]) /\ queues[p] \in Seq(Queued)
  BY <1>1 DEF Tick
<1>3. /\ aging'.hand = OlderSeq(aging.hand) /\ aging'.young = OlderSeq(aging.young)
      /\ aging'.stage = aging.stage
  BY <1>1 DEF Tick
<1> DEFINE OlderPut(u) == [u EXCEPT !.qm = Older(u.qm)]
<1>4. \A u \in putters : OlderPut(u).qm.m = u.qm.m
  <2>1. \A qm \in Queued : Older(qm).m = qm.m
    BY DEF Older, Queued
  <2>2. QED
    BY <1>1, <2>1
<1>5. putters' = {OlderPut(u) : u \in putters}
  BY DEF Tick
<1> HIDE DEF OlderPut
<1>6. Waiting' = Waiting
  BY <1>4, <1>5 DEF Waiting
<1>7. \A w \in Workers : Got(w)' = Got(w)
  BY <1>1 DEF Got
<1>8. /\ \A p \in Priority : Msgs(queues'[p]) = Msgs(queues[p]) /\ Distinct(queues'[p])
      /\ Msgs(aging'.hand) = Msgs(aging.hand)
      /\ Msgs(aging'.young) = Msgs(aging.young) /\ Distinct(aging'.young)
  BY <1>1, <1>2, <1>3, OlderMsgs DEF PlaceInv, Once
<1>9. \A k \in Holder \ {} : Content(k)' = Content(k)
  BY <1>6, <1>7, <1>8, Elsewhere
<1>10. Apart' /\ Whole'
  BY <1>1, <1>9, SameKeeps DEF PlaceInv
<1>11. Once'
  <2>1. \A u, v \in putters' : u.qm.m = v.qm.m => u = v
    BY <1>4, <1>5 DEF PlaceInv, Once
  <2>2. QED
    BY <1>1, <1>8, <2>1 DEF PlaceInv, Once
<1>12. Empty'
  <2>1. aging.hand = <<>> => aging'.hand = <<>>
    BY <1>3 DEF OlderSeq
  <2>2. QED
    BY <1>1, <1>3, <2>1 DEF PlaceInv, Empty
<1>13. QED
  BY <1>10, <1>11, <1>12 DEF PlaceInv

-----------------------------------------------------------------------------
LEMMA InitPlaceInv == Init => PlaceInv
<1> SUFFICES ASSUME Init PROVE PlaceInv
  OBVIOUS
<1>1. \A k \in Holder : Content(k) = {}
  <2>1. \A p \in Priority : queues[p] = <<>>
    BY DEF Init
  <2>2. Waiting = {} /\ \A w \in Workers : Got(w) = {}
    BY DEF Init, Waiting, Got
  <2>3. aging.hand = <<>> /\ aging.young = <<>>
    BY DEF Init, Sleeping
  <2>4. QED
    BY <2>1, <2>2, <2>3, NoMsgs, ContentOf DEF Holder
<1>2. Apart /\ Whole
  BY <1>1 DEF Apart, Whole, Init
<1>3. Once /\ Empty
  BY NoMsgs DEF Init, Sleeping, Once, Empty, RefillsTo
<1>4. QED
  BY <1>2, <1>3 DEF PlaceInv

LEMMA NextKeepsPlaces ==
    ASSUME TypeOK, PlaceInv, [Next]_vars
    PROVE  PlaceInv'
<1>1. ASSUME NEW m \in Messages, NEW p \in Priority, Put(m, p)
      PROVE  PlaceInv'
  BY <1>1, PutKeepsPlaces
<1>2. ASSUME NEW u \in putters, PutGoesOn(u)
      PROVE  PlaceInv'
  BY <1>2, PutGoesOnKeepsPlaces
<1>3. ASSUME NEW w \in Workers, WorkerStep(w)
      PROVE  PlaceInv'
  BY <1>3, WorkerKeepsPlaces
<1>4. CASE AgingStep
  BY <1>4, AgingKeepsPlaces
<1>5. CASE Tick
  BY <1>5, TickKeepsPlaces
<1>6. CASE UNCHANGED vars
  BY <1>6, AgingHoldsOn DEF vars, PlaceInv, Empty
<1>7. QED
  BY <1>1, <1>2, <1>3, <1>4, <1>5, <1>6 DEF Next

-----------------------------------------------------------------------------
(* The places of InOnePlace                                                *)

InQueue(p)  == {<<queues[p][i].m, "queue", p, i>> : i \in DOMAIN queues[p]}
InPut       == {<<u.qm.m, "put", u.prio, 0>> : u \in putters}
InHand      == {<<aging.hand[i].m, "hand", 0, i>> : i \in DOMAIN aging.hand}
InYoung     == {<<aging.young[i].m, "young", 0, i>> : i \in DOMAIN aging.young}
InWorker(w) == {<<g[1], "worker", g[2], w>> : g \in worker[w].got}

InQueues  == UNION {InQueue(p) : p \in Priority}
InWorkers == UNION {InWorker(w) : w \in Workers}

\* The places at a holder.
PlacesAt(k) == CASE k[1] = "queue"  -> InQueue(k[2])
                 [] k[1] = "worker" -> InWorker(k[2])
                 [] k[1] = "put"    -> InPut
                 [] k[1] = "hand"   -> InHand
                 [] k[1] = "young"  -> InYoung

LEMMA PlacesAtHolders == Places = UNION {PlacesAt(k) : k \in Holder}
<1>1. /\ \A p \in Priority : <<"queue", p>> \in Holder /\ PlacesAt(<<"queue", p>>) = InQueue(p)
      /\ \A w \in Workers : <<"worker", w>> \in Holder /\ PlacesAt(<<"worker", w>>) = InWorker(w)
      /\ <<"put", 0>> \in Holder /\ PlacesAt(<<"put", 0>>) = InPut
      /\ <<"hand", 0>> \in Holder /\ PlacesAt(<<"hand", 0>>) = InHand
      /\ <<"young", 0>> \in Holder /\ PlacesAt(<<"young", 0>>) = InYoung
  BY DEF Holder, PlacesAt
<1>2. Places = InQueues \cup InPut \cup InHand \cup InYoung \cup InWorkers
  BY DEF Places, InQueues, InQueue, InPut, InHand, InYoung, InWorkers, InWorker
<1>3. \A x : x \in InQueues <=> \E p \in Priority : x \in InQueue(p)
  BY DEF InQueues
<1>4. \A x : x \in InWorkers <=> \E w \in Workers : x \in InWorker(w)
  BY DEF InWorkers
<1>5. ASSUME NEW k \in Holder
      PROVE  PlacesAt(k) \subseteq Places
  <2>1. CASE \E p \in Priority : k = <<"queue", p>>
    BY <1>1, <1>2, <1>3, <2>1
  <2>2. CASE \E w \in Workers : k = <<"worker", w>>
    BY <1>1, <1>2, <1>4, <2>2
  <2>3. CASE k \in {<<"put", 0>>, <<"hand", 0>>, <<"young", 0>>}
    <3>1. PlacesAt(k) \in {InPut, InHand, InYoung}
      BY <1>1, <2>3
    <3>2. QED
      BY <1>2, <3>1
  <2>4. QED
    BY <2>1, <2>2, <2>3 DEF Holder
<1>6. ASSUME NEW x \in Places
      PROVE  \E k \in Holder : x \in PlacesAt(k)
  <2>1. CASE \E p \in Priority : x \in InQueue(p)
    BY <1>1, <2>1
  <2>2. CASE \E w \in Workers : x \in InWorker(w)
    BY <1>1, <2>2
  <2>3. CASE x \in InPut \cup InHand \cup InYoung
    BY <1>1, <2>3
  <2>4. x \in InQueues \/ x \in InPut \cup InHand \cup InYoung \/ x \in InWorkers
    BY <1>2
  <2>5. QED
    BY <1>3, <1>4, <2>1, <2>2, <2>3, <2>4
<1>7. QED
  BY <1>5, <1>6

\* A holder has a place for each message it holds, and only one.
LEMMA OnePlaceAt ==
    ASSUME TypeOK, Once, NEW k \in Holder
    PROVE  /\ \A m : m \in Content(k) <=> \E x \in PlacesAt(k) : m = x[1]
           /\ \A x, y \in PlacesAt(k) : x[1] = y[1] => x = y
<1>1. ASSUME NEW p \in Priority, k = <<"queue", p>>
      PROVE  /\ \A m : m \in Content(k) <=> \E x \in PlacesAt(k) : m = x[1]
             /\ \A x, y \in PlacesAt(k) : x[1] = y[1] => x = y
  <2>1. PlacesAt(k) = InQueue(p) /\ Content(k) = Msgs(queues[p])
    BY <1>1 DEF PlacesAt, Content
  <2>2. ASSUME NEW m
        PROVE  m \in Msgs(queues[p]) <=> \E x \in InQueue(p) : m = x[1]
    <3>1. ASSUME m \in Msgs(queues[p])
          PROVE  \E x \in InQueue(p) : m = x[1]
      <4>1. PICK i \in DOMAIN queues[p] : m = queues[p][i].m
        BY <3>1 DEF Msgs
      <4>2. <<queues[p][i].m, "queue", p, i>> \in InQueue(p)
        BY DEF InQueue
      <4>3. QED
        BY <4>1, <4>2
    <3>2. ASSUME NEW x \in InQueue(p), m = x[1]
          PROVE  m \in Msgs(queues[p])
      <4>1. PICK i \in DOMAIN queues[p] : x = <<queues[p][i].m, "queue", p, i>>
        BY DEF InQueue
      <4>2. QED
        BY <3>2, <4>1 DEF Msgs
    <3>3. QED
      BY <3>1, <3>2
  <2>3. \A x, y \in InQueue(p) : x[1] = y[1] => x = y
    BY DEF InQueue, Once, Distinct
  <2>4. QED
    BY <2>1, <2>2, <2>3
<1>2. ASSUME NEW w \in Workers, k = <<"worker", w>>
      PROVE  /\ \A m : m \in Content(k) <=> \E x \in PlacesAt(k) : m = x[1]
             /\ \A x, y \in PlacesAt(k) : x[1] = y[1] => x = y
  <2>1. PlacesAt(k) = InWorker(w) /\ Content(k) = Got(w)
    BY <1>2 DEF PlacesAt, Content
  <2>2. ASSUME NEW m
        PROVE  m \in Got(w) <=> \E x \in InWorker(w) : m = x[1]
    <3>1. ASSUME m \in Got(w)
          PROVE  \E x \in InWorker(w) : m = x[1]
      <4>1. PICK g \in worker[w].got : m = g[1]
        BY <3>1 DEF Got
      <4>2. <<g[1], "worker", g[2], w>> \in InWorker(w)
        BY DEF InWorker
      <4>3. QED
        BY <4>1, <4>2
    <3>2. ASSUME NEW x \in InWorker(w), m = x[1]
          PROVE  m \in Got(w)
      <4>1. PICK g \in worker[w].got : x = <<g[1], "worker", g[2], w>>
        BY DEF InWorker
      <4>2. QED
        BY <3>2, <4>1 DEF Got
    <3>3. QED
      BY <3>1, <3>2
  <2>3. \A x, y \in InWorker(w) : x[1] = y[1] => x = y
    BY DEF InWorker, Once
  <2>4. QED
    BY <2>1, <2>2, <2>3
<1>3. CASE k = <<"put", 0>>
  <2>1. PlacesAt(k) = InPut /\ Content(k) = Waiting
    BY <1>3 DEF PlacesAt, Content
  <2>2. ASSUME NEW m
        PROVE  m \in Waiting <=> \E x \in InPut : m = x[1]
    <3>1. ASSUME m \in Waiting
          PROVE  \E x \in InPut : m = x[1]
      <4>1. PICK u \in putters : m = u.qm.m
        BY <3>1 DEF Waiting
      <4>2. <<u.qm.m, "put", u.prio, 0>> \in InPut
        BY DEF InPut
      <4>3. QED
        BY <4>1, <4>2
    <3>2. ASSUME NEW x \in InPut, m = x[1]
          PROVE  m \in Waiting
      <4>1. PICK u \in putters : x = <<u.qm.m, "put", u.prio, 0>>
        BY DEF InPut
      <4>2. QED
        BY <3>2, <4>1 DEF Waiting
    <3>3. QED
      BY <3>1, <3>2
  <2>3. \A x, y \in InPut : x[1] = y[1] => x = y
    BY DEF InPut, Once
  <2>4. QED
    BY <2>1, <2>2, <2>3
<1>4. CASE k = <<"hand", 0>>
  <2>1. PlacesAt(k) = InHand /\ Content(k) = Msgs(aging.hand)
    BY <1>4 DEF PlacesAt, Content
  <2>2. ASSUME NEW m
        PROVE  m \in Msgs(aging.hand) <=> \E x \in InHand : m = x[1]
    <3>1. ASSUME m \in Msgs(aging.hand)
          PROVE  \E x \in InHand : m = x[1]
      <4>1. PICK i \in DOMAIN aging.hand : m = aging.hand[i].m
        BY <3>1 DEF Msgs
      <4>2. <<aging.hand[i].m, "hand", 0, i>> \in InHand
        BY DEF InHand
      <4>3. QED
        BY <4>1, <4>2
    <3>2. ASSUME NEW x \in InHand, m = x[1]
          PROVE  m \in Msgs(aging.hand)
      <4>1. PICK i \in DOMAIN aging.hand : x = <<aging.hand[i].m, "hand", 0, i>>
        BY DEF InHand
      <4>2. QED
        BY <3>2, <4>1 DEF Msgs
    <3>3. QED
      BY <3>1, <3>2
  <2>3. \A i, j \in DOMAIN aging.hand : i = j
    <3>1. PICK h \in Seq(Queued) : h = aging.hand /\ Len(h) <= 1
      BY DEF TypeOK
    <3>2. DOMAIN h = 1..Len(h) /\ Len(h) \in Nat
      OBVIOUS
    <3>3. QED
      BY <3>1, <3>2
  <2>4. \A x, y \in InHand : x[1] = y[1] => x = y
    BY <2>3 DEF InHand
  <2>5. QED
    BY <2>1, <2>2, <2>4
<1>5. CASE k = <<"young", 0>>
  <2>1. PlacesAt(k) = InYoung /\ Content(k) = Msgs(aging.young)
    BY <1>5 DEF PlacesAt, Content
  <2>2. ASSUME NEW m
        PROVE  m \in Msgs(aging.young) <=> \E x \in InYoung : m = x[1]
    <3>1. ASSUME m \in Msgs(aging.young)
          PROVE  \E x \in InYoung : m = x[1]
      <4>1. PICK i \in DOMAIN aging.young : m = aging.young[i].m
        BY <3>1 DEF Msgs
      <4>2. <<aging.young[i].m, "young", 0, i>> \in InYoung
        BY DEF InYoung
      <4>3. QED
        BY <4>1, <4>2
    <3>2. ASSUME NEW x \in InYoung, m = x[1]
          PROVE  m \in Msgs(aging.young)
      <4>1. PICK i \in DOMAIN aging.young : x = <<aging.young[i].m, "young", 0, i>>
        BY DEF InYoung
      <4>2. QED
        BY <3>2, <4>1 DEF Msgs
    <3>3. QED
      BY <3>1, <3>2
  <2>3. \A x, y \in InYoung : x[1] = y[1] => x = y
    BY DEF InYoung, Once, Distinct
  <2>4. QED
    BY <2>1, <2>2, <2>3
<1>6. QED
  BY <1>1, <1>2, <1>3, <1>4, <1>5 DEF Holder

LEMMA PlaceInvShowsInOnePlace == TypeOK /\ PlaceInv => InOnePlace
<1> SUFFICES ASSUME TypeOK, PlaceInv, NEW m \in Messages
             PROVE  Cardinality({x \in Places : x[1] = m}) = IF m \in accepted THEN 1 ELSE 0
  BY DEF InOnePlace
<1>1. \A k \in Holder : \A x \in PlacesAt(k) : x[1] \in Content(k)
  BY OnePlaceAt DEF PlaceInv
<1>2. CASE m \in accepted
  <2>1. PICK k \in Holder : m \in Content(k)
    BY <1>2 DEF PlaceInv, Whole
  <2>2. PICK x \in PlacesAt(k) : x[1] = m
    BY <2>1, OnePlaceAt DEF PlaceInv
  <2>3. ASSUME NEW y \in Places, y[1] = m
        PROVE  y = x
    <3>1. PICK l \in Holder : y \in PlacesAt(l)
      BY PlacesAtHolders
    <3>2. m \in Content(l)
      BY <1>1, <2>3, <3>1
    <3>3. l = k
      BY <2>1, <3>2 DEF PlaceInv, Apart
    <3>4. QED
      BY <2>2, <2>3, <3>1, <3>3, OnePlaceAt DEF PlaceInv
  <2>4. x \in Places
    BY PlacesAtHolders
  <2>5. {y \in Places : y[1] = m} = {x}
    BY <2>2, <2>3, <2>4
  <2>6. QED
    BY <1>2, <2>5, FS_Singleton
<1>3. CASE m \notin accepted
  <2>1. {y \in Places : y[1] = m} = {}
    BY <1>1, <1>3, PlacesAtHolders DEF PlaceInv, Whole
  <2>2. QED
    BY <1>3, <2>1, FS_EmptySet
<1>4. QED
  BY <1>2, <1>3

\* An accepted message is in exactly one place until it is routed or lost: the
\* queues, the puts that wait for room, the aging loop and the workers hand
\* it on, and none of them keeps a copy or drops it.
THEOREM InOnePlaceHolds == Spec => []InOnePlace
<1>1. Init => PlaceInv
  BY InitPlaceInv
<1>2. TypeOK /\ PlaceInv /\ [Next]_vars => PlaceInv'
  BY NextKeepsPlaces
<1>3. TypeOK /\ PlaceInv => InOnePlace
  BY PlaceInvShowsInOnePlace
<1>4. QED
  BY <1>1, <1>2, <1>3, PriorityTypeCorrect, PTL DEF Spec

-----------------------------------------------------------------------------
(* The oldest first, as long as there is room.                             *)

InOrder(s)   == \A i, j \in DOMAIN s : i < j => s[i].age >= s[j].age
Before(s, t) == \A i \in DOMAIN s, j \in DOMAIN t : s[i].age >= t[j].age

\* What the aging loop keeps apart is older than what it has not looked at yet,
\* and younger than what it has put back; what it moves up is as if new.
AgingOrder ==
    /\ OldestFirst /\ InOrder(aging.young)
    /\ aging.hand # <<>> => TakesFrom(aging.stage) /\ aging.hand[1].age = 0
    /\ aging.stage = "sleep" => aging.young = <<>>
    /\ TakesFrom(aging.stage) => Before(aging.young, queues[From[aging.stage]])
    /\ RefillsTo(aging.stage) => Before(queues[From[aging.stage]], aging.young)

\* As long as there is room nobody waits, and the aging loop runs to its end.
RoomInv == waited \/ (putters = {} /\ ~aging.waits /\ AgingOrder)

\* A message no older than any other goes to the end.
LEMMA AddedInOrder ==
    ASSUME NEW s \in Seq(Queued), NEW qm \in Queued, InOrder(s),
           \A i \in DOMAIN s : s[i].age >= qm.age
    PROVE  InOrder(Append(s, qm))
<1>1. /\ DOMAIN Append(s, qm) = DOMAIN s \cup {Len(s) + 1}
      /\ \A i \in DOMAIN s : i < Len(s) + 1 /\ Append(s, qm)[i] = s[i]
      /\ Append(s, qm)[Len(s) + 1] = qm /\ Len(s) \in Nat /\ DOMAIN s \subseteq Nat
  OBVIOUS
<1> SUFFICES ASSUME NEW i \in DOMAIN Append(s, qm), NEW j \in DOMAIN Append(s, qm), i < j
             PROVE  Append(s, qm)[i].age >= Append(s, qm)[j].age
  BY DEF InOrder
<1>3. i \in DOMAIN s
  BY <1>1
<1>4. CASE j \in DOMAIN s
  BY <1>1, <1>3, <1>4 DEF InOrder
<1>5. CASE j = Len(s) + 1
  BY <1>1, <1>3, <1>5
<1>6. QED
  BY <1>1, <1>4, <1>5

LEMMA AgesAreNumbers ==
    ASSUME NEW s \in Seq(Queued), NEW i \in DOMAIN s
    PROVE  s[i] \in Queued /\ s[i].age \in Nat /\ s[i].age >= 0
<1>1. s[i] \in Queued
  OBVIOUS
<1>2. QED
  BY <1>1, AgesStayAges DEF Queued, Age

\* Taking the first message keeps the order, and it is no younger than the rest.
LEMMA TakenInOrder ==
    ASSUME NEW s \in Seq(Queued), s # <<>>, InOrder(s)
    PROVE  /\ InOrder(Tail(s)) /\ Tail(s) \in Seq(Queued)
           /\ \A j \in DOMAIN Tail(s) : Head(s).age >= Tail(s)[j].age
           /\ \A j \in DOMAIN Tail(s) : \E i \in DOMAIN s : s[i] = Tail(s)[j]
           /\ \E i \in DOMAIN s : s[i] = Head(s)
<1>1. Len(s) \in Nat /\ Len(s) >= 1 /\ DOMAIN s = 1..Len(s) /\ 1 \in DOMAIN s
      /\ Head(s) = s[1] /\ Tail(s) \in Seq(Queued)
      /\ DOMAIN Tail(s) = 1..(Len(s) - 1)
      /\ \A i \in 1..(Len(s) - 1) : Tail(s)[i] = s[i + 1]
  OBVIOUS
<1>2. \A i \in DOMAIN Tail(s) :
        i \in Nat /\ i + 1 \in DOMAIN s /\ 1 < i + 1 /\ Tail(s)[i] = s[i + 1]
  BY <1>1
<1>3. InOrder(Tail(s))
  <2> SUFFICES ASSUME NEW i \in DOMAIN Tail(s), NEW j \in DOMAIN Tail(s), i < j
               PROVE  Tail(s)[i].age >= Tail(s)[j].age
    BY DEF InOrder
  <2>1. i + 1 < j + 1
    BY <1>2
  <2>2. QED
    BY <1>2, <2>1 DEF InOrder
<1>4. \A j \in DOMAIN Tail(s) : Head(s).age >= Tail(s)[j].age
  BY <1>1, <1>2 DEF InOrder
<1>5. QED
  BY <1>1, <1>2, <1>3, <1>4

\* All messages grow older together, and stay in order.
LEMMA OlderInOrder ==
    ASSUME NEW s \in Seq(Queued), InOrder(s)
    PROVE  InOrder(OlderSeq(s))
<1>1. ASSUME NEW a \in Queued, NEW b \in Queued, a.age >= b.age
      PROVE  Older(a).age >= Older(b).age
  BY <1>1, AgesStayAges DEF Older, Queued, Age
<1>2. DOMAIN OlderSeq(s) = DOMAIN s /\ \A i \in DOMAIN s : OlderSeq(s)[i] = Older(s[i])
  BY DEF OlderSeq
<1>3. QED
  BY <1>1, <1>2 DEF InOrder

\* The order in the queues when a message is added to one or taken from one.
LEMMA QueueAdded ==
    ASSUME TypeOK, OldestFirst, NEW p \in Priority, NEW qm \in Queued,
           \A i \in DOMAIN queues[p] : queues[p][i].age >= qm.age,
           queues' = [queues EXCEPT ![p] = Append(@, qm)]
    PROVE  OldestFirst'
<1>1. queues \in [Priority -> Seq(Queued)] /\ \A r \in Priority : InOrder(queues[r])
  BY DEF TypeOK, OldestFirst, InOrder
<1>2. /\ queues'[p] = Append(queues[p], qm)
      /\ \A r \in Priority : r # p => queues'[r] = queues[r]
  BY <1>1
<1>3. InOrder(queues'[p])
  BY <1>1, <1>2, AddedInOrder
<1>4. \A r \in Priority : InOrder(queues'[r])
  BY <1>1, <1>2, <1>3
<1>5. QED
  BY <1>4 DEF OldestFirst, InOrder

LEMMA QueueTaken ==
    ASSUME TypeOK, OldestFirst, NEW p \in Priority, queues[p] # <<>>,
           queues' = [queues EXCEPT ![p] = Tail(@)]
    PROVE  OldestFirst'
<1>1. queues \in [Priority -> Seq(Queued)] /\ \A r \in Priority : InOrder(queues[r])
  BY DEF TypeOK, OldestFirst, InOrder
<1>2. /\ queues'[p] = Tail(queues[p])
      /\ \A r \in Priority : r # p => queues'[r] = queues[r]
  BY <1>1
<1>3. InOrder(queues'[p])
  BY <1>1, <1>2, TakenInOrder
<1>4. \A r \in Priority : InOrder(queues'[r])
  BY <1>1, <1>2, <1>3
<1>5. QED
  BY <1>4 DEF OldestFirst, InOrder

\* While the aging loop sleeps, only the order of the queues counts.
LEMMA AsleepKeepsRoom ==
    ASSUME putters' = {}, ~aging.waits, AgingOrder, aging.stage = "sleep",
           OldestFirst', aging' = aging
    PROVE  RoomInv'
<1>1. ~TakesFrom(aging.stage) /\ ~RefillsTo(aging.stage)
  BY DEF TakesFrom, RefillsTo
<1>2. aging.young = <<>> /\ aging.hand = <<>>
  BY <1>1 DEF AgingOrder
<1>3. QED
  BY <1>1, <1>2 DEF RoomInv, AgingOrder, InOrder, TakesFrom, RefillsTo

\* A message is added to a queue or taken from one while the aging loop sleeps.
LEMMA OthersKeepRoom ==
    ASSUME TypeOK, putters = {}, ~aging.waits, putters' = {}, ~aging'.waits, AgingOrder,
           \/ \E m \in Messages, p \in Priority : Put(m, p)
           \/ \E u \in putters : PutGoesOn(u)
           \/ \E w \in Workers : WorkerStep(w)
           \/ Tick
    PROVE  RoomInv'
<1>1. aging.stage = "sleep" /\ OldestFirst
  <2>1. LoopFree
    BY DEF Put, PutGoesOn, WorkerStep, Poll, GetterTakes, Wake, Routed, PauseEnds, Tick
  <2>2. QED
    BY <2>1 DEF LoopFree, AgingOrder
<1>2. ASSUME NEW m \in Messages, NEW p \in Priority, Put(m, p) PROVE RoomInv'
  <2> DEFINE qm == [m |-> m, age |-> 0]
  <2>1. ~Full(p)
    BY <1>2 DEF Put
  <2>2. queues' = [queues EXCEPT ![p] = Append(@, qm)] /\ aging' = aging
    BY <1>2, <2>1 DEF Put
  <2>3. qm \in Queued /\ qm.age = 0
    BY AgesStayAges DEF Queued
  <2>4. \A i \in DOMAIN queues[p] : queues[p][i].age >= 0
    BY AgesAreNumbers DEF TypeOK
  <2> HIDE DEF qm
  <2>5. OldestFirst'
    BY <1>1, <2>2, <2>3, <2>4, QueueAdded
  <2>6. QED
    BY <1>1, <2>2, <2>5, AsleepKeepsRoom
<1>3. ASSUME NEW w \in Workers, WorkerStep(w) PROVE RoomInv'
  <2>1. aging' = aging
    BY <1>3 DEF WorkerStep, Poll, GetterTakes, Wake, Routed, PauseEnds
  <2>2. \/ queues' = queues
        \/ \E p \in Priority : /\ queues[p] # <<>>
                               /\ queues' = [queues EXCEPT ![p] = Tail(@)]
    <3>1. CASE Poll(w)
      <4>1. CASE \A p \in Priority : queues[p] = <<>>
        BY <3>1, <4>1 DEF Poll
      <4>2. CASE \E p \in Priority : queues[p] # <<>>
        <5>1. NextPriority \in Priority /\ queues[NextPriority] # <<>>
          BY <4>2, NextPriorityHasMessage
        <5>2. queues' = [queues EXCEPT ![NextPriority] = Tail(@)]
          BY <3>1, <4>2 DEF Poll
        <5>3. QED
          BY <5>1, <5>2
      <4>3. QED
        BY <4>1, <4>2
    <3>2. CASE \E p \in Priority : GetterTakes(w, p)
      BY <3>2 DEF GetterTakes
    <3>3. CASE Wake(w) \/ Routed(w) \/ PauseEnds(w)
      BY <3>3 DEF Wake, Routed, PauseEnds
    <3>4. QED
      BY <1>3, <3>1, <3>2, <3>3 DEF WorkerStep
  <2>3. OldestFirst'
    <3>1. CASE queues' = queues
      BY <1>1, <3>1 DEF OldestFirst
    <3>2. ASSUME NEW p \in Priority, queues[p] # <<>>,
                 queues' = [queues EXCEPT ![p] = Tail(@)]
          PROVE  OldestFirst'
      BY <1>1, <3>2, QueueTaken
    <3>3. QED
      BY <2>2, <3>1, <3>2
  <2>4. QED
    BY <1>1, <2>1, <2>3, AsleepKeepsRoom
<1>4. CASE Tick
  <2>1. queues' = [p \in Priority |-> OlderSeq(queues[p])]
        /\ aging' = [aging EXCEPT !.hand = OlderSeq(@), !.young = OlderSeq(@)]
    BY <1>4 DEF Tick
  <2>2. OldestFirst'
    <3>1. \A p \in Priority : InOrder(OlderSeq(queues[p]))
      BY <1>1, OlderInOrder DEF TypeOK, OldestFirst, InOrder
    <3>2. QED
      BY <2>1, <3>1 DEF OldestFirst, InOrder
  <2>3. aging.hand = <<>> /\ aging.young = <<>>
    BY <1>1 DEF AgingOrder, TakesFrom
  <2>4. aging' = aging
    <3>1. OlderSeq(<<>>) = <<>>
      BY DEF OlderSeq
    <3>2. QED
      BY <2>1, <2>3, <3>1 DEF TypeOK
  <2>5. QED
    BY <1>1, <2>2, <2>4, AsleepKeepsRoom
<1>5. QED
  BY <1>2, <1>3, <1>4

\* The aging loop takes a message from a queue.
LEMMA AgeTakeKeepsRoom ==
    ASSUME TypeOK, putters = {}, ~aging.waits, AgingOrder, AgeTake
    PROVE  RoomInv'
<1> DEFINE p  == From[aging.stage]
           qm == Head(queues[p])
<1>1. /\ p \in Priority /\ queues[p] \in Seq(Queued) /\ aging.young \in Seq(Queued)
      /\ TakesFrom(aging.stage) /\ ~RefillsTo(aging.stage) /\ aging.stage # "sleep"
  BY DEF AgeTake, TakesFrom, RefillsTo, From, TypeOK
<1>2. /\ queues[p] # <<>> /\ queues' = [queues EXCEPT ![p] = Tail(@)]
      /\ aging.hand = <<>> /\ putters' = putters
  BY DEF AgeTake
<1>3. OldestFirst'
  BY <1>1, <1>2, QueueTaken DEF AgingOrder
<1>4. /\ InOrder(queues[p]) /\ InOrder(aging.young) /\ Before(aging.young, queues[p])
  BY <1>1 DEF AgingOrder, OldestFirst, InOrder
<1>5. queues'[p] = Tail(queues[p])
  BY <1>1, <1>2 DEF TypeOK
<1>6. aging' = IF Aged(qm, p)
                 THEN [aging EXCEPT !.hand = <<[qm EXCEPT !.age = 0]>>]
                 ELSE [aging EXCEPT !.young = Append(aging.young, qm)]
  BY DEF AgeTake, Kept
<1>7. /\ \A j \in DOMAIN Tail(queues[p]) : qm.age >= Tail(queues[p])[j].age
      /\ \A j \in DOMAIN Tail(queues[p]) : \E i \in DOMAIN queues[p] : queues[p][i] = Tail(queues[p])[j]
      /\ \E i \in DOMAIN queues[p] : queues[p][i] = qm
  BY <1>1, <1>2, <1>4, TakenInOrder
<1>8. qm \in Queued
  BY <1>1, <1>7
<1> HIDE DEF p, qm
<1>9. CASE Aged(qm, p)
  <2>1. [qm EXCEPT !.age = 0].age = 0
    BY <1>8 DEF Queued
  <2> DEFINE h == [qm EXCEPT !.age = 0]
  <2>2. h.age = 0
    BY <2>1
  <2>3. aging' = [aging EXCEPT !.hand = <<h>>]
    BY <1>6, <1>9
  <2> HIDE DEF h
  <2>4. aging'.stage = aging.stage /\ aging'.young = aging.young /\ aging'.hand = <<h>>
        /\ ~aging'.waits
    BY <2>3 DEF TypeOK
  <2>5. Before(aging.young, Tail(queues[p]))
    BY <1>4, <1>7 DEF Before
  <2>6. Before(aging'.young, queues'[p])
    BY <2>4, <2>5, <1>5
  <2>7. QED
    BY <1>1, <1>2, <1>3, <1>4, <2>2, <2>4, <2>6
       DEF RoomInv, AgingOrder, TakesFrom, RefillsTo, p, InOrder, Before
<1>10. CASE ~Aged(qm, p)
  <2> DEFINE y == Append(aging.young, qm)
  <2>1. aging' = [aging EXCEPT !.young = y]
    BY <1>6, <1>10
  <2>2. /\ DOMAIN y = DOMAIN aging.young \cup {Len(aging.young) + 1}
        /\ \A i \in DOMAIN aging.young : y[i] = aging.young[i]
        /\ y[Len(aging.young) + 1] = qm
    BY <1>1, <1>8
  <2>3. InOrder(y)
    <3>1. \A i \in DOMAIN aging.young : aging.young[i].age >= qm.age
      BY <1>4, <1>7 DEF Before
    <3>2. QED
      BY <1>1, <1>4, <1>8, <3>1, AddedInOrder
  <2> HIDE DEF y
  <2>4. aging'.stage = aging.stage /\ aging'.young = y /\ aging'.hand = <<>>
        /\ ~aging'.waits
    BY <2>1, <1>2 DEF TypeOK
  <2>5. Before(y, Tail(queues[p]))
    BY <1>4, <1>7, <2>2 DEF Before
  <2>6. QED
    BY <1>1, <1>2, <1>3, <1>5, <2>3, <2>4, <2>5
       DEF RoomInv, AgingOrder, TakesFrom, RefillsTo, p, InOrder, Before
<1>11. QED
  BY <1>9, <1>10

\* The aging loop puts a message: it goes up as if new, or back where it was.
LEMMA AgePutKeepsRoom ==
    ASSUME TypeOK, putters = {}, ~aging.waits, ~aging'.waits, AgingOrder, AgePut
    PROVE  RoomInv'
<1>1. AgeNext \in Queued /\ AgeTarget \in Priority /\ AgeHasNext
  BY AgeNextIsQueued DEF AgePut
<1>2. ~Full(AgeTarget)
  BY DEF AgePut, AgeKeeps, TypeOK
<1>3. /\ queues' = [queues EXCEPT ![AgeTarget] = Append(@, AgeNext)]
      /\ aging' = [aging EXCEPT !.waits = FALSE, !.hand = <<>>,
                     !.young = IF RefillsTo(aging.stage) THEN Tail(@) ELSE @]
      /\ putters' = putters
  BY <1>2 DEF AgePut
<1>4. /\ queues \in [Priority -> Seq(Queued)] /\ aging.young \in Seq(Queued)
      /\ aging.hand \in Seq(Queued) /\ From[aging.stage] \in Priority
      /\ InOrder(aging.young) /\ OldestFirst
      /\ \A r \in Priority : InOrder(queues[r])
  BY <1>1 DEF TypeOK, AgingOrder, OldestFirst, InOrder, AgeHasNext, TakesFrom, RefillsTo, From
<1>5. CASE TakesFrom(aging.stage)
  <2>1. /\ AgeTarget # From[aging.stage] /\ AgeNext = Head(aging.hand)
        /\ ~RefillsTo(aging.stage) /\ aging.stage # "sleep" /\ aging.hand # <<>>
    BY <1>1, <1>5 DEF AgeTarget, AgeNext, AgeHasNext, TakesFrom, RefillsTo, From
  <2>2. AgeNext.age = 0
    BY <2>1, <1>4 DEF AgingOrder
  <2>3. \A i \in DOMAIN queues[AgeTarget] : queues[AgeTarget][i].age >= AgeNext.age
    BY <1>1, <1>4, <2>2, AgesAreNumbers
  <2>4. OldestFirst'
    BY <1>1, <1>3, <1>4, <2>3, QueueAdded
  <2>5. /\ aging'.stage = aging.stage /\ aging'.young = aging.young /\ aging'.hand = <<>>
        /\ queues'[From[aging.stage]] = queues[From[aging.stage]]
    BY <1>1, <1>3, <1>4, <2>1 DEF TypeOK
  <2>6. QED
    BY <1>3, <1>4, <1>5, <2>1, <2>4, <2>5
       DEF RoomInv, AgingOrder, InOrder, Before, TakesFrom, RefillsTo
<1>6. CASE RefillsTo(aging.stage)
  <2> DEFINE p == From[aging.stage]
             y == aging.young
  <2>1. /\ AgeTarget = p /\ AgeNext = Head(y) /\ y # <<>>
        /\ ~TakesFrom(aging.stage) /\ aging.stage # "sleep"
    BY <1>1, <1>6 DEF AgeTarget, AgeNext, AgeHasNext, TakesFrom, RefillsTo
  <2>2. Before(queues[p], y)
    BY <1>6 DEF AgingOrder
  <2>3. /\ InOrder(Tail(y)) /\ \A j \in DOMAIN Tail(y) : Head(y).age >= Tail(y)[j].age
        /\ \A j \in DOMAIN Tail(y) : \E i \in DOMAIN y : y[i] = Tail(y)[j]
        /\ \E i \in DOMAIN y : y[i] = Head(y)
    BY <1>4, <2>1, TakenInOrder
  <2>4. \A i \in DOMAIN queues[p] : queues[p][i].age >= AgeNext.age
    BY <2>1, <2>2, <2>3 DEF Before
  <2>5. OldestFirst'
    BY <1>1, <1>3, <1>4, <2>1, <2>4, QueueAdded
  <2>6. queues'[p] = Append(queues[p], AgeNext)
    BY <1>1, <1>3, <1>4, <2>1
  <2>7. /\ aging'.stage = aging.stage /\ aging'.young = Tail(y) /\ aging'.hand = <<>>
    BY <1>3, <1>6 DEF TypeOK
  <2>8. Before(queues'[p], Tail(y))
    <3> DEFINE q == queues[p]
               a == Append(q, AgeNext)
    <3>1. q \in Seq(Queued)
      BY <1>4
    <3>2. \A i \in DOMAIN a : a[i] = AgeNext \/ (i \in DOMAIN q /\ a[i] = q[i])
      BY <1>1, <3>1
    <3> HIDE DEF a, q
    <3>3. Before(a, Tail(y))
      BY <3>2, <2>1, <2>2, <2>3 DEF Before, q
    <3>4. QED
      BY <3>3, <2>6 DEF a, q
  <2>9. Before(queues[From[aging.stage]], aging.young)'
    BY <2>7, <2>8 DEF Before
  <2>10. InOrder(aging.young)'
    BY <2>3, <2>7 DEF InOrder
  <2>11. QED
    BY <1>3, <1>6, <2>1, <2>5, <2>7, <2>9, <2>10
       DEF RoomInv, AgingOrder, TakesFrom, RefillsTo
<1>7. QED
  BY <1>1, <1>5, <1>6 DEF AgeHasNext

\* A part of the aging begins: the lists it compares with are empty.
LEMMA AgeBeginsKeepsRoom ==
    ASSUME TypeOK, putters = {}, ~aging.waits, AgingOrder, AgeStart \/ AgeLoopEnds
    PROVE  RoomInv'
<1>1. queues' = queues /\ putters' = putters
  BY DEF AgeStart, AgeLoopEnds
<1>2. OldestFirst' /\ InOrder(aging.young)
  BY <1>1 DEF AgingOrder, OldestFirst
<1>3. CASE AgeStart
  <2>1. /\ aging.stage = "sleep" /\ aging'.stage = "normal" /\ aging'.young = aging.young
        /\ aging'.hand = aging.hand /\ ~aging'.waits
    BY <1>3 DEF AgeStart, TypeOK
  <2>2. aging.young = <<>> /\ aging.hand = <<>>
    BY <2>1 DEF AgingOrder, TakesFrom
  <2>3. QED
    BY <1>1, <1>2, <2>1, <2>2
       DEF RoomInv, AgingOrder, InOrder, Before, TakesFrom, RefillsTo
<1>4. CASE AgeLoopEnds
  <2>1. /\ aging.stage # "sleep" /\ ~AgeHasNext
        /\ TakesFrom(aging.stage) => queues[From[aging.stage]] = <<>>
        /\ aging'.stage = After[aging.stage] /\ aging'.young = aging.young
        /\ aging'.hand = aging.hand /\ ~aging'.waits
    BY <1>4 DEF AgeLoopEnds, TypeOK
  <2>2. aging.hand = <<>>
    BY <2>1 DEF AgingOrder, AgeHasNext
  <2>3. InOrder(aging.young)'
    BY <1>2, <2>1 DEF InOrder
  <2>4. CASE TakesFrom(aging.stage)
    <3>1. RefillsTo(aging'.stage) /\ From[aging'.stage] = From[aging.stage]
      BY <2>1, <2>4 DEF TakesFrom, RefillsTo, After, From
    <3>2. queues'[From[aging'.stage]] = <<>>
      BY <1>1, <2>1, <2>4, <3>1
    <3>3. Before(queues[From[aging.stage]], aging.young)'
      BY <3>2 DEF Before
    <3>4. QED
      BY <1>1, <1>2, <2>1, <2>2, <2>3, <3>1, <3>3
         DEF RoomInv, AgingOrder, TakesFrom, RefillsTo
  <2>5. CASE RefillsTo(aging.stage)
    <3>1. aging.young = <<>> /\ ~RefillsTo(aging'.stage)
      BY <2>1, <2>5 DEF AgeHasNext, RefillsTo, After
    <3>2. Before(aging.young, queues[From[aging.stage]])'
      BY <2>1, <3>1 DEF Before
    <3>3. QED
      BY <1>1, <1>2, <2>1, <2>2, <2>3, <3>1, <3>2 DEF RoomInv, AgingOrder
  <2>6. QED
    BY <2>1, <2>4, <2>5 DEF TypeOK, AgingStage, TakesFrom, RefillsTo
<1>5. QED
  BY <1>3, <1>4

LEMMA RoomStep == TypeOK /\ RoomInv /\ [MCNext]_<<vars, waited>> => RoomInv'
<1> SUFFICES ASSUME TypeOK, RoomInv, [MCNext]_<<vars, waited>> PROVE RoomInv'
  OBVIOUS
<1>1. CASE UNCHANGED <<vars, waited>>
  BY <1>1 DEF vars, RoomInv, AgingOrder, OldestFirst, InOrder, Before
<1>2. CASE MCNext /\ (waited \/ putters' # {} \/ aging'.waits)
  BY <1>2 DEF MCNext, RoomInv
<1>3. CASE MCNext /\ ~waited /\ putters' = {} /\ ~aging'.waits
  <2>1. putters = {} /\ ~aging.waits /\ AgingOrder
    BY <1>3 DEF RoomInv
  <2>2. CASE AgingStep
    BY <1>3, <2>1, <2>2, AgeTakeKeepsRoom, AgePutKeepsRoom, AgeBeginsKeepsRoom
       DEF AgingStep
  <2>3. QED
    BY <1>3, <2>1, <2>2, OthersKeepRoom DEF MCNext, Next
<1>4. QED
  BY <1>1, <1>2, <1>3 DEF MCNext

\* As long as no put has to wait for room, the messages of a queue are in the
\* order of their ages, although the aging loop empties each queue and refills
\* it (PriorityMessageQueue.age_messages).
THEOREM OldestFirstWithRoomHolds == MCSpec => []OldestFirstWithRoom
<1>1. MCSpec => Spec
  <2>1. [MCNext]_<<vars, waited>> => [Next]_vars
    BY DEF MCNext
  <2>2. MCInit => Init
    BY DEF MCInit
  <2>3. QED
    BY <2>1, <2>2, PTL DEF MCSpec, Spec
<1>2. MCInit => RoomInv
  BY DEF MCInit, Init, Sleeping, RoomInv, AgingOrder, OldestFirst, InOrder, Before,
         TakesFrom, RefillsTo
<1>3. TypeOK /\ RoomInv /\ [MCNext]_<<vars, waited>> => RoomInv'
  BY RoomStep
<1>4. RoomInv => OldestFirstWithRoom
  BY DEF RoomInv, AgingOrder, OldestFirstWithRoom
<1>5. QED
  BY <1>1, <1>2, <1>3, <1>4, PriorityTypeCorrect, PTL DEF MCSpec
=============================================================================
