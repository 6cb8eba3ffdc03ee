---------------------------- MODULE Push_proofs -----------------------------
(***************************************************************************)
(* First the reorder buffer: the fate of a message, and the order in which *)
(* a pair's messages leave, for any number of pairs and messages and any   *)
(* sizes and timeouts.  Then the push to the subscribers, which is built   *)
(* on it: no subscription gets a message twice, nobody is left out because *)
(* of others, and only what is suspended is overtaken, for any number of   *)
(* connections and subscriptions, whatever is slow or lost, and whoever    *)
(* comes and goes.                                                         *)
(***************************************************************************)
EXTENDS Push, FiniteSetTheorems, WellFoundedInduction, TLAPS

\* A set of numbers that is not empty has a largest one: the number the code
\* finds at the end of a sorted buffer.
LEMMA LargestNumber ==
    ASSUME NEW S \in SUBSET SeqNum, S # {}
    PROVE  Max(S) \in S /\ \A s \in S : s <= Max(S)
<1> DEFINE T == {MaxSeq - s : s \in S}
<1>1. T \subseteq Nat /\ T # {}
  <2>1. \A s \in S : MaxSeq - s \in Nat
    BY ReorderAssumption DEF SeqNum
  <2>2. T \subseteq Nat
    BY <2>1
  <2>3. PICK s \in S : TRUE
    OBVIOUS
  <2>4. MaxSeq - s \in T
    BY <2>3
  <2>5. QED
    BY <2>2, <2>4
<1>2. PICK t \in T : \A u \in T : ~(<<u, t>> \in OpToRel(<, Nat))
  <2> HIDE DEF T
  <2>1. QED
    BY <1>1, NatLessThanWellFounded, WFMin
<1>3. \A u \in T : ~(u < t)
  BY <1>1, <1>2 DEF OpToRel
<1>4. PICK m \in S : t = MaxSeq - m
  BY <1>2
<1>5. \A s \in S : s <= m
  <2> TAKE s \in S
  <2>1. ~(MaxSeq - s < MaxSeq - m)
    BY <1>3, <1>4
  <2>2. QED
    BY <2>1, ReorderAssumption DEF SeqNum
<1>6. QED
  BY <1>5 DEF Max, SeqNum

-----------------------------------------------------------------------------
(* Type correctness *)

\* The numbers of messages are sequence numbers.
LEMMA SeqsType ==
    ASSUME TypeOK, NEW S \in SUBSET MsgId
    PROVE  /\ Seqs(S) \subseteq SeqNum
           /\ S # {} => /\ LastSeq(S) \in SeqNum
                        /\ LastSeq(S) \in Seqs(S)
                        /\ \A i \in S : msg[i].seq <= LastSeq(S)
<1>1. Seqs(S) \subseteq SeqNum
  BY DEF Seqs, TypeOK, Message
<1>2. ASSUME S # {} PROVE Seqs(S) # {}
  BY <1>2 DEF Seqs
<1>3. QED
  BY <1>1, <1>2, LargestNumber DEF Seqs, LastSeq

\* A message that arrives gets the next id.
LEMMA ArriveType ==
    ASSUME TypeOK, NEW p \in Pairs, NEW s \in SeqNum, Arrive(p, s)
    PROVE  /\ now' \in Nat \ {0}
           /\ arrived' = arrived + 1 /\ arrived + 1 \in MsgId
           /\ arrived' \in 0..MaxMsgs
           /\ msg' \in [MsgId -> Message]
           /\ msg'[arrived + 1] = [pair |-> p, seq |-> s, at |-> now]
           /\ \A i \in Arrived : msg'[i] = msg[i]
           /\ Arrived' = Arrived \cup {arrived + 1}
           /\ arrived + 1 \notin Arrived
           /\ lastActivity' \in [Pairs -> Nat]
           /\ UNCHANGED <<now, discarded, forgotten>>
<1> DEFINE new == [pair |-> p, seq |-> s, at |-> now]
<1>1. arrived \in Nat /\ MaxMsgs \in Nat /\ arrived < MaxMsgs /\ now \in Nat
  BY ReorderAssumption DEF TypeOK, Arrive
<1>2. arrived + 1 \in MsgId /\ arrived' = arrived + 1 /\ arrived' \in 0..MaxMsgs
  BY <1>1 DEF Arrive, MsgId
<1>3. new \in Message
  BY <1>1 DEF Message
<1>4. msg' = [msg EXCEPT ![arrived + 1] = new] /\ msg \in [MsgId -> Message]
  BY DEF Arrive, TypeOK
<1>5. msg' \in [MsgId -> Message] /\ msg'[arrived + 1] = new
  BY <1>2, <1>3, <1>4
<1>6. /\ Arrived' = Arrived \cup {arrived + 1} /\ arrived + 1 \notin Arrived
      /\ Arrived \subseteq MsgId
  BY <1>1, <1>2 DEF Arrived, MsgId
<1>7. \A i \in Arrived : msg'[i] = msg[i]
  BY <1>4, <1>6
<1>8. lastActivity' \in [Pairs -> Nat]
  BY <1>1 DEF Arrive, TypeOK
<1>9. now' \in Nat \ {0} /\ UNCHANGED <<now, discarded, forgotten>>
  BY DEF Arrive, TypeOK
<1>10. QED
  BY <1>2, <1>5, <1>6, <1>7, <1>8, <1>9

\* Every step keeps the types.
LEMMA TypeStep == TypeOK /\ [ReorderNext]_reorderVars => TypeOK'
<1> SUFFICES ASSUME TypeOK, [ReorderNext]_reorderVars PROVE TypeOK'
  OBVIOUS
<1>1. ASSUME NEW p \in Pairs, NEW s \in SeqNum, DeliverExpected(p, s)
      PROVE  TypeOK'
  <2>1. Arrive(p, s)
    BY <1>1 DEF DeliverExpected
  <2>2. Drained(p, s) \in SUBSET MsgId
    BY DEF Drained, TypeOK
  <2>3. Drained(p, s) # {} => LastSeq(Drained(p, s)) \in SeqNum
    BY <2>2, SeqsType
  <2>4. expected' \in [Pairs -> Nat \ {0}]
    BY <1>1, <2>3 DEF DeliverExpected, TypeOK, SeqNum
  <2>5. buffers' \in [Pairs -> SUBSET MsgId]
    BY <1>1 DEF DeliverExpected, TypeOK
  <2>6. released' \in [MsgId -> Nat] /\ batch' \in Nat
    BY <1>1 DEF DeliverExpected, TypeOK
  <2>7. bufferFull' \in Nat /\ duplicates' \subseteq MsgId
    BY <1>1 DEF DeliverExpected, TypeOK
  <2>8. QED
    BY <2>1, <2>4, <2>5, <2>6, <2>7, ArriveType DEF TypeOK
<1>2. ASSUME NEW p \in Pairs, NEW s \in SeqNum, Buffer(p, s)
      PROVE  TypeOK'
  <2>1. Arrive(p, s)
    BY <1>2 DEF Buffer
  <2>2. buffers' \in [Pairs -> SUBSET MsgId]
    BY <1>2, <2>1, ArriveType DEF Buffer, TypeOK
  <2>3. QED
    BY <1>2, <2>1, <2>2, ArriveType DEF Buffer, TypeOK
<1>3. ASSUME NEW p \in Pairs, NEW s \in SeqNum, FlushFull(p, s)
      PROVE  TypeOK'
  <2>1. Arrive(p, s)
    BY <1>3 DEF FlushFull
  <2>2. buffers' \in [Pairs -> SUBSET MsgId]
    BY <1>3 DEF FlushFull, TypeOK
  <2>3. expected' \in [Pairs -> Nat \ {0}]
    BY <1>3 DEF FlushFull, TypeOK, SeqNum
  <2>4. released' \in [MsgId -> Nat] /\ batch' \in Nat
    BY <1>3 DEF FlushFull, TypeOK
  <2>5. bufferFull' \in Nat /\ duplicates' \subseteq MsgId
    BY <1>3 DEF FlushFull, TypeOK
  <2>6. QED
    BY <2>1, <2>2, <2>3, <2>4, <2>5, ArriveType DEF TypeOK
<1>4. ASSUME NEW p \in Pairs, NEW s \in SeqNum, SkipDuplicate(p, s)
      PROVE  TypeOK'
  <2>1. Arrive(p, s)
    BY <1>4 DEF SkipDuplicate
  <2>2. duplicates' \subseteq MsgId
    BY <1>4, <2>1, ArriveType DEF SkipDuplicate, TypeOK
  <2>3. QED
    BY <1>4, <2>1, <2>2, ArriveType DEF SkipDuplicate, TypeOK
<1>5. CASE CheckTimeouts
  <2>1. \A p \in Pairs : ExpectedAfter(p) \in Nat \ {0}
    <3> TAKE p \in Pairs
    <3>1. CASE p \in TimedOut
      BY <3>1, SeqsType DEF ExpectedAfter, TimedOut, TypeOK, SeqNum
    <3>2. CASE p \notin TimedOut
      BY <3>2 DEF ExpectedAfter, TypeOK
    <3>3. QED
      BY <3>1, <3>2
  <2>2. expected' \in [Pairs -> Nat \ {0}]
    BY <1>5, <2>1 DEF CheckTimeouts
  <2>3. buffers' \in [Pairs -> SUBSET MsgId]
    BY <1>5 DEF CheckTimeouts, KeptAfter, TypeOK
  <2>4. batch' \in Nat /\ released' \in [MsgId -> Nat]
    BY <1>5 DEF CheckTimeouts, TypeOK
  <2>5. QED
    BY <1>5, <2>2, <2>3, <2>4 DEF CheckTimeouts, TypeOK
<1>6. CASE CleanupOldPairs
  <2>1. PICK gone \in SUBSET Pairs :
           /\ discarded' = discarded \cup UNION {buffers[p] : p \in gone}
           /\ buffers' = [p \in Pairs |-> IF p \in gone THEN {} ELSE buffers[p]]
           /\ expected' = [p \in Pairs |-> IF p \in gone THEN FirstSeq
                                           ELSE expected[p]]
           /\ lastActivity' = [p \in Pairs |-> IF p \in gone THEN 0
                                               ELSE lastActivity[p]]
           /\ forgotten' = [p \in Pairs |-> IF p \in gone THEN arrived
                                            ELSE forgotten[p]]
    BY <1>6 DEF CleanupOldPairs, Stale, Tracked
  <2>2. discarded' \subseteq MsgId /\ buffers' \in [Pairs -> SUBSET MsgId]
    BY <2>1 DEF TypeOK
  <2>3. expected' \in [Pairs -> Nat \ {0}]
    BY <2>1 DEF TypeOK, FirstSeq
  <2>4. lastActivity' \in [Pairs -> Nat] /\ forgotten' \in [Pairs -> Nat]
    BY <2>1 DEF TypeOK
  <2>5. QED
    BY <1>6, <2>2, <2>3, <2>4 DEF CleanupOldPairs, TypeOK
<1>7. CASE Tick
  BY <1>7 DEF Tick, TypeOK
<1>8. CASE UNCHANGED reorderVars
  BY <1>8 DEF reorderVars, TypeOK
<1>9. QED
  BY <1>1, <1>2, <1>3, <1>4, <1>5, <1>6, <1>7, <1>8
  DEF ReorderNext, Receive, Deliver

\* The variables have their types in every behaviour of the buffer.
THEOREM ReorderTypeCorrect == ReorderSpec => []TypeOK
<1>1. ReorderInit => TypeOK
  BY ReorderAssumption DEF ReorderInit, TypeOK, Message, SeqNum, MsgId, FirstSeq
<1>2. QED
  BY <1>1, TypeStep, PTL DEF ReorderSpec

-----------------------------------------------------------------------------
(* Every message has one fate *)

\* The books agree with each other: only messages that arrived are released,
\* in a list that was returned, and no pair was forgotten in the future.
Books == /\ \A i \in MsgId : released[i] # 0 => i \in Arrived /\ released[i] <= batch
         /\ \A p \in Pairs : forgotten[p] <= arrived

FateInv == TypeOK /\ Books /\ OneFate

\* A message is handed to deliver: ready leaves the buffer of p, and the new
\* message is returned, held back or dropped.
Moves(p, ready, out, held, dup) ==
    /\ ready \subseteq buffers[p]
    /\ out \cup held \cup dup = {arrived + 1}
    /\ out \cap held = {} /\ out \cap dup = {} /\ held \cap dup = {}
    /\ buffers' = [buffers EXCEPT ![p] = (@ \ ready) \cup held]
    /\ batch <= batch'
    /\ \A i \in MsgId : i \notin ready \cup out => released'[i] = released[i]
    /\ \A i \in ready \cup out : released'[i] # 0 /\ released'[i] <= batch'
    /\ duplicates' = duplicates \cup dup

\* Such a step keeps the books and the one fate of each message.
LEMMA FateOfArrival ==
    ASSUME FateInv, TypeOK', NEW p \in Pairs, NEW s \in SeqNum,
           NEW ready, NEW out, NEW held, NEW dup,
           Arrive(p, s), Moves(p, ready, out, held, dup)
    PROVE  Books' /\ OneFate'
<1> DEFINE new == arrived + 1
<1>1. /\ arrived' = new /\ new \in MsgId /\ new \notin Arrived
      /\ Arrived' = Arrived \cup {new} /\ msg'[new].pair = p
      /\ \A i \in Arrived : msg'[i] = msg[i]
      /\ UNCHANGED <<discarded, forgotten>>
  <2>1. TypeOK
    BY DEF FateInv
  <2>2. msg'[new] = [pair |-> p, seq |-> s, at |-> now]
    BY <2>1, ArriveType
  <2>3. msg'[new].pair = p
    BY <2>2
  <2>4. QED
    BY <2>1, <2>3, ArriveType
<1>0. /\ ready \subseteq buffers[p]
      /\ out \cup held \cup dup = {new}
      /\ out \cap held = {} /\ out \cap dup = {} /\ held \cap dup = {}
      /\ buffers' = [buffers EXCEPT ![p] = (@ \ ready) \cup held]
      /\ batch <= batch'
      /\ \A i \in MsgId : i \notin ready \cup out => released'[i] = released[i]
      /\ \A i \in ready \cup out : released'[i] # 0 /\ released'[i] <= batch'
      /\ duplicates' = duplicates \cup dup
  BY DEF Moves
<1>2. /\ \A i \in MsgId : released[i] # 0 => i \in Arrived /\ released[i] <= batch
      /\ \A q \in Pairs : forgotten[q] <= arrived
  BY DEF FateInv, Books
<1>3. /\ batch \in Nat /\ batch' \in Nat /\ arrived \in Nat
      /\ released \in [MsgId -> Nat] /\ released' \in [MsgId -> Nat]
      /\ forgotten \in [Pairs -> Nat] /\ buffers \in [Pairs -> SUBSET MsgId]
  BY DEF FateInv, TypeOK
<1>4. /\ Arrived = Buffered \cup Released \cup duplicates \cup discarded
      /\ \A q \in Pairs : \A i \in buffers[q] : msg[i].pair = q
      /\ Buffered \cap (Released \cup duplicates \cup discarded) = {}
      /\ Released \cap (duplicates \cup discarded) = {}
      /\ duplicates \cap discarded = {}
  BY DEF FateInv, OneFate
<1>5. ready \subseteq Buffered /\ ready \subseteq Arrived
  BY <1>0, <1>4 DEF Buffered
<1>6. Books'
  <2>1. ASSUME NEW i \in MsgId, released'[i] # 0
        PROVE  i \in Arrived' /\ released'[i] <= batch'
    <3>1. CASE i \in ready
      BY <3>1, <1>0, <1>1, <1>5
    <3>2. CASE i \in out
      BY <3>2, <1>0, <1>1
    <3>3. CASE i \notin ready \cup out
      BY <3>3, <1>0, <1>1, <1>2, <1>3, <2>1
    <3>4. QED
      BY <3>1, <3>2, <3>3
  <2>2. \A q \in Pairs : forgotten'[q] <= arrived'
    BY <1>1, <1>2, <1>3
  <2>3. QED
    BY <2>1, <2>2 DEF Books
<1>7. \A q \in Pairs : q # p => buffers'[q] = buffers[q]
  BY <1>0, <1>3
<1>8. buffers'[p] = (buffers[p] \ ready) \cup held
  BY <1>0, <1>3
<1>9. \A q \in Pairs : q # p => ready \cap buffers[q] = {}
  BY <1>0, <1>4
<1>10. Buffered' = (Buffered \ ready) \cup held
  BY <1>7, <1>8, <1>9 DEF Buffered
<1>11. Released' = Released \cup ready \cup out
  <2>1. released[new] = 0
    BY <1>1, <1>2
  <2>2. \A i \in Arrived : i \in MsgId
    BY <1>1, <1>3, ReorderAssumption DEF Arrived, MsgId
  <2>3. \A i \in Arrived : i \in Released' <=> i \in Released \cup ready
    BY <1>0, <1>1, <2>2 DEF Released
  <2>4. new \in Released' <=> new \in out
    BY <1>0, <1>1, <1>5, <2>1 DEF Released
  <2>5. QED
    BY <1>0, <1>1, <1>5, <2>3, <2>4 DEF Released
<1>12. \A q \in Pairs : \A i \in buffers'[q] : msg'[i].pair = q
  BY <1>0, <1>1, <1>4, <1>7, <1>8 DEF Buffered
<1>13. OneFate'
  <2>1. Arrived' = Buffered' \cup Released' \cup duplicates' \cup discarded'
    BY <1>0, <1>1, <1>4, <1>5, <1>10, <1>11
  <2>2. Buffered' \cap (Released' \cup duplicates' \cup discarded') = {}
    BY <1>0, <1>1, <1>4, <1>5, <1>10, <1>11
  <2>3. Released' \cap (duplicates' \cup discarded') = {}
    BY <1>0, <1>1, <1>4, <1>5, <1>11
  <2>4. duplicates' \cap discarded' = {}
    BY <1>0, <1>1, <1>4
  <2>5. QED
    BY <1>12, <2>1, <2>2, <2>3, <2>4 DEF OneFate
<1>14. QED
  BY <1>6, <1>13

\* Every step keeps the books and the one fate of each message.
LEMMA FateStep == FateInv /\ [ReorderNext]_reorderVars => FateInv'
<1> SUFFICES ASSUME FateInv, [ReorderNext]_reorderVars PROVE FateInv'
  OBVIOUS
<1>0. TypeOK /\ TypeOK'
  BY TypeStep DEF FateInv
<1>1. ASSUME NEW p \in Pairs, NEW s \in SeqNum, DeliverExpected(p, s)
      PROVE  Books' /\ OneFate'
  <2> DEFINE ready == Drained(p, s)
             out == {arrived + 1}
  <2>1. ready \subseteq buffers[p] /\ arrived + 1 \in MsgId
    BY <1>0, <1>1, ArriveType DEF Drained, DeliverExpected
  <2>2. /\ buffers' = [buffers EXCEPT ![p] = (@ \ ready) \cup {}]
        /\ batch' = batch + 1
        /\ released' = [i \in MsgId |-> IF i \in ready \cup out
                                        THEN batch + 1 ELSE released[i]]
        /\ duplicates' = duplicates \cup {}
    BY <1>1 DEF DeliverExpected
  <2>3. buffers[p] \subseteq MsgId /\ batch \in Nat /\ out \subseteq MsgId
    BY <1>0, <2>1 DEF TypeOK
  <2> HIDE DEF ready
  <2>4. Moves(p, ready, out, {}, {})
    BY <2>1, <2>2, <2>3 DEF Moves
  <2>5. QED
    BY <1>0, <1>1, <2>4, FateOfArrival DEF DeliverExpected
<1>2. ASSUME NEW p \in Pairs, NEW s \in SeqNum, Buffer(p, s)
      PROVE  Books' /\ OneFate'
  <2>1. batch \in Nat
    BY <1>0 DEF TypeOK
  <2>2. Moves(p, {}, {}, {arrived + 1}, {})
    BY <1>2, <2>1 DEF Moves, Buffer
  <2>3. QED
    BY <1>0, <1>2, <2>2, FateOfArrival DEF Buffer
<1>3. ASSUME NEW p \in Pairs, NEW s \in SeqNum, FlushFull(p, s)
      PROVE  Books' /\ OneFate'
  <2> DEFINE out == {arrived + 1}
  <2>1. /\ buffers' = [buffers EXCEPT ![p] = (@ \ buffers[p]) \cup {}]
        /\ batch' = batch + 2
        /\ released' = [i \in MsgId |-> IF i \in buffers[p] THEN batch + 1
                                        ELSE IF i \in out THEN batch + 2
                                        ELSE released[i]]
        /\ duplicates' = duplicates \cup {}
    BY <1>3 DEF FlushFull
  <2>2. buffers[p] \subseteq MsgId /\ batch \in Nat /\ out \subseteq MsgId
    BY <1>0, <1>3, ArriveType DEF TypeOK, FlushFull
  <2>3. Moves(p, buffers[p], out, {}, {})
    BY <2>1, <2>2 DEF Moves
  <2>4. QED
    BY <1>0, <1>3, <2>3, FateOfArrival DEF FlushFull
<1>4. ASSUME NEW p \in Pairs, NEW s \in SeqNum, SkipDuplicate(p, s)
      PROVE  Books' /\ OneFate'
  <2>1. batch \in Nat /\ buffers \in [Pairs -> SUBSET MsgId]
    BY <1>0 DEF TypeOK
  <2>2. Moves(p, {}, {}, {}, {arrived + 1})
    BY <1>4, <2>1 DEF Moves, SkipDuplicate
  <2>3. QED
    BY <1>0, <1>4, <2>2, FateOfArrival DEF SkipDuplicate
<1>5. ASSUME CheckTimeouts
      PROVE  Books' /\ OneFate'
  <2> DEFINE ready == UNION {buffers[p] : p \in TimedOut}
  <2>1. ready \subseteq Buffered /\ Buffered \subseteq Arrived
    BY DEF Buffered, TimedOut, FateInv, OneFate
  <2>2. Arrived \subseteq MsgId
    BY <1>0, ReorderAssumption DEF Arrived, MsgId, TypeOK
  <2>3. /\ \A i \in MsgId \cap ready : released'[i] = batch + 1
        /\ \A i \in MsgId \ ready : released'[i] = released[i]
        /\ batch' = (IF ready = {} THEN batch ELSE batch + 1)
        /\ UNCHANGED <<arrived, msg, duplicates, discarded, forgotten>>
        /\ buffers' = [p \in Pairs |-> IF p \in TimedOut THEN {} ELSE buffers[p]]
    BY <1>5 DEF CheckTimeouts, KeptAfter
  <2>4. \A p, q \in Pairs : p # q => buffers[p] \cap buffers[q] = {}
    BY DEF FateInv, OneFate
  <2>5. Buffered' = Buffered \ ready
    BY <2>3, <2>4 DEF Buffered, TimedOut
  <2>6. Arrived' = Arrived /\ batch \in Nat /\ batch' \in Nat
        /\ released \in [MsgId -> Nat]
    BY <1>0, <2>3 DEF Arrived, TypeOK
  <2> HIDE DEF ready
  <2>7. Released' = Released \cup ready
    BY <2>1, <2>2, <2>3, <2>6 DEF Released
  <2>8. Books'
    BY <2>1, <2>2, <2>3, <2>6 DEF Books, FateInv
  <2>9. \A p \in Pairs : \A i \in buffers'[p] : msg'[i].pair = p
    BY <2>3 DEF FateInv, OneFate
  <2>10. OneFate'
    BY <2>1, <2>3, <2>5, <2>6, <2>7, <2>9 DEF FateInv, OneFate
  <2>11. QED
    BY <2>8, <2>10
<1>6. ASSUME CleanupOldPairs
      PROVE  Books' /\ OneFate'
  <2>1. PICK gone \in SUBSET Pairs :
           /\ discarded' = discarded \cup UNION {buffers[p] : p \in gone}
           /\ buffers' = [p \in Pairs |-> IF p \in gone THEN {} ELSE buffers[p]]
           /\ forgotten' = [p \in Pairs |-> IF p \in gone THEN arrived
                                            ELSE forgotten[p]]
    BY <1>6 DEF CleanupOldPairs, Stale, Tracked
  <2>2. UNCHANGED <<arrived, msg, batch, released, duplicates>>
    BY <1>6 DEF CleanupOldPairs
  <2>3. Arrived' = Arrived /\ Released' = Released
    BY <2>2 DEF Arrived, Released
  <2>4. Books'
    BY <1>0, <2>1, <2>2, <2>3 DEF Books, FateInv, TypeOK
  <2> DEFINE dropped == UNION {buffers[p] : p \in gone}
  <2>5. \A p, q \in Pairs : p # q => buffers[p] \cap buffers[q] = {}
    BY DEF FateInv, OneFate
  <2>6. Buffered' = Buffered \ dropped /\ dropped \subseteq Buffered
    BY <2>1, <2>5 DEF Buffered
  <2>7. \A p \in Pairs : \A i \in buffers'[p] : msg'[i].pair = p
    BY <2>1, <2>2 DEF FateInv, OneFate
  <2>8. discarded' = discarded \cup dropped
    BY <2>1
  <2> HIDE DEF dropped
  <2>9. OneFate'
    BY <2>2, <2>3, <2>6, <2>7, <2>8 DEF FateInv, OneFate
  <2>10. QED
    BY <2>4, <2>9
<1>7. ASSUME UNCHANGED <<arrived, msg, buffers, batch, released, duplicates,
                         discarded, forgotten>>
      PROVE  Books' /\ OneFate'
  BY <1>7 DEF FateInv, Books, OneFate, Arrived, Buffered, Released
<1>8. QED
  BY <1>0, <1>1, <1>2, <1>3, <1>4, <1>5, <1>6, <1>7
  DEF FateInv, ReorderNext, Receive, Deliver, Tick, reorderVars

\* Nothing has arrived at the start.
LEMMA FateInit == ReorderInit => FateInv
<1> SUFFICES ASSUME ReorderInit PROVE FateInv
  OBVIOUS
<1>1. TypeOK
  BY ReorderAssumption DEF ReorderInit, TypeOK, Message, SeqNum, MsgId, FirstSeq
<1>2. Arrived = {}
  BY DEF ReorderInit, Arrived
<1>3. Books /\ OneFate
  BY <1>2 DEF ReorderInit, Books, OneFate, Buffered, Released
<1>4. QED
  BY <1>1, <1>3 DEF FateInv

\* No message is lost or returned twice by the buffer: each has one fate.
THEOREM OneFateHolds == ReorderSpec => []OneFate
<1>1. FateInv => OneFate
  BY DEF FateInv
<1>2. QED
  BY FateInit, <1>1, FateStep, PTL DEF ReorderSpec

-----------------------------------------------------------------------------
(* Messages leave in the order of their numbers *)

\* While no buffer has overflowed, what a pair released in its session is
\* below what it expects.
BelowExpected ==
    bufferFull = 0 => \A p \in Pairs : Unique(p) =>
        \A i \in Session(p) \cap Released : msg[i].seq < expected[p]

OrderInv == FateInv /\ NoneReadyWaits /\ BelowExpected /\ ReleasedInOrder

\* Types of the facts the order is about.
LEMMA OrderTypes ==
    ASSUME FateInv
    PROVE  /\ \A i \in MsgId : msg[i].seq \in SeqNum /\ msg[i].seq \in Nat
           /\ SeqNum \subseteq Nat
           /\ \A p \in Pairs : expected[p] \in Nat /\ buffers[p] \subseteq MsgId
           /\ \A p \in Pairs : \A i \in buffers[p] :
                 i \in Arrived /\ msg[i].pair = p /\ i \notin Released
           /\ Arrived \subseteq MsgId /\ Released \subseteq MsgId
           /\ \A i \in Released : released[i] \in Nat /\ released[i] <= batch
           /\ batch \in Nat
<1>1. TypeOK /\ Books /\ OneFate
  BY DEF FateInv
<1>2. SeqNum \subseteq Nat
  BY DEF SeqNum
<1>3. \A i \in MsgId : msg[i].seq \in SeqNum /\ msg[i].seq \in Nat
  BY <1>1, <1>2 DEF TypeOK, Message
<1>4. Arrived \subseteq MsgId
  BY <1>1, ReorderAssumption DEF TypeOK, Arrived, MsgId
<1>5. \A p \in Pairs : \A i \in buffers[p] :
         i \in Arrived /\ msg[i].pair = p /\ i \notin Released
  BY <1>1 DEF OneFate, Buffered
<1>6. QED
  BY <1>1, <1>2, <1>3, <1>4, <1>5 DEF TypeOK, Books, Released

\* A number that was not used twice before a message arrived was not used
\* twice earlier, and the new message brings a new number.
LEMMA UniqueBefore ==
    ASSUME FateInv, NEW p \in Pairs, NEW s \in SeqNum, Arrive(p, s)
    PROVE  /\ \A q \in Pairs : Unique(q)' => Unique(q)
           /\ Unique(p)' => \A i \in Arrived : msg[i].pair = p => msg[i].seq # s
           /\ \A i \in Arrived : msg'[i] = msg[i]
           /\ \A q \in Pairs : \A i \in Arrived : i \in Session(q)' <=> i \in Session(q)
           /\ \A q \in Pairs : arrived + 1 \in Session(q)' => q = p
           /\ msg'[arrived + 1].seq = s /\ arrived + 1 \notin Arrived
           /\ Arrived' = Arrived \cup {arrived + 1} /\ arrived + 1 \in MsgId
           /\ released[arrived + 1] = 0
<1>1. /\ msg'[arrived + 1] = [pair |-> p, seq |-> s, at |-> now]
      /\ \A i \in Arrived : msg'[i] = msg[i]
      /\ Arrived' = Arrived \cup {arrived + 1} /\ arrived + 1 \in MsgId
      /\ arrived + 1 \notin Arrived
      /\ forgotten' = forgotten
  BY ArriveType DEF FateInv
<1>2. msg'[arrived + 1].pair = p /\ msg'[arrived + 1].seq = s
  BY <1>1
<1>3. \A q \in Pairs : Unique(q)' => Unique(q)
  BY <1>1 DEF Unique
<1>4. Unique(p)' => \A i \in Arrived : msg[i].pair = p => msg[i].seq # s
  BY <1>1, <1>2 DEF Unique
<1>5. \A q \in Pairs : \A i \in Arrived : i \in Session(q)' <=> i \in Session(q)
  BY <1>1 DEF Session
<1>6. \A q \in Pairs : arrived + 1 \in Session(q)' => q = p
  BY <1>2 DEF Session
<1>7. released[arrived + 1] = 0
  BY <1>1 DEF FateInv, Books
<1>8. QED
  BY <1>1, <1>2, <1>3, <1>4, <1>5, <1>6, <1>7

\* The loop of deliver stops at a gap: what it leaves behind is above what the
\* pair expects next, what it takes is between.
LEMMA DrainStopsAtGap ==
    ASSUME FateInv, NEW p \in Pairs, NEW s \in SeqNum, DeliverExpected(p, s),
           \A i \in buffers[p] : msg[i].seq > expected[p],
           \A i, j \in buffers[p] : msg[i].seq = msg[j].seq => i = j
    PROVE  /\ s < expected'[p]
           /\ \A i \in Drained(p, s) : s < msg[i].seq /\ msg[i].seq < expected'[p]
           /\ \A i \in buffers[p] \ Drained(p, s) : expected'[p] < msg[i].seq
<1> DEFINE ready == Drained(p, s)
<1>0. FateInv /\ TypeOK /\ s \in Nat
  BY OrderTypes DEF FateInv
<1>1. s = expected[p] /\ ready \subseteq buffers[p]
  BY DEF DeliverExpected, Drained
<1>2. \A i \in buffers[p] : i \in MsgId /\ msg[i].seq \in Nat /\ s < msg[i].seq
  BY <1>0, <1>1, OrderTypes
<1>3. \A i, j \in buffers[p] : msg[i].seq = msg[j].seq => i = j
  OBVIOUS
<1>4. expected'[p] = IF ready = {} THEN s + 1 ELSE LastSeq(ready) + 1
  BY <1>0 DEF DeliverExpected, TypeOK
<1>5. ready \in SUBSET MsgId
  BY <1>1, <1>2
<1>6. ready # {} => /\ LastSeq(ready) \in Nat
                    /\ \A i \in ready : msg[i].seq <= LastSeq(ready)
                    /\ \E i \in ready : msg[i].seq = LastSeq(ready)
  <2> HIDE DEF ready
  <2>1. SUFFICES ASSUME ready # {}
                 PROVE  /\ LastSeq(ready) \in Nat
                        /\ \A i \in ready : msg[i].seq <= LastSeq(ready)
                        /\ \E i \in ready : msg[i].seq = LastSeq(ready)
    OBVIOUS
  <2>2. LastSeq(ready) \in SeqNum /\ LastSeq(ready) \in Seqs(ready)
        /\ \A i \in ready : msg[i].seq <= LastSeq(ready)
    BY <1>0, <1>5, <2>1, SeqsType
  <2>3. QED
    BY <2>2 DEF Seqs, SeqNum
<1>7. ASSUME NEW i \in buffers[p], msg[i].seq <= expected'[p]
      PROVE  i \in ready
  <2> DEFINE upTo == {j \in buffers[p] : j = i \/ Before(j, i)}
  <2>1. \A j \in upTo : msg[j].seq > s
    BY <1>2
  <2>2. \A j, k \in upTo : msg[j].seq = msg[k].seq => j = k
    BY <1>3
  <2>3. ASSUME NEW n \in (s + 1)..msg[i].seq, n # msg[i].seq
        PROVE  \E j \in upTo : msg[j].seq = n
    <3>1. n \in Nat /\ s < n /\ n < msg[i].seq
      BY <1>0, <1>2, <2>3
    <3>2. ready # {} /\ n <= LastSeq(ready)
      <4> HIDE DEF ready
      <4>1. QED
        BY <1>0, <1>2, <1>4, <1>6, <1>7, <3>1
    <3>3. PICK d \in ready : msg[d].seq = LastSeq(ready)
      <4> HIDE DEF ready
      <4>1. QED
        BY <1>6, <3>2
    <3>4. \A m \in (s + 1)..msg[d].seq : \E j \in buffers[p] : msg[j].seq = m
      BY <3>3 DEF Drained
    <3>5. n \in (s + 1)..msg[d].seq
      <4> HIDE DEF ready
      <4>1. QED
        BY <1>0, <1>6, <3>1, <3>2, <3>3
    <3>6. PICK j \in buffers[p] : msg[j].seq = n
      BY <3>4, <3>5
    <3>7. Before(j, i)
      BY <3>1, <3>6 DEF Before
    <3>8. QED
      BY <3>6, <3>7
  <2>4. \A n \in (s + 1)..msg[i].seq : \E j \in upTo : msg[j].seq = n
    BY <2>3
  <2>5. QED
    BY <2>1, <2>2, <2>4 DEF Drained
<1>8. s < expected'[p] /\ expected'[p] \in Nat
  <2> HIDE DEF ready
  <2>1. CASE ready = {}
    BY <1>0, <1>4, <2>1
  <2>2. CASE ready # {}
    <3>1. PICK d \in ready : msg[d].seq = LastSeq(ready)
      BY <1>6, <2>2
    <3>2. s < LastSeq(ready) /\ LastSeq(ready) \in Nat
      BY <1>1, <1>2, <1>6, <2>2, <3>1
    <3>3. QED
      BY <1>0, <1>4, <2>2, <3>2
  <2>3. QED
    BY <2>1, <2>2
<1>9. \A i \in ready : msg[i].seq < expected'[p]
  <2> HIDE DEF ready
  <2>1. QED
    BY <1>1, <1>2, <1>4, <1>6
<1>10. QED
  BY <1>1, <1>2, <1>7, <1>8, <1>9

\* What the invariant says of one pair.
OrderOf(p) == /\ \A i \in buffers[p] : msg[i].seq > expected[p]
              /\ bufferFull = 0 =>
                   /\ InOrder(p)
                   /\ \A i \in Session(p) \cap Released : msg[i].seq < expected[p]

\* Messages that leave a pair above all it released before, in one list that is
\* newer than the others, leave it in order.
LEMMA NewListKeepsOrder ==
    ASSUME FateInv, TypeOK', NEW p \in Pairs, OrderOf(p),
           bufferFull = 0, Released' \subseteq MsgId,
           \A i \in Arrived : msg'[i].seq = msg[i].seq,
           \A i \in Arrived : i \in Session(p)' => i \in Session(p),
           \A i \in Session(p)' \cap Released' :
               \/ i \in Released /\ released'[i] = released[i]
               \/ /\ released'[i] = batch + 1
                  /\ msg'[i].seq >= expected[p] /\ msg'[i].seq < expected'[p],
           expected[p] <= expected'[p]
    PROVE  /\ InOrder(p)'
           /\ \A i \in Session(p)' \cap Released' : msg'[i].seq < expected'[p]
<1>0. /\ \A i \in Released : i \in Arrived /\ i \in MsgId
      /\ \A i \in Released : released[i] \in Nat /\ released[i] <= batch
      /\ batch \in Nat
      /\ expected[p] \in Nat /\ expected'[p] \in Nat
  BY OrderTypes DEF Released, TypeOK
<1>1. \A i \in MsgId : msg'[i].seq \in Nat
  BY DEF TypeOK, Message, SeqNum
<1>2. \A i \in Session(p) \cap Released : msg[i].seq < expected[p]
  BY DEF OrderOf
<1>3. \A i, j \in Session(p) \cap Released :
          released[i] < released[j] => msg[i].seq < msg[j].seq
  BY DEF OrderOf, InOrder
<1>4. ASSUME NEW i \in Session(p)' \cap Released'
      PROVE  /\ msg'[i].seq < expected'[p]
             /\ i \in Released /\ released'[i] = released[i] =>
                   msg'[i].seq < expected[p] /\ i \in Session(p)
  BY <1>0, <1>1, <1>2, <1>4
<1>5. ASSUME NEW i \in Session(p)' \cap Released',
             NEW j \in Session(p)' \cap Released',
             released'[i] < released'[j]
      PROVE  msg'[i].seq < msg'[j].seq
  <2>1. CASE released'[i] = batch + 1
    BY <1>0, <1>5, <2>1
  <2>2. CASE i \in Released /\ released'[i] = released[i]
    <3>1. CASE j \in Released /\ released'[j] = released[j]
      BY <1>0, <1>3, <1>4, <1>5, <2>2, <3>1
    <3>2. CASE released'[j] = batch + 1 /\ msg'[j].seq >= expected[p]
      BY <1>0, <1>1, <1>4, <1>5, <2>2, <3>2
    <3>3. QED
      BY <3>1, <3>2
  <2>3. QED
    BY <2>1, <2>2
<1>6. QED
  BY <1>4, <1>5 DEF InOrder

\* The invariant, one pair at a time.
LEMMA OrderByPair ==
    NoneReadyWaits /\ BelowExpected /\ ReleasedInOrder
        <=> \A p \in Pairs : Unique(p) => OrderOf(p)
  BY DEF NoneReadyWaits, BelowExpected, ReleasedInOrder, OrderOf

\* A step that leaves a pair's buffer, released messages and expectation alone
\* leaves its order alone.
LEMMA OrderUntouched ==
    ASSUME FateInv, NEW p \in Pairs, OrderOf(p),
           buffers'[p] = buffers[p], expected'[p] = expected[p],
           bufferFull' = 0 => bufferFull = 0,
           \A i \in Arrived : msg'[i].seq = msg[i].seq,
           \A i \in Session(p)' \cap Released' :
               i \in Session(p) \cap Released /\ released'[i] = released[i]
    PROVE  OrderOf(p)'
<1>1. \A i \in buffers[p] : i \in Arrived
  BY OrderTypes
<1>2. \A i \in Released : i \in Arrived
  BY DEF Released
<1>3. QED
  BY <1>1, <1>2 DEF OrderOf, InOrder

\* Every step keeps the order of every pair whose numbers are unique.
LEMMA OrderStep == OrderInv /\ [ReorderNext]_reorderVars => OrderInv'
<1> SUFFICES ASSUME OrderInv, [ReorderNext]_reorderVars PROVE OrderInv'
  OBVIOUS
<1>0. /\ FateInv /\ FateInv' /\ TypeOK /\ TypeOK'
      /\ \A q \in Pairs : Unique(q) => OrderOf(q)
  BY FateStep, OrderByPair DEF OrderInv, FateInv
<1>1. SUFFICES ASSUME NEW q \in Pairs, Unique(q)' PROVE OrderOf(q)'
  <2>1. \A q \in Pairs : Unique(q)' => OrderOf(q)'
    BY <1>1
  <2>2. NoneReadyWaits' /\ BelowExpected' /\ ReleasedInOrder'
    BY <2>1 DEF NoneReadyWaits, BelowExpected, ReleasedInOrder, OrderOf
  <2>3. QED
    BY <1>0, <2>2 DEF OrderInv
<1>2. \A i \in Released : i \in Arrived /\ released[i] <= batch
  BY <1>0, OrderTypes DEF Released
<1>3. ASSUME NEW p \in Pairs, NEW s \in SeqNum, Arrive(p, s), p # q,
             buffers'[q] = buffers[q], expected'[q] = expected[q],
             bufferFull' = 0 => bufferFull = 0,
             \A i \in Arrived : i \notin buffers[p] => released'[i] = released[i]
      PROVE  OrderOf(q)'
  <2>1. OrderOf(q) /\ \A i \in Arrived : msg'[i].seq = msg[i].seq
    BY <1>0, <1>1, <1>3, UniqueBefore
  <2>2. ASSUME NEW i \in Session(q)' \cap Released'
        PROVE  i \in Session(q) \cap Released /\ released'[i] = released[i]
    <3>1. i \in Arrived
      BY <1>0, <1>3, UniqueBefore DEF Released
    <3>2. i \in Session(q) /\ i \notin buffers[p]
      BY <1>0, <1>3, <3>1, UniqueBefore, OrderTypes DEF Session
    <3>3. QED
      BY <1>3, <3>1, <3>2 DEF Released
  <2>3. QED
    BY <1>0, <1>3, <2>1, <2>2, OrderUntouched
<1>4. ASSUME NEW p \in Pairs, NEW s \in SeqNum, DeliverExpected(p, s)
      PROVE  OrderOf(q)'
  <2> DEFINE ready == Drained(p, s)
  <2>1. /\ Arrive(p, s) /\ s = expected[p] /\ bufferFull' = bufferFull
        /\ buffers' = [buffers EXCEPT ![p] = @ \ ready]
        /\ released' = [i \in MsgId |-> IF i \in ready \cup {arrived + 1}
                                        THEN batch + 1 ELSE released[i]]
    BY <1>4 DEF DeliverExpected
  <2>2. ready \subseteq buffers[p] /\ Arrived \subseteq MsgId
    BY <1>0, OrderTypes DEF Drained
  <2>3. CASE p # q
    <3>1. buffers'[q] = buffers[q] /\ expected'[q] = expected[q]
      BY <1>4, <2>3 DEF DeliverExpected, TypeOK
    <3>2. \A i \in Arrived : i \notin buffers[p] => released'[i] = released[i]
      <4> HIDE DEF ready
      <4>1. QED
        BY <1>0, <2>1, <2>2, UniqueBefore
    <3>3. QED
      BY <1>3, <2>1, <2>3, <3>1, <3>2
  <2>4. CASE p = q
    <3>1. /\ s < expected'[q]
          /\ \A i \in ready : s < msg[i].seq /\ msg[i].seq < expected'[q]
          /\ \A i \in buffers[q] \ ready : expected'[q] < msg[i].seq
      <4>1. OrderOf(q) /\ Unique(q)
        BY <1>0, <1>1, <2>1, UniqueBefore
      <4>2. \A i \in buffers[q] : msg[i].seq > expected[q]
        BY <4>1 DEF OrderOf
      <4>3. \A i, j \in buffers[q] : msg[i].seq = msg[j].seq => i = j
        BY <1>0, <4>1, OrderTypes DEF Unique
      <4>4. QED
        BY <1>0, <1>4, <2>4, <4>2, <4>3, DrainStopsAtGap
    <3> HIDE DEF ready
    <3>2. OrderOf(q) /\ msg'[arrived + 1].seq = s
          /\ \A i \in Arrived : msg'[i].seq = msg[i].seq
      BY <1>0, <1>1, <2>1, UniqueBefore
    <3>3. buffers'[q] = buffers[q] \ ready
      BY <1>0, <2>1, <2>4 DEF TypeOK
    <3>4. \A i \in buffers'[q] : msg'[i].seq > expected'[q]
      <4>1. \A i \in buffers[q] : i \in Arrived /\ msg[i].seq \in Nat
        BY <1>0, OrderTypes
      <4>2. expected'[q] \in Nat
        BY <1>0 DEF TypeOK
      <4>3. QED
        BY <3>1, <3>2, <3>3, <4>1, <4>2
    <3>5. ASSUME bufferFull' = 0
          PROVE  /\ InOrder(q)'
                 /\ \A i \in Session(q)' \cap Released' : msg'[i].seq < expected'[q]
      <4>1. \A i \in Arrived : i \in Session(q)' => i \in Session(q)
        BY <1>0, <2>1, UniqueBefore
      <4>2. ASSUME NEW i \in Session(q)' \cap Released'
            PROVE  \/ i \in Released /\ released'[i] = released[i]
                   \/ /\ released'[i] = batch + 1
                      /\ msg'[i].seq >= expected[q] /\ msg'[i].seq < expected'[q]
        <5>1. i \in Arrived \cup {arrived + 1} /\ i \in MsgId
          BY <1>0, <2>1, <2>2, UniqueBefore DEF Released
        <5>2. CASE i = arrived + 1
          BY <1>0, <2>1, <2>4, <3>1, <3>2, <5>1, <5>2 DEF TypeOK
        <5>3. CASE i \in ready
          <6>1. msg'[i].seq = msg[i].seq /\ msg[i].seq \in Nat
            BY <1>0, <2>2, <3>2, <5>3, OrderTypes
          <6>2. QED
            BY <1>0, <2>1, <2>4, <3>1, <5>1, <5>3, <6>1 DEF TypeOK
        <5>4. CASE i \notin ready \cup {arrived + 1}
          BY <2>1, <5>1, <5>4 DEF Released
        <5>5. QED
          BY <5>2, <5>3, <5>4
      <4>3. expected[q] <= expected'[q]
        BY <1>0, <2>1, <2>4, <3>1 DEF TypeOK
      <4>4. Released' \subseteq MsgId
        BY <1>0, <2>1, <2>2, UniqueBefore DEF Released
      <4>5. QED
        BY <1>0, <2>1, <3>2, <3>5, <4>1, <4>2, <4>3, <4>4, NewListKeepsOrder
    <3>6. QED
      BY <3>4, <3>5 DEF OrderOf
  <2>5. QED
    BY <2>3, <2>4
<1>5. ASSUME NEW p \in Pairs, NEW s \in SeqNum, Buffer(p, s)
      PROVE  OrderOf(q)'
  <2>1. /\ Arrive(p, s) /\ s > expected[p]
        /\ buffers' = [buffers EXCEPT ![p] = @ \cup {arrived + 1}]
        /\ UNCHANGED <<expected, bufferFull, released>>
    BY <1>5 DEF Buffer
  <2>2. CASE p # q
    BY <1>0, <1>3, <2>1, <2>2 DEF TypeOK
  <2>3. CASE p = q
    <3>1. /\ OrderOf(q) /\ msg'[arrived + 1].seq = s
          /\ \A i \in Arrived : msg'[i].seq = msg[i].seq
          /\ \A i \in Arrived : i \in Session(q)' => i \in Session(q)
          /\ Arrived' = Arrived \cup {arrived + 1} /\ released[arrived + 1] = 0
      BY <1>0, <1>1, <2>1, UniqueBefore
    <3>2. buffers'[q] = buffers[q] \cup {arrived + 1}
      BY <1>0, <2>1, <2>3 DEF TypeOK
    <3>3. \A i \in buffers[q] : i \in Arrived
      BY <1>0, OrderTypes
    <3>4. \A i \in buffers'[q] : msg'[i].seq > expected'[q]
      BY <2>1, <2>3, <3>1, <3>2, <3>3 DEF OrderOf
    <3>5. Released' = Released
      BY <2>1, <3>1 DEF Released
    <3>6. \A i \in Session(q)' \cap Released' : i \in Arrived /\ i \in Session(q)
      BY <1>2, <3>1, <3>5
    <3>7. bufferFull' = 0 =>
             /\ InOrder(q)'
             /\ \A i \in Session(q)' \cap Released' : msg'[i].seq < expected'[q]
      BY <2>1, <3>1, <3>5, <3>6 DEF OrderOf, InOrder
    <3>8. QED
      BY <3>4, <3>7 DEF OrderOf
  <2>4. QED
    BY <2>2, <2>3
<1>6. ASSUME NEW p \in Pairs, NEW s \in SeqNum, FlushFull(p, s)
      PROVE  OrderOf(q)'
  <2>1. /\ Arrive(p, s) /\ bufferFull' = bufferFull + 1
        /\ buffers' = [buffers EXCEPT ![p] = {}]
        /\ expected' = [expected EXCEPT ![p] = s + 1]
    BY <1>6 DEF FlushFull
  <2>2. bufferFull' # 0
    BY <1>0, <2>1 DEF TypeOK
  <2>3. CASE p = q
    <3>1. buffers'[q] = {}
      BY <1>0, <2>1, <2>3 DEF TypeOK
    <3>2. QED
      BY <2>2, <3>1 DEF OrderOf
  <2>4. CASE p # q
    <3>1. OrderOf(q) /\ \A i \in Arrived : msg'[i].seq = msg[i].seq
      BY <1>0, <1>1, <2>1, UniqueBefore
    <3>2. buffers'[q] = buffers[q] /\ expected'[q] = expected[q]
      BY <1>0, <2>1, <2>4 DEF TypeOK
    <3>3. \A i \in buffers[q] : i \in Arrived
      BY <1>0, OrderTypes
    <3>4. QED
      BY <2>2, <3>1, <3>2, <3>3 DEF OrderOf
  <2>5. QED
    BY <2>3, <2>4
<1>7. ASSUME NEW p \in Pairs, NEW s \in SeqNum, SkipDuplicate(p, s)
      PROVE  OrderOf(q)'
  <2>1. /\ Arrive(p, s)
        /\ UNCHANGED <<buffers, expected, bufferFull, released>>
    BY <1>7 DEF SkipDuplicate
  <2>2. /\ OrderOf(q) /\ \A i \in Arrived : msg'[i].seq = msg[i].seq
        /\ \A i \in Arrived : i \in Session(q)' => i \in Session(q)
        /\ Arrived' = Arrived \cup {arrived + 1} /\ released[arrived + 1] = 0
    BY <1>0, <1>1, <2>1, UniqueBefore
  <2>3. Released' = Released
    BY <2>1, <2>2 DEF Released
  <2>4. QED
    BY <1>0, <1>2, <2>1, <2>2, <2>3, OrderUntouched
<1>8. ASSUME CheckTimeouts
      PROVE  OrderOf(q)'
  <2> DEFINE ready == UNION {buffers[p] : p \in TimedOut}
  <2>1. /\ UNCHANGED <<arrived, msg, bufferFull, forgotten>>
        /\ buffers'[q] = IF q \in TimedOut THEN {} ELSE buffers[q]
        /\ expected'[q] = ExpectedAfter(q)
        /\ released' = [i \in MsgId |-> IF i \in ready THEN batch + 1 ELSE released[i]]
    BY <1>8 DEF CheckTimeouts, KeptAfter
  <2>2. /\ OrderOf(q) /\ Arrived' = Arrived /\ Session(q)' = Session(q)
    BY <1>0, <1>1, <2>1 DEF Unique, Arrived, Session
  <2>3. ASSUME NEW i \in ready
        PROVE  i \in Arrived /\ msg[i].pair \in TimedOut /\ i \in buffers[msg[i].pair]
    BY <1>0, OrderTypes DEF TimedOut
  <2> HIDE DEF ready
  <2>4. Released' \subseteq MsgId /\ Arrived \subseteq MsgId
    BY <1>0, <2>2, OrderTypes DEF Released
  <2>5. \A i \in Session(q) : msg[i].pair = q /\ i \in Arrived
    BY DEF Session
  <2>6. ASSUME NEW i \in Session(q) \cap Released', i \notin ready
        PROVE  i \in Released /\ released'[i] = released[i]
    BY <2>1, <2>4, <2>5, <2>6 DEF Released
  <2>7. CASE q \notin TimedOut
    <3>1. \A i \in Session(q) : i \notin ready
      BY <2>3, <2>5, <2>7
    <3>2. expected'[q] = expected[q]
      BY <2>1, <2>7 DEF ExpectedAfter
    <3>3. QED
      BY <1>0, <2>1, <2>2, <2>6, <2>7, <3>1, <3>2, OrderUntouched
  <2>8. CASE q \in TimedOut
    <3>1. /\ buffers[q] # {} /\ buffers[q] \in SUBSET MsgId
          /\ LastSeq(buffers[q]) \in SeqNum
          /\ \A i \in buffers[q] : msg[i].seq <= LastSeq(buffers[q])
      BY <1>0, <2>8, SeqsType DEF TimedOut, TypeOK
    <3>2. expected'[q] = LastSeq(buffers[q]) + 1 /\ LastSeq(buffers[q]) \in Nat
      BY <2>1, <2>8, <3>1 DEF ExpectedAfter, SeqNum
    <3>3. \A i \in buffers[q] : /\ msg[i].seq \in Nat /\ expected[q] \in Nat
                                /\ msg[i].seq > expected[q]
                                /\ msg[i].seq < expected'[q]
      BY <1>0, <2>2, <3>1, <3>2, OrderTypes DEF OrderOf
    <3>4. expected[q] <= expected'[q]
      BY <3>1, <3>2, <3>3
    <3>5. ASSUME NEW i \in Session(q)' \cap Released'
          PROVE  \/ i \in Released /\ released'[i] = released[i]
                 \/ /\ released'[i] = batch + 1
                    /\ msg'[i].seq >= expected[q] /\ msg'[i].seq < expected'[q]
      <4>1. CASE i \in ready
        <5>1. i \in buffers[q] /\ i \in MsgId
          BY <2>2, <2>3, <2>4, <2>5, <4>1
        <5>2. QED
          BY <2>1, <3>3, <4>1, <5>1
      <4>2. CASE i \notin ready
        BY <2>2, <2>6, <4>2
      <4>3. QED
        BY <4>1, <4>2
    <3>6. bufferFull' = 0 =>
             /\ InOrder(q)'
             /\ \A i \in Session(q)' \cap Released' : msg'[i].seq < expected'[q]
      <4>1. \A i \in Arrived : msg'[i].seq = msg[i].seq
        BY <2>1
      <4>2. \A i \in Arrived : i \in Session(q)' => i \in Session(q)
        BY <2>2
      <4>3. QED
        BY <1>0, <2>1, <2>2, <2>4, <3>4, <3>5, <4>1, <4>2, NewListKeepsOrder
    <3>7. buffers'[q] = {}
      BY <2>1, <2>8
    <3>8. QED
      BY <3>6, <3>7 DEF OrderOf
  <2>9. QED
    BY <2>7, <2>8
<1>9. ASSUME CleanupOldPairs
      PROVE  OrderOf(q)'
  <2>1. PICK gone \in SUBSET Pairs :
           /\ buffers' = [p \in Pairs |-> IF p \in gone THEN {} ELSE buffers[p]]
           /\ expected' = [p \in Pairs |-> IF p \in gone THEN FirstSeq
                                           ELSE expected[p]]
           /\ forgotten' = [p \in Pairs |-> IF p \in gone THEN arrived
                                            ELSE forgotten[p]]
    BY <1>9 DEF CleanupOldPairs, Stale, Tracked
  <2>2. UNCHANGED <<arrived, msg, bufferFull, released>>
    BY <1>9 DEF CleanupOldPairs
  <2>3. OrderOf(q) /\ Arrived' = Arrived /\ Released' = Released
    BY <1>0, <1>1, <2>2 DEF Unique, Arrived, Released
  <2>4. CASE q \in gone
    <3>1. Session(q)' = {}
      BY <1>0, <2>1, <2>2, <2>4 DEF Session, Arrived, TypeOK
    <3>2. buffers'[q] = {}
      BY <2>1, <2>4
    <3>3. QED
      BY <3>1, <3>2 DEF OrderOf, InOrder
  <2>5. CASE q \notin gone
    <3>1. Session(q)' = Session(q)
      BY <2>1, <2>2, <2>5 DEF Session, Arrived
    <3>2. QED
      BY <1>0, <2>1, <2>2, <2>3, <2>5, <3>1, OrderUntouched
  <2>6. QED
    BY <2>4, <2>5
<1>10. ASSUME UNCHANGED <<arrived, msg, buffers, expected, bufferFull, released,
                          forgotten>>
       PROVE  OrderOf(q)'
  <2>1. OrderOf(q) /\ Session(q)' = Session(q) /\ Released' = Released
    BY <1>0, <1>1, <1>10 DEF Unique, Arrived, Session, Released
  <2>2. QED
    BY <1>0, <1>10, <2>1, OrderUntouched
<1>11. QED
  BY <1>4, <1>5, <1>6, <1>7, <1>8, <1>9, <1>10
  DEF ReorderNext, Receive, Deliver, Tick, reorderVars

\* The invariant of the order holds in every behaviour of the buffer.
LEMMA OrderInvariant == ReorderSpec => []OrderInv
<1>1. ReorderInit => OrderInv
  <2> SUFFICES ASSUME ReorderInit PROVE OrderInv
    OBVIOUS
  <2>1. FateInv
    BY FateInit
  <2>2. Arrived = {} /\ Released = {}
    BY DEF ReorderInit, Arrived, Released
  <2>3. \A p \in Pairs : OrderOf(p)
    BY <2>2 DEF ReorderInit, OrderOf, InOrder, Session
  <2>4. QED
    BY <2>1, <2>3, OrderByPair DEF OrderInv
<1>2. QED
  BY <1>1, OrderStep, PTL DEF ReorderSpec

\* As long as numbers are unique and no buffer overflows, the messages of a
\* pair leave in the order of their numbers, whatever is lost or times out.
THEOREM ReleasedInOrderHolds == ReorderSpec => []ReleasedInOrder
<1>1. OrderInv => ReleasedInOrder
  BY DEF OrderInv
<1>2. QED
  BY <1>1, OrderInvariant, PTL

\* With unique numbers nothing that could be delivered is held back.
THEOREM NoneReadyWaitsHolds == ReorderSpec => []NoneReadyWaits
<1>1. OrderInv => NoneReadyWaits
  BY DEF OrderInv
<1>2. QED
  BY <1>1, OrderInvariant, PTL

-----------------------------------------------------------------------------
(* Only what was overtaken is dropped as a duplicate *)

\* What a pair expects follows a number that was returned.
Backed ==
    \A p \in Pairs : expected[p] # FirstSeq =>
        \E j \in Released : msg[j].pair = p /\ msg[j].seq + 1 >= expected[p]

SkippedInv == FateInv /\ Backed /\ OnlyOvertakenSkipped

\* Where an arrival puts the new message.
LEMMA NewMessage ==
    ASSUME FateInv, NEW p \in Pairs, NEW s \in SeqNum, Arrive(p, s)
    PROVE  /\ arrived + 1 \in MsgId /\ arrived + 1 \in Arrived'
           /\ msg'[arrived + 1].pair = p /\ msg'[arrived + 1].seq = s
           /\ \A i \in Arrived : msg'[i] = msg[i]
           /\ Arrived \subseteq Arrived'
<1>1. msg'[arrived + 1] = [pair |-> p, seq |-> s, at |-> now]
  BY ArriveType DEF FateInv
<1>2. msg'[arrived + 1].pair = p
  BY <1>1
<1>3. QED
  BY <1>2, UniqueBefore

\* An arrival that counts nothing as a duplicate, releases no message less and
\* moves only the number its pair expects, to one after a number it returned.
LEMMA SkippedArrival ==
    ASSUME SkippedInv, FateInv', NEW p \in Pairs, NEW s \in SeqNum, Arrive(p, s),
           duplicates' = duplicates, Released \subseteq Released',
           \A q \in Pairs : q # p => expected'[q] = expected[q],
           \/ expected'[p] = expected[p]
           \/ \E j \in Released' : msg'[j].pair = p /\ msg'[j].seq + 1 >= expected'[p]
    PROVE  Backed' /\ OnlyOvertakenSkipped'
<1>1. \A i \in Arrived : msg'[i] = msg[i]
  BY ArriveType DEF SkippedInv, FateInv
<1>2. Released \subseteq Arrived /\ duplicates \subseteq Arrived
  BY DEF SkippedInv, FateInv, OneFate
<1>3. OnlyOvertakenSkipped'
  BY <1>1, <1>2 DEF SkippedInv, OnlyOvertakenSkipped
<1>4. ASSUME NEW q \in Pairs, expected'[q] # FirstSeq
      PROVE  \E j \in Released' : msg'[j].pair = q /\ msg'[j].seq + 1 >= expected'[q]
  <2>1. CASE expected'[q] = expected[q]
    BY <1>1, <1>2, <1>4, <2>1 DEF SkippedInv, Backed
  <2>2. CASE expected'[q] # expected[q]
    BY <2>2
  <2>3. QED
    BY <2>1, <2>2
<1>5. Backed'
  BY <1>4 DEF Backed, FirstSeq
<1>6. QED
  BY <1>3, <1>5

\* Every step keeps it.
LEMMA SkippedStep == SkippedInv /\ [ReorderNext]_reorderVars => SkippedInv'
<1> SUFFICES ASSUME SkippedInv, [ReorderNext]_reorderVars
             PROVE  Backed' /\ OnlyOvertakenSkipped'
  BY FateStep DEF SkippedInv
<1>0. FateInv /\ FateInv' /\ TypeOK /\ TypeOK'
  BY FateStep DEF SkippedInv, FateInv
<1>1. ASSUME NEW p \in Pairs, NEW s \in SeqNum, DeliverExpected(p, s)
      PROVE  Backed' /\ OnlyOvertakenSkipped'
  <2> DEFINE ready == Drained(p, s)
             out == {arrived + 1}
  <2>1. /\ Arrive(p, s) /\ duplicates' = duplicates
        /\ expected' = [expected EXCEPT ![p] =
                          IF ready = {} THEN s + 1 ELSE LastSeq(ready) + 1]
        /\ released' = [i \in MsgId |-> IF i \in ready \cup out
                                        THEN batch + 1 ELSE released[i]]
    BY <1>1 DEF DeliverExpected
  <2>2. /\ arrived + 1 \in MsgId /\ arrived + 1 \in Arrived'
        /\ msg'[arrived + 1].pair = p /\ msg'[arrived + 1].seq = s
        /\ \A i \in Arrived : msg'[i] = msg[i]
        /\ Arrived \subseteq Arrived'
    BY <1>0, <2>1, NewMessage
  <2>3. ready \subseteq buffers[p]
    BY DEF Drained
  <2>4. \A i \in ready : i \in Arrived /\ i \in MsgId /\ msg[i].pair = p
    BY <1>0, <2>3, OrderTypes
  <2>5. batch + 1 # 0 /\ batch \in Nat
    BY <1>0 DEF TypeOK
  <2>6. ready \cup out \subseteq Released' /\ Released \subseteq Released'
    <3> HIDE DEF ready
    <3>1. QED
      BY <1>0, <2>1, <2>2, <2>4, <2>5, OrderTypes DEF Released
  <2>7. expected'[p] = IF ready = {} THEN s + 1 ELSE LastSeq(ready) + 1
    BY <1>0, <2>1 DEF TypeOK
  <2>8. ready # {} => LastSeq(ready) \in Seqs(ready)
    BY <1>0, <2>4, SeqsType
  <2>9. \E j \in Released' : msg'[j].pair = p /\ msg'[j].seq + 1 >= expected'[p]
    <3> HIDE DEF ready
    <3>1. CASE ready = {}
      BY <2>2, <2>6, <2>7, <3>1 DEF SeqNum
    <3>2. CASE ready # {}
      <4>1. PICK j \in ready : msg[j].seq = LastSeq(ready)
        BY <2>8, <3>2 DEF Seqs
      <4>2. msg'[j].pair = p /\ msg'[j].seq = LastSeq(ready) /\ msg'[j].seq \in Nat
        BY <1>0, <2>2, <2>4, <4>1, OrderTypes
      <4>3. QED
        BY <2>6, <2>7, <3>2, <4>2
    <3>3. QED
      BY <3>1, <3>2
  <2>10. \A q \in Pairs : q # p => expected'[q] = expected[q]
    <3> HIDE DEF ready
    <3>1. QED
      BY <1>0, <2>1 DEF TypeOK
  <2>11. QED
    BY <1>0, <2>1, <2>6, <2>9, <2>10, SkippedArrival
<1>2. ASSUME NEW p \in Pairs, NEW s \in SeqNum, Buffer(p, s)
      PROVE  Backed' /\ OnlyOvertakenSkipped'
  <2>1. /\ Arrive(p, s) /\ duplicates' = duplicates /\ expected' = expected
        /\ released' = released
    BY <1>2 DEF Buffer
  <2>2. Released \subseteq Released'
    BY <1>0, <2>1, ArriveType DEF Released
  <2>3. QED
    BY <1>0, <2>1, <2>2, SkippedArrival
<1>3. ASSUME NEW p \in Pairs, NEW s \in SeqNum, FlushFull(p, s)
      PROVE  Backed' /\ OnlyOvertakenSkipped'
  <2>1. /\ Arrive(p, s) /\ duplicates' = duplicates
        /\ expected' = [expected EXCEPT ![p] = s + 1]
        /\ released' = [i \in MsgId |-> IF i \in buffers[p] THEN batch + 1
                                        ELSE IF i = arrived + 1 THEN batch + 2
                                        ELSE released[i]]
    BY <1>3 DEF FlushFull
  <2>2. /\ arrived + 1 \in MsgId /\ arrived + 1 \in Arrived'
        /\ msg'[arrived + 1].pair = p /\ msg'[arrived + 1].seq = s
        /\ Arrived \subseteq Arrived'
    BY <1>0, <2>1, NewMessage
  <2>3. batch + 1 # 0 /\ batch + 2 # 0
    BY <1>0 DEF TypeOK
  <2>4. arrived + 1 \in Released' /\ Released \subseteq Released'
    BY <1>0, <2>1, <2>2, <2>3, OrderTypes DEF Released
  <2>5. expected'[p] = s + 1 /\ \A q \in Pairs : q # p => expected'[q] = expected[q]
    BY <1>0, <2>1 DEF TypeOK
  <2>6. msg'[arrived + 1].seq + 1 >= expected'[p]
    BY <2>2, <2>5 DEF SeqNum
  <2>7. QED
    BY <1>0, <2>1, <2>2, <2>4, <2>5, <2>6, SkippedArrival
<1>4. ASSUME NEW p \in Pairs, NEW s \in SeqNum, SkipDuplicate(p, s)
      PROVE  Backed' /\ OnlyOvertakenSkipped'
  <2>1. /\ Arrive(p, s) /\ duplicates' = duplicates \cup {arrived + 1}
        /\ expected' = expected /\ released' = released /\ s < expected[p]
    BY <1>4 DEF SkipDuplicate
  <2>2. /\ msg'[arrived + 1].pair = p /\ msg'[arrived + 1].seq = s
        /\ \A i \in Arrived : msg'[i] = msg[i]
        /\ Arrived \subseteq Arrived'
    BY <1>0, <2>1, NewMessage
  <2>3. Released \subseteq Arrived /\ duplicates \subseteq Arrived
    BY <1>0 DEF FateInv, OneFate
  <2>4. Released \subseteq Released'
    BY <2>1, <2>2 DEF Released
  <2>5. Backed'
    BY <2>1, <2>2, <2>3, <2>4 DEF SkippedInv, Backed, FirstSeq
  <2>6. \A i \in duplicates : \E j \in Released' :
          msg'[j].pair = msg'[i].pair /\ j < i /\ msg'[j].seq >= msg'[i].seq
    BY <2>2, <2>3, <2>4 DEF SkippedInv, OnlyOvertakenSkipped
  <2>7. expected[p] \in Nat /\ s \in Nat \ {0}
    BY <1>0 DEF TypeOK, SeqNum
  <2>8. PICK j \in Released : msg[j].pair = p /\ msg[j].seq + 1 >= expected[p]
    BY <2>1, <2>7 DEF SkippedInv, Backed, FirstSeq
  <2>9. msg[j].seq \in Nat /\ j \in Arrived /\ j < arrived + 1
    BY <1>0, <2>3, OrderTypes DEF Arrived, TypeOK
  <2>10. j \in Released' /\ msg'[j] = msg[j] /\ msg'[j].seq >= s
    BY <2>1, <2>2, <2>4, <2>7, <2>8, <2>9
  <2>11. OnlyOvertakenSkipped'
    BY <2>1, <2>2, <2>6, <2>8, <2>9, <2>10 DEF OnlyOvertakenSkipped
  <2>12. QED
    BY <2>5, <2>11
<1>5. ASSUME CheckTimeouts
      PROVE  Backed' /\ OnlyOvertakenSkipped'
  <2> DEFINE ready == UNION {buffers[p] : p \in TimedOut}
  <2>1. /\ expected' = [p \in Pairs |-> ExpectedAfter(p)]
        /\ released' = [i \in MsgId |-> IF i \in ready THEN batch + 1 ELSE released[i]]
        /\ UNCHANGED <<arrived, msg, duplicates>>
    BY <1>5 DEF CheckTimeouts
  <2>2. batch + 1 # 0
    BY <1>0 DEF TypeOK
  <2>3. ready \subseteq Arrived /\ Arrived \subseteq MsgId /\ Arrived' = Arrived
    BY <1>0, <2>1, OrderTypes DEF TimedOut, Arrived
  <2>4. ready \subseteq Released' /\ Released \subseteq Released'
    <3> HIDE DEF ready
    <3>1. QED
      BY <2>1, <2>2, <2>3 DEF Released
  <2>5. OnlyOvertakenSkipped'
    BY <2>1, <2>4 DEF SkippedInv, OnlyOvertakenSkipped
  <2>6. ASSUME NEW p \in Pairs, expected'[p] # FirstSeq
        PROVE  \E j \in Released' : msg'[j].pair = p /\ msg'[j].seq + 1 >= expected'[p]
    <3>1. CASE p \in TimedOut
      <4>1. expected'[p] = LastSeq(buffers[p]) + 1 /\ buffers[p] # {}
        BY <2>1, <3>1 DEF ExpectedAfter, TimedOut
      <4>2. LastSeq(buffers[p]) \in Seqs(buffers[p])
        BY <1>0, <4>1, SeqsType, OrderTypes
      <4>3. PICK j \in buffers[p] : msg[j].seq = LastSeq(buffers[p])
        BY <4>2 DEF Seqs
      <4>4. j \in ready /\ msg[j].pair = p /\ msg[j].seq \in Nat
        BY <1>0, <3>1, <4>3, OrderTypes
      <4>5. QED
        BY <2>1, <2>4, <4>1, <4>3, <4>4
    <3>2. CASE p \notin TimedOut
      BY <2>1, <2>4, <2>6, <3>2 DEF ExpectedAfter, SkippedInv, Backed
    <3>3. QED
      BY <3>1, <3>2
  <2>7. QED
    BY <2>5, <2>6 DEF Backed, FirstSeq
<1>6. ASSUME CleanupOldPairs
      PROVE  Backed' /\ OnlyOvertakenSkipped'
  <2>1. \A p \in Pairs : expected'[p] \in {FirstSeq, expected[p]}
    BY <1>6 DEF CleanupOldPairs
  <2>2. UNCHANGED <<arrived, msg, released, duplicates>>
    BY <1>6 DEF CleanupOldPairs
  <2>3. Released' = Released
    BY <2>2 DEF Released, Arrived
  <2>4. QED
    BY <2>1, <2>2, <2>3 DEF SkippedInv, Backed, OnlyOvertakenSkipped, FirstSeq
<1>7. ASSUME UNCHANGED <<arrived, msg, expected, released, duplicates>>
      PROVE  Backed' /\ OnlyOvertakenSkipped'
  BY <1>7 DEF SkippedInv, Backed, OnlyOvertakenSkipped, Released, Arrived, FirstSeq
<1>8. QED
  BY <1>1, <1>2, <1>3, <1>4, <1>5, <1>6, <1>7
  DEF ReorderNext, Receive, Deliver, Tick, reorderVars

\* What is dropped as a duplicate was overtaken by a message with its number or
\* a later one, with any timeouts, overflows and cleanups in between.
THEOREM OnlyOvertakenSkippedHolds == ReorderSpec => []OnlyOvertakenSkipped
<1>1. ReorderInit => SkippedInv
  BY FateInit DEF ReorderInit, SkippedInv, Backed, OnlyOvertakenSkipped
<1>2. SkippedInv => OnlyOvertakenSkipped
  BY DEF SkippedInv
<1>3. QED
  BY <1>1, <1>2, SkippedStep, PTL DEF ReorderSpec

-----------------------------------------------------------------------------
(* A buffer is bounded *)

\* Whatever is held back, parts of it are no more.
LEMMA NoMoreHeld ==
    ASSUME TypeOK, BufferBounded, NEW p \in Pairs, NEW S \in SUBSET buffers[p]
    PROVE  IsFiniteSet(S) /\ Cardinality(S) <= MAX_BUFFER_SIZE
<1>1. IsFiniteSet(MsgId) /\ buffers[p] \in SUBSET MsgId /\ S \in SUBSET MsgId
  <2>1. IsFiniteSet(1..MaxMsgs)
    BY FS_Interval, ReorderAssumption
  <2>2. QED
    BY <2>1 DEF MsgId, TypeOK
<1>2. IsFiniteSet(buffers[p]) /\ IsFiniteSet(S)
  BY <1>1, FS_Subset
<1>3. Cardinality(S) <= Cardinality(buffers[p])
  BY <1>2, FS_Subset
<1>4. /\ Cardinality(S) \in Nat /\ Cardinality(buffers[p]) \in Nat
      /\ Cardinality(buffers[p]) <= MAX_BUFFER_SIZE
  BY <1>2, FS_CardinalityType DEF BufferBounded
<1>5. QED
  BY <1>2, <1>3, <1>4, ReorderAssumption

\* A buffer never holds more than MAX_BUFFER_SIZE messages: one is added only
\* while there is room.
THEOREM BufferBoundedHolds == ReorderSpec => []BufferBounded
<1>1. ReorderInit => BufferBounded
  BY FS_EmptySet, ReorderAssumption DEF ReorderInit, BufferBounded
<1>2. TypeOK /\ BufferBounded /\ [ReorderNext]_reorderVars => BufferBounded'
  <2> SUFFICES ASSUME TypeOK, BufferBounded, [ReorderNext]_reorderVars, NEW q \in Pairs
               PROVE  Cardinality(buffers'[q]) <= MAX_BUFFER_SIZE
    BY DEF BufferBounded
  <2>1. CASE buffers'[q] \subseteq buffers[q]
    BY <2>1, NoMoreHeld
  <2>2. ASSUME NEW s \in SeqNum, Buffer(q, s)
        PROVE  Cardinality(buffers'[q]) <= MAX_BUFFER_SIZE
    <3>1. buffers'[q] = buffers[q] \cup {arrived + 1}
      BY <2>2 DEF Buffer, TypeOK
    <3>2. IsFiniteSet(buffers[q]) /\ Cardinality(buffers[q]) \in Nat
      BY NoMoreHeld, FS_CardinalityType
    <3>3. Cardinality(buffers'[q]) <= Cardinality(buffers[q]) + 1
      <4>1. Cardinality(buffers'[q]) = IF arrived + 1 \in buffers[q]
              THEN Cardinality(buffers[q]) ELSE Cardinality(buffers[q]) + 1
        BY <3>1, <3>2, FS_AddElement
      <4>2. QED
        BY <3>2, <4>1
    <3>4. Cardinality(buffers[q]) < MAX_BUFFER_SIZE
      BY <2>2 DEF Buffer, HasRoom
    <3>5. Cardinality(buffers'[q]) \in Nat
      BY <3>1, <3>2, FS_AddElement, FS_CardinalityType
    <3>6. QED
      BY <3>2, <3>3, <3>4, <3>5, ReorderAssumption
  <2>3. ASSUME NEW p \in Pairs, NEW s \in SeqNum, Receive(p, s),
               ~(p = q /\ Buffer(p, s))
        PROVE  buffers'[q] \subseteq buffers[q]
    BY <2>3 DEF Receive, Deliver, DeliverExpected, Buffer, FlushFull, SkipDuplicate,
                TypeOK
  <2>4. CheckTimeouts => buffers'[q] \subseteq buffers[q]
    BY DEF CheckTimeouts, KeptAfter
  <2>5. CleanupOldPairs => buffers'[q] \subseteq buffers[q]
    BY DEF CleanupOldPairs
  <2>6. Tick \/ UNCHANGED reorderVars => buffers'[q] \subseteq buffers[q]
    BY DEF Tick, reorderVars
  <2>7. QED
    BY <2>1, <2>2, <2>3, <2>4, <2>5, <2>6 DEF ReorderNext
<1>3. QED
  BY <1>1, <1>2, ReorderTypeCorrect, PTL DEF ReorderSpec

-----------------------------------------------------------------------------
(* The push to the subscribers                                             *)

NoRepeat(s) == \A a, b \in DOMAIN s : s[a] = s[b] => a = b

TaskState == [stage: {"read", "write", "drain"}, ready: Seq(MsgId),
              targets: Seq(Sid), dead: SUBSET Sid]

PushType ==
    /\ owner \in Seq(Conns) /\ Len(owner) <= MaxSubs
    /\ subs \subseteq DOMAIN owner
    /\ task \in [Tasks -> TaskState]
    /\ running \in Tasks \cup {Nobody}
    /\ wire \in [Sid -> Seq(MsgId)]

\* A task whose state is r may still write message i for subscription n.
Due(r, i, n) ==
    \/ \E a \in DOMAIN r.ready : a # 1 /\ i = r.ready[a]
    \/ /\ r.ready # <<>> /\ i = r.ready[1]
       /\ \E b \in DOMAIN r.targets : (r.stage = "write" \/ b # 1) /\ n = r.targets[b]

\* A task that pushes has a message to push, and one that waits for a drain a
\* subscriber; no list has anything twice.
Lists ==
    /\ \A t \in Tasks : /\ task[t].stage # "read" => task[t].ready # <<>>
                        /\ task[t].stage = "drain" => task[t].targets # <<>>
                        /\ NoRepeat(task[t].ready) /\ NoRepeat(task[t].targets)
    /\ running # Nobody => task[running].stage = "write"

\* A released message is in the hands of one task at most.
OneHand ==
    /\ \A t \in Tasks : Listed(task[t].ready) \subseteq Released
    /\ \A t, u \in Tasks : t # u => Listed(task[t].ready) \cap Listed(task[u].ready) = {}

\* What was written was released, once for each subscription, and is not due.
Written ==
    /\ \A n \in Sid : Listed(wire[n]) \subseteq Released /\ NoRepeat(wire[n])
    /\ \A t \in Tasks, i \in MsgId, n \in Sid :
         Due(task[t], i, n) => i \notin Listed(wire[n])

PushInv == PushType /\ Lists /\ OneHand /\ Written

-----------------------------------------------------------------------------
(* Lists *)

LEMMA TailOf ==
    ASSUME NEW S, NEW s \in Seq(S), s # <<>>
    PROVE  /\ Tail(s) \in Seq(S) /\ 1 \in DOMAIN s
           /\ \A a \in DOMAIN Tail(s) : a + 1 \in DOMAIN s /\ a + 1 # 1
                                        /\ Tail(s)[a] = s[a + 1]
           /\ NoRepeat(s) => NoRepeat(Tail(s))
<1>1. /\ Tail(s) \in Seq(S) /\ Len(s) \in Nat /\ Len(s) >= 1 /\ DOMAIN s = 1..Len(s)
      /\ DOMAIN Tail(s) = 1..(Len(s) - 1)
      /\ \A a \in 1..(Len(s) - 1) : Tail(s)[a] = s[a + 1]
  OBVIOUS
<1>2. \A a \in DOMAIN Tail(s) : a \in Int /\ a + 1 \in DOMAIN s /\ a + 1 # 1
                                /\ Tail(s)[a] = s[a + 1]
  BY <1>1
<1>3. ASSUME NoRepeat(s)
      PROVE  NoRepeat(Tail(s))
  <2> SUFFICES ASSUME NEW a \in DOMAIN Tail(s), NEW b \in DOMAIN Tail(s),
                      Tail(s)[a] = Tail(s)[b]
               PROVE  a = b
    BY DEF NoRepeat
  <2>1. a + 1 = b + 1
    BY <1>2, <1>3 DEF NoRepeat
  <2>2. QED
    BY <1>2, <2>1
<1>4. QED
  BY <1>1, <1>2, <1>3

LEMMA AppendOf ==
    ASSUME NEW S, NEW s \in Seq(S), NEW e \in S, e \notin Listed(s), NoRepeat(s)
    PROVE  /\ NoRepeat(Append(s, e)) /\ Append(s, e) \in Seq(S)
           /\ Listed(Append(s, e)) = Listed(s) \cup {e}
<1>1. /\ Append(s, e) \in Seq(S) /\ DOMAIN Append(s, e) = DOMAIN s \cup {Len(s) + 1}
      /\ \A a \in DOMAIN s : Append(s, e)[a] = s[a]
      /\ Append(s, e)[Len(s) + 1] = e
  OBVIOUS
<1>2. \A a \in DOMAIN s : s[a] # e
  BY DEF Listed
<1>3. NoRepeat(Append(s, e))
  BY <1>1, <1>2 DEF NoRepeat
<1>4. Listed(Append(s, e)) = Listed(s) \cup {e}
  BY <1>1 DEF Listed
<1>5. QED
  BY <1>1, <1>3, <1>4

\* The list of the subscribers has each of them once.
LEMMA SubscribersOnce ==
    ASSUME NEW S \in SUBSET Sid
    PROVE  Subscribers(S) \in Seq(S) /\ NoRepeat(Subscribers(S))
<1> DEFINE UpTo(n) == {m \in S : m <= n}
           N == Cardinality(S)
           rank == [n \in S |-> Cardinality(UpTo(n))]
<1>1. IsFiniteSet(S) /\ N \in Nat /\ S \subseteq Int
  <2>1. IsFiniteSet(1..MaxSubs)
    BY FS_Interval, PushAssumption
  <2>2. IsFiniteSet(S)
    BY <2>1, FS_Subset DEF Sid
  <2>3. QED
    BY <2>2, FS_CardinalityType DEF Sid
<1>2. ASSUME NEW n \in S
      PROVE  IsFiniteSet(UpTo(n)) /\ Cardinality(UpTo(n)) \in 1..N
  <2>1. UpTo(n) \in SUBSET S /\ n \in UpTo(n)
    BY <1>1
  <2> HIDE DEF UpTo
  <2>2. IsFiniteSet(UpTo(n)) /\ Cardinality(UpTo(n)) <= N
    BY <1>1, <2>1, FS_Subset
  <2>3. Cardinality(UpTo(n)) \in Nat /\ Cardinality(UpTo(n)) # 0
    BY <2>1, <2>2, FS_CardinalityType, FS_EmptySet
  <2>4. QED
    BY <1>1, <2>2, <2>3
<1>3. ASSUME NEW m \in S, NEW n \in S, m < n
      PROVE  Cardinality(UpTo(m)) # Cardinality(UpTo(n))
  <2>1. UpTo(m) \in SUBSET UpTo(n) /\ n \in UpTo(n) /\ n \notin UpTo(m)
    <3>1. m \in Int /\ n \in Int /\ ~(n <= m) /\ n <= n
      BY <1>1, <1>3
    <3>2. \A k \in S : k <= m => k <= n
      BY <1>1, <1>3, <3>1
    <3>3. QED
      BY <3>1, <3>2
  <2> HIDE DEF UpTo
  <2>2. QED
    BY <1>2, <2>1, FS_Subset
<1>4. rank \in Injection(S, 1..N)
  <2>1. rank \in [S -> 1..N]
    BY <1>2
  <2>2. \A m, n \in S : rank[m] = rank[n] => m = n
    <3> SUFFICES ASSUME NEW m \in S, NEW n \in S, m # n
                 PROVE  Cardinality(UpTo(m)) # Cardinality(UpTo(n))
      OBVIOUS
    <3> HIDE DEF UpTo
    <3>1. m < n \/ n < m
      BY <1>1
    <3>2. QED
      BY <1>3, <3>1
  <2> HIDE DEF rank
  <2>3. QED
    BY <2>1, <2>2 DEF Injection, IsInjective
<1>5. rank \in Surjection(S, 1..N)
  <2>1. IsFiniteSet(1..N) /\ Cardinality(1..N) = N
    BY <1>1, FS_Interval
  <2> HIDE DEF rank, N
  <2>2. Cardinality(S) = Cardinality(1..N)
    BY <2>1 DEF N
  <2>3. QED
    BY <1>4, <2>1, <2>2, FS_Injection
<1>6. \A k \in 1..N : \E n \in S : Cardinality(UpTo(n)) = k
  <2>1. \A k \in 1..N : \E n \in S : rank[n] = k
    <3> HIDE DEF rank, N
    <3>1. QED
      BY <1>5 DEF Surjection
  <2>2. QED
    BY <2>1
<1>7. /\ Subscribers(S) = [k \in 1..N |-> CHOOSE n \in S : Cardinality(UpTo(n)) = k]
  BY DEF Subscribers
<1>8. ASSUME NEW k \in 1..N
      PROVE  Subscribers(S)[k] \in S /\ Cardinality(UpTo(Subscribers(S)[k])) = k
  <2> HIDE DEF UpTo, N
  <2>1. Subscribers(S)[k] = CHOOSE n \in S : Cardinality(UpTo(n)) = k
    BY <1>7
  <2>2. QED
    BY <1>6, <2>1
<1> HIDE DEF UpTo, N
<1>9. DOMAIN Subscribers(S) = 1..N
  BY <1>7
<1>10. NoRepeat(Subscribers(S))
  BY <1>8, <1>9 DEF NoRepeat
<1>11. Subscribers(S) \in Seq(S)
  BY <1>1, <1>7, <1>8, <1>9
<1>12. QED
  BY <1>10, <1>11

-----------------------------------------------------------------------------
(* What a turn of one task does                                            *)

\* Task t goes on, with the messages N that have just been released or with
\* those it had, and may write a message that was due.
LEMMA TurnKeeps ==
    ASSUME PushInv, PushType', NEW t \in Tasks, NEW N,
           \A u \in Tasks : u # t => task'[u] = task[u],
           task'[t].stage # "read" => task'[t].ready # <<>>,
           task'[t].stage = "drain" => task'[t].targets # <<>>,
           running' # Nobody => running' = t /\ task'[t].stage = "write",
           NoRepeat(task'[t].ready), NoRepeat(task'[t].targets),
           Released \subseteq Released', N \subseteq Released', N \cap Released = {},
           Listed(task'[t].ready) \subseteq Listed(task[t].ready) \cup N,
           \A i \in MsgId, n \in Sid :
             Due(task'[t], i, n) => Due(task[t], i, n) \/ i \in N,
           \/ wire' = wire
           \/ \E m \in Listed(task[t].ready), n \in Sid :
                /\ wire' = [wire EXCEPT ![n] = Append(@, m)]
                /\ Due(task[t], m, n) /\ ~Due(task'[t], m, n)
    PROVE  PushInv'
<1>1. Lists'
  BY DEF PushInv, Lists
<1>2. \A u \in Tasks : u # t => Listed(task[u].ready) \cap Listed(task[t].ready) = {}
  BY DEF PushInv, OneHand
<1>3. \A u \in Tasks : Listed(task[u].ready) \subseteq Released
  BY DEF PushInv, OneHand
<1>4. OneHand'
  <2>1. \A u \in Tasks : Listed(task'[u].ready) \subseteq Released'
    BY <1>3
  <2>2. \A u \in Tasks : u # t => Listed(task'[u].ready) \cap Listed(task'[t].ready) = {}
    BY <1>2, <1>3
  <2>3. ASSUME NEW u \in Tasks, NEW v \in Tasks, u # v
        PROVE  Listed(task'[u].ready) \cap Listed(task'[v].ready) = {}
    <3>1. CASE u = t \/ v = t
      BY <2>2, <2>3, <3>1
    <3>2. CASE u # t /\ v # t
      BY <2>3, <3>2 DEF PushInv, OneHand
    <3>3. QED
      BY <3>1, <3>2
  <2>4. QED
    BY <2>1, <2>3 DEF OneHand, Listed
<1>5. \A u \in Tasks, i \in MsgId, n \in Sid :
        Due(task[u], i, n) => i \in Listed(task[u].ready) /\ i \notin Listed(wire[n])
  <2>1. \A u \in Tasks : task[u].ready \in Seq(MsgId)
    BY DEF PushInv, PushType, TaskState
  <2>2. \A s \in Seq(MsgId) : s # <<>> => 1 \in DOMAIN s
    OBVIOUS
  <2>3. QED
    BY <2>1, <2>2 DEF PushInv, Written, Due, Listed
<1>6. \A n \in Sid : Listed(wire[n]) \subseteq Released /\ NoRepeat(wire[n])
  BY DEF PushInv, Written
<1>7. CASE wire' = wire
  <2>1. ASSUME NEW u \in Tasks, NEW i \in MsgId, NEW n \in Sid, Due(task'[u], i, n)
        PROVE  i \notin Listed(wire[n])
    <3>1. CASE u = t
      BY <1>5, <1>6, <2>1, <3>1
    <3>2. CASE u # t
      BY <1>5, <2>1, <3>2
    <3>3. QED
      BY <3>1, <3>2
  <2>2. Written'
    BY <1>6, <1>7, <2>1 DEF Written, Listed, NoRepeat
  <2>3. QED
    BY <1>1, <1>4, <2>2 DEF PushInv
<1>8. ASSUME NEW m \in Listed(task[t].ready), NEW n \in Sid,
             wire' = [wire EXCEPT ![n] = Append(@, m)],
             Due(task[t], m, n), ~Due(task'[t], m, n)
      PROVE  PushInv'
  <2>1. m \in MsgId /\ wire \in [Sid -> Seq(MsgId)]
    BY DEF PushInv, PushType, TaskState, Listed
  <2>2. m \notin Listed(wire[n])
    BY <1>5, <1>8, <2>1
  <2>3. wire'[n] = Append(wire[n], m) /\ \A k \in Sid : k # n => wire'[k] = wire[k]
    BY <1>8, <2>1
  <2>4. NoRepeat(wire'[n]) /\ Listed(wire'[n]) = Listed(wire[n]) \cup {m}
    BY <1>6, <2>1, <2>2, <2>3, AppendOf
  <2>5. \A k \in Sid : Listed(wire'[k]) \subseteq Released' /\ NoRepeat(wire'[k])
    BY <1>3, <1>6, <2>3, <2>4
  <2>6. ASSUME NEW u \in Tasks, NEW i \in MsgId, NEW k \in Sid, Due(task'[u], i, k)
        PROVE  i \notin Listed(wire'[k])
    <3>1. i \notin Listed(wire[k])
      <4>1. CASE u = t
        BY <1>5, <1>6, <2>6, <4>1
      <4>2. CASE u # t
        BY <1>5, <2>6, <4>2
      <4>3. QED
        BY <4>1, <4>2
    <3>2. ~(i = m /\ k = n)
      <4>1. CASE u = t
        BY <1>8, <2>6, <4>1
      <4>2. CASE u # t
        <5>1. i \in Listed(task[u].ready)
          BY <1>5, <2>6, <4>2
        <5>2. QED
          BY <1>2, <1>8, <4>2, <5>1
      <4>3. QED
        BY <4>1, <4>2
    <3>3. QED
      BY <2>3, <2>4, <3>1, <3>2
  <2>7. Written'
    BY <2>5, <2>6 DEF Written, Listed, NoRepeat
  <2>8. QED
    BY <1>1, <1>4, <2>7 DEF PushInv
<1>9. QED
  BY <1>7, <1>8

\* No task takes a turn.
LEMMA NoTurnKeeps ==
    ASSUME PushInv, PushType', UNCHANGED <<task, running, wire>>,
           Released \subseteq Released'
    PROVE  PushInv'
<1>1. Lists'
  BY DEF PushInv, Lists, NoRepeat
<1>2. OneHand'
  BY DEF PushInv, OneHand, Listed
<1>3. Written'
  BY DEF PushInv, Written, Listed, NoRepeat
<1>4. QED
  BY <1>1, <1>2, <1>3 DEF PushInv

-----------------------------------------------------------------------------
(* What the buffer returns is new *)

\* A call of the buffer releases nothing again, and gives what it releases the
\* number of a list that comes after all others.
LEMMA FreshIsNew ==
    ASSUME FateInv, FateInv',
           CheckTimeouts \/ \E p \in Pairs, s \in SeqNum : Receive(p, s)
    PROVE  /\ Fresh \subseteq MsgId /\ Fresh \cap Released = {}
           /\ Fresh \subseteq Released' /\ Released \subseteq Released'
<1>0. /\ TypeOK /\ Arrived \subseteq MsgId /\ Arrived' \subseteq MsgId
      /\ batch \in Nat /\ batch' \in Nat
      /\ \A i \in MsgId : released[i] \in Nat /\ released'[i] \in Nat
      /\ \A i \in MsgId : released'[i] # 0 => i \in Arrived'
      /\ \A i \in Released : i \in MsgId /\ released[i] # 0 /\ released[i] <= batch
      /\ \A p \in Pairs : \A i \in buffers[p] : i \notin Released
  <2>1. TypeOK /\ TypeOK' /\ Books /\ Books'
    BY DEF FateInv
  <2>2. Arrived \subseteq MsgId /\ Arrived' \subseteq MsgId
    BY <2>1, ReorderAssumption DEF TypeOK, Arrived, MsgId
  <2>3. /\ batch \in Nat /\ batch' \in Nat
        /\ \A i \in MsgId : released[i] \in Nat /\ released'[i] \in Nat
    BY <2>1 DEF TypeOK
  <2>4. \A i \in MsgId : released'[i] # 0 => i \in Arrived'
    BY <2>1 DEF Books
  <2>5. \A i \in Released : i \in MsgId /\ released[i] # 0 /\ released[i] <= batch
    BY <2>1, <2>2 DEF Books, Released
  <2>6. \A p \in Pairs : \A i \in buffers[p] : i \notin Released
    BY OrderTypes
  <2>7. QED
    BY <2>1, <2>2, <2>3, <2>4, <2>5, <2>6
<1>1. \A i \in Released : released'[i] = released[i]
  <2>1. CASE CheckTimeouts
    <3>1. \A i \in UNION {buffers[p] : p \in TimedOut} : i \notin Released
      BY <1>0 DEF TimedOut
    <3>2. QED
      BY <1>0, <2>1, <3>1 DEF CheckTimeouts
  <2>2. ASSUME NEW p \in Pairs, NEW s \in SeqNum, Receive(p, s)
        PROVE  \A i \in Released : released'[i] = released[i]
    <3>1. arrived + 1 \notin Released
      BY <1>0, ReorderAssumption DEF Released, Arrived, TypeOK
    <3>2. Drained(p, s) \subseteq buffers[p]
      BY DEF Drained
    <3>3. CASE DeliverExpected(p, s)
      BY <1>0, <3>1, <3>2, <3>3 DEF DeliverExpected
    <3>4. CASE FlushFull(p, s)
      BY <1>0, <3>1, <3>4 DEF FlushFull
    <3>5. CASE Buffer(p, s) \/ SkipDuplicate(p, s)
      BY <3>5 DEF Buffer, SkipDuplicate
    <3>6. QED
      BY <2>2, <3>3, <3>4, <3>5 DEF Receive, Deliver
  <2>3. QED
    BY <2>1, <2>2
<1>2. Fresh \cap Released = {}
  BY <1>0, <1>1 DEF Fresh
<1>3. Fresh \subseteq MsgId /\ \A i \in Fresh : released'[i] # 0
  BY <1>0 DEF Fresh
<1>4. Fresh \subseteq Released'
  BY <1>0, <1>3 DEF Released
<1>5. Released \subseteq Released'
  BY <1>0, <1>1 DEF Released
<1>6. QED
  BY <1>2, <1>3, <1>4, <1>5

LEMMA StartKeeps ==
    ASSUME PushInv, FateInv, FateInv', NEW t \in Tasks, running = Nobody,
           CheckTimeouts \/ \E p \in Pairs, s \in SeqNum : Receive(p, s),
           StartPushing(t)
    PROVE  PushInv'
<1>1. PICK N : N = Fresh
  OBVIOUS
<1>2. /\ N \subseteq MsgId /\ N \cap Released = {}
      /\ N \subseteq Released' /\ Released \subseteq Released'
  BY <1>1, FreshIsNew
<1>3. /\ owner \in Seq(Conns) /\ Len(owner) <= MaxSubs /\ subs \subseteq DOMAIN owner
      /\ task \in [Tasks -> TaskState] /\ running \in Tasks \cup {Nobody}
      /\ wire \in [Sid -> Seq(MsgId)] /\ UNCHANGED <<owner, subs, wire>>
  <2>1. UNCHANGED <<owner, subs, wire>>
    BY DEF StartPushing
  <2>2. QED
    BY <2>1 DEF PushInv, PushType
<1>4. CASE N = {}
  <2>1. task' = [task EXCEPT ![t] = Idle] /\ running' = Nobody
    BY <1>1, <1>4 DEF StartPushing
  <2>2. task'[t] = Idle /\ \A u \in Tasks : u # t => task'[u] = task[u]
    BY <1>3, <2>1
  <2>3. /\ Idle \in TaskState /\ Idle.stage = "read" /\ Idle.ready = <<>>
        /\ Idle.targets = <<>> /\ Listed(Idle.ready) = {}
        /\ NoRepeat(Idle.ready) /\ NoRepeat(Idle.targets)
    BY DEF Idle, TaskState, Listed, NoRepeat
  <2>4. \A i, n : ~Due(Idle, i, n)
    BY <2>3 DEF Due
  <2>5. PushType'
    BY <1>3, <2>1, <2>3 DEF PushType
  <2>6. QED
    BY <1>2, <1>3, <2>1, <2>2, <2>3, <2>4, <2>5, TurnKeeps
<1>5. CASE N # {}
  <2>1. PICK l \in FreshLists :
          /\ task' = [task EXCEPT ![t] = [Idle EXCEPT !.stage = "write", !.ready = l,
                                                      !.targets = Subscribers(subs)]]
          /\ running' = t
    <3>1. ~(Fresh = {})
      BY <1>1, <1>5
    <3>2. IF Fresh = {}
            THEN task' = [task EXCEPT ![t] = Idle] /\ running' = Nobody
            ELSE \E l \in FreshLists :
                   /\ task' = [task EXCEPT ![t] = [Idle EXCEPT !.stage = "write", !.ready = l,
                                                       !.targets = Subscribers(subs)]]
                   /\ running' = t
      BY DEF StartPushing
    <3>3. QED
      BY <3>1, <3>2
  <2>2. IsFiniteSet(N) /\ Cardinality(N) \in Nat /\ Cardinality(N) # 0
    <3>1. IsFiniteSet(1..MaxMsgs)
      BY FS_Interval, ReorderAssumption
    <3>2. IsFiniteSet(N)
      BY <1>2, <3>1, FS_Subset DEF MsgId
    <3>3. QED
      BY <1>5, <3>2, FS_CardinalityType, FS_EmptySet
  <2>3. l \in [1..Cardinality(N) -> N] /\ NoRepeat(l)
    BY <1>1, <2>1 DEF FreshLists, NoRepeat
  <2>4. l \in Seq(MsgId) /\ l # <<>> /\ Listed(l) \subseteq N
    <3>1. l \in Seq(N) /\ Len(l) = Cardinality(N)
      BY <2>2, <2>3
    <3>2. l # <<>>
      BY <2>2, <3>1
    <3>3. l \in Seq(MsgId)
      BY <1>2, <3>1
    <3>4. QED
      BY <2>3, <3>2, <3>3 DEF Listed
  <2>5. Subscribers(subs) \in Seq(Sid) /\ NoRepeat(Subscribers(subs))
    <3>1. subs \in SUBSET Sid
      BY <1>3, PushAssumption DEF Sid
    <3>2. QED
      BY <3>1, SubscribersOnce
  <2> DEFINE r == [Idle EXCEPT !.stage = "write", !.ready = l, !.targets = Subscribers(subs)]
  <2>6. /\ r \in TaskState /\ r.stage = "write" /\ r.ready = l
        /\ r.targets = Subscribers(subs)
    BY <2>4, <2>5 DEF Idle, TaskState
  <2>7. task' = [task EXCEPT ![t] = r]
    BY <2>1
  <2> HIDE DEF r
  <2>8. task'[t] = r /\ \A u \in Tasks : u # t => task'[u] = task[u]
    BY <1>3, <2>7
  <2>9. \A i, n : Due(r, i, n) => i \in N
    <3>1. 1 \in DOMAIN l
      BY <2>4
    <3>2. QED
      BY <2>4, <2>6, <3>1 DEF Due, Listed
  <2>10. PushType'
    BY <1>3, <2>1, <2>6, <2>7 DEF PushType
  <2>11. /\ task'[t].ready # <<>> /\ task'[t].stage = "write" /\ running' = t
         /\ NoRepeat(task'[t].ready) /\ NoRepeat(task'[t].targets)
         /\ Listed(task'[t].ready) \subseteq Listed(task[t].ready) \cup N
         /\ \A i, n : Due(task'[t], i, n) => i \in N
    BY <2>1, <2>3, <2>4, <2>5, <2>6, <2>8, <2>9
  <2>12. QED
    BY <1>2, <1>3, <2>8, <2>10, <2>11, TurnKeeps
<1>6. QED
  BY <1>4, <1>5

-----------------------------------------------------------------------------
(* The turns of a task that pushes *)

\* Types at the head of a turn.
LEMMA AtTurn ==
    ASSUME PushInv, NEW t \in Tasks
    PROVE  /\ task[t] \in TaskState /\ task \in [Tasks -> TaskState]
           /\ task[t].ready \in Seq(MsgId) /\ task[t].targets \in Seq(Sid)
           /\ task[t].dead \subseteq Sid
           /\ NoRepeat(task[t].ready) /\ NoRepeat(task[t].targets)
           /\ subs \subseteq Sid /\ t # Nobody
           /\ running = t => task[t].stage = "write" /\ task[t].ready # <<>>
<1>1. task[t] \in TaskState /\ task \in [Tasks -> TaskState] /\ subs \subseteq Sid
  BY PushAssumption DEF PushInv, PushType, Sid
<1>2. t # Nobody
  BY PushAssumption DEF Tasks
<1>3. NoRepeat(task[t].ready) /\ NoRepeat(task[t].targets)
      /\ (running = t => task[t].stage = "write" /\ task[t].ready # <<>>)
  BY <1>2 DEF PushInv, Lists
<1>4. QED
  BY <1>1, <1>2, <1>3 DEF TaskState

\* The first subscriber of the list has been tried.
LEMMA TriedKeeps ==
    ASSUME PushInv, NEW t \in Tasks, NEW r \in TaskState,
           task[t].targets # <<>>, task[t].ready # <<>>,
           r.ready = task[t].ready, r.targets = Tail(task[t].targets), r.stage = "write",
           task' = [task EXCEPT ![t] = r], running' = t,
           UNCHANGED <<reorderVars, owner, subs>>,
           \/ wire' = wire
           \/ /\ task[t].stage = "write"
              /\ wire' = [wire EXCEPT ![task[t].targets[1]] = Append(@, task[t].ready[1])]
    PROVE  PushInv'
<1> DEFINE m == task[t].ready[1]
           n == task[t].targets[1]
<1>1. /\ 1 \in DOMAIN task[t].targets /\ NoRepeat(r.targets)
      /\ \A b \in DOMAIN r.targets : b + 1 \in DOMAIN task[t].targets /\ b + 1 # 1
                                     /\ r.targets[b] = task[t].targets[b + 1]
  BY AtTurn, TailOf
<1>2. \A b \in DOMAIN r.targets : r.targets[b] # n
  BY <1>1, AtTurn DEF NoRepeat
<1>3. 1 \in DOMAIN task[t].ready /\ m \in MsgId /\ n \in Sid /\ m \in Listed(task[t].ready)
  BY <1>1, AtTurn, TailOf DEF Listed
<1>4. \A a \in DOMAIN r.ready : a # 1 => r.ready[a] # m
  BY <1>3, AtTurn DEF NoRepeat
<1>5. ~Due(r, m, n)
  BY <1>2, <1>4 DEF Due
<1>6. \A i, k : Due(r, i, k) => Due(task[t], i, k)
  BY <1>1 DEF Due
<1>7. task[t].stage = "write" => Due(task[t], m, n)
  BY <1>1 DEF Due
<1>8. task'[t] = r /\ \A u \in Tasks : u # t => task'[u] = task[u]
  BY AtTurn
<1>9. Released' = Released
  BY DEF Released, Arrived, reorderVars
<1>10. wire \in [Sid -> Seq(MsgId)]
  BY DEF PushInv, PushType
<1> HIDE DEF m, n
<1>11. \/ wire' = wire
       \/ wire' = [wire EXCEPT ![n] = Append(@, m)] /\ Due(task[t], m, n)
  BY <1>7 DEF m, n
<1>12. PushType'
  <2>1. wire' \in [Sid -> Seq(MsgId)]
    <3>1. m \in MsgId /\ n \in Sid
      BY <1>3 DEF m, n
    <3>2. Append(wire[n], m) \in Seq(MsgId)
      BY <1>10, <3>1
    <3>3. QED
      BY <1>10, <1>11, <3>2
  <2>2. QED
    BY <2>1, AtTurn DEF PushInv, PushType
<1>13. /\ task'[t].ready # <<>> /\ NoRepeat(task'[t].ready) /\ NoRepeat(task'[t].targets)
       /\ Listed(task'[t].ready) = Listed(task[t].ready)
       /\ running' = t /\ task'[t].stage = "write"
  BY <1>1, <1>8, AtTurn
<1>14. \A i \in MsgId, k \in Sid : Due(task'[t], i, k) => Due(task[t], i, k)
  BY <1>6, <1>8
<1>15. \/ wire' = wire
       \/ \E i \in Listed(task[t].ready), k \in Sid :
            /\ wire' = [wire EXCEPT ![k] = Append(@, i)]
            /\ Due(task[t], i, k) /\ ~Due(task'[t], i, k)
  BY <1>3, <1>5, <1>8, <1>11
<1>16. {} \subseteq Released' /\ {} \cap Released = {} /\ Released \subseteq Released'
       /\ Listed(task'[t].ready) \subseteq Listed(task[t].ready) \cup {}
  BY <1>9, <1>13
<1>17. QED
  BY <1>8, <1>12, <1>13, <1>14, <1>15, <1>16, TurnKeeps

LEMMA WriteNextKeeps ==
    ASSUME PushInv, NEW t \in Tasks, WriteNext(t)
    PROVE  PushInv'
<1>1. PICK n \in Sid : n = task[t].targets[1]
  BY AtTurn, TailOf DEF WriteNext
<1>2. PICK m \in MsgId : m = task[t].ready[1]
  BY AtTurn, TailOf DEF WriteNext
<1>3. /\ running = t /\ task[t].stage = "write" /\ task[t].ready # <<>>
      /\ task[t].targets # <<>> /\ UNCHANGED <<reorderVars, owner, subs>>
  BY AtTurn DEF WriteNext
<1>4. task[t] \in TaskState /\ Tail(task[t].targets) \in Seq(Sid)
  BY <1>3, AtTurn, TailOf
<1> DEFINE next == [task[t] EXCEPT !.targets = Tail(@)]
<1>5. /\ next \in TaskState /\ next.ready = task[t].ready
      /\ next.targets = Tail(task[t].targets) /\ next.stage = "write"
  BY <1>3, <1>4 DEF TaskState
<1>6. /\ AfterDead(t) \in TaskState /\ AfterDead(t).ready = task[t].ready
      /\ AfterDead(t).targets = Tail(task[t].targets) /\ AfterDead(t).stage = "write"
  BY <1>1, <1>3, <1>4 DEF TaskState, AfterDead
<1>7. ([task EXCEPT ![t].targets = Tail(@)]) = [task EXCEPT ![t] = next]
  OBVIOUS
<1> HIDE DEF next
<1>8. \/ /\ task' = [task EXCEPT ![t] = next] /\ running' = running /\ wire' = wire
      \/ /\ \/ wire' = wire
            \/ wire' = [wire EXCEPT ![n] = Append(@, m)]
         /\ \/ task' = [task EXCEPT ![t] = next] /\ running' = running
            \/ task' = [task EXCEPT ![t] = AfterDead(t)] /\ running' = running
            \/ task' = [task EXCEPT ![t].stage = "drain"] /\ running' = Nobody
  <2>1. wire \in [Sid -> Seq(MsgId)]
    BY DEF PushInv, PushType
  <2>2. [wire EXCEPT ![n] = wire[n]] = wire
    BY <2>1
  <2>3. QED
    BY <1>1, <1>2, <1>7, <2>2 DEF WriteNext
<1>9. CASE /\ task' = [task EXCEPT ![t] = next] /\ running' = running
           /\ wire' = wire \/ wire' = [wire EXCEPT ![n] = Append(@, m)]
  BY <1>1, <1>2, <1>3, <1>5, <1>9, TriedKeeps
<1>10. CASE /\ task' = [task EXCEPT ![t] = AfterDead(t)] /\ running' = running
            /\ wire' = wire \/ wire' = [wire EXCEPT ![n] = Append(@, m)]
  BY <1>1, <1>2, <1>3, <1>6, <1>10, TriedKeeps
<1>11. CASE /\ task' = [task EXCEPT ![t].stage = "drain"] /\ running' = Nobody
            /\ wire' = wire \/ wire' = [wire EXCEPT ![n] = Append(@, m)]
  <2> DEFINE r == [task[t] EXCEPT !.stage = "drain"]
  <2>1. /\ r \in TaskState /\ r.ready = task[t].ready /\ r.targets = task[t].targets
        /\ r.stage = "drain"
    BY <1>4 DEF TaskState
  <2>2. task' = [task EXCEPT ![t] = r]
    BY <1>11
  <2> HIDE DEF r
  <2>3. task'[t] = r /\ \A u \in Tasks : u # t => task'[u] = task[u]
    BY <2>2, AtTurn
  <2>4. m \in Listed(task[t].ready) /\ 1 \in DOMAIN task[t].targets
    BY <1>2, <1>3, AtTurn, TailOf DEF Listed
  <2>5. Due(task[t], m, n)
    BY <1>1, <1>2, <1>3, <2>4 DEF Due
  <2>6. ~Due(r, m, n)
    <3>1. \A a \in DOMAIN r.ready : a # 1 => r.ready[a] # m
      BY <1>2, <1>3, <2>1, AtTurn, TailOf DEF NoRepeat
    <3>2. \A b \in DOMAIN r.targets : b # 1 => r.targets[b] # n
      BY <1>1, <2>1, <2>4, AtTurn DEF NoRepeat
    <3>3. QED
      BY <2>1, <3>1, <3>2 DEF Due
  <2>7. \A i, k : Due(r, i, k) => Due(task[t], i, k)
    BY <2>1 DEF Due
  <2>8. Released' = Released
    BY <1>3 DEF Released, Arrived, reorderVars
  <2>9. PushType'
    <3>1. wire' \in [Sid -> Seq(MsgId)]
      <4>1. wire \in [Sid -> Seq(MsgId)]
        BY DEF PushInv, PushType
      <4>2. Append(wire[n], m) \in Seq(MsgId)
        BY <4>1
      <4>3. QED
        BY <1>11, <4>1, <4>2
    <3>2. QED
      BY <1>3, <1>11, <2>1, <2>2, <3>1 DEF PushInv, PushType
  <2>10. /\ task'[t].ready # <<>> /\ task'[t].targets # <<>> /\ NoRepeat(task'[t].ready) /\ NoRepeat(task'[t].targets)
         /\ running' = Nobody
         /\ Listed(task'[t].ready) \subseteq Listed(task[t].ready) \cup {}
         /\ {} \subseteq Released' /\ {} \cap Released = {} /\ Released \subseteq Released'
    BY <1>3, <1>11, <2>1, <2>3, <2>8, AtTurn
  <2>11. \A i \in MsgId, k \in Sid : Due(task'[t], i, k) => Due(task[t], i, k)
    BY <2>3, <2>7
  <2>12. \/ wire' = wire
         \/ \E i \in Listed(task[t].ready), k \in Sid :
              /\ wire' = [wire EXCEPT ![k] = Append(@, i)]
              /\ Due(task[t], i, k) /\ ~Due(task'[t], i, k)
    BY <1>11, <2>3, <2>4, <2>5, <2>6
  <2>13. QED
    BY <2>3, <2>9, <2>10, <2>11, <2>12, TurnKeeps
<1>12. QED
  BY <1>8, <1>9, <1>10, <1>11

LEMMA DrainEndsKeeps ==
    ASSUME PushInv, NEW t \in Tasks, DrainEnds(t)
    PROVE  PushInv'
<1>1. /\ task[t].stage = "drain" /\ task[t].ready # <<>> /\ task[t].targets # <<>>
      /\ running' = t /\ UNCHANGED <<reorderVars, owner, subs, wire>>
  BY DEF DrainEnds, DrainReturns, DrainRaises, PushInv, Lists
<1>2. /\ task[t] \in TaskState /\ Tail(task[t].targets) \in Seq(Sid)
      /\ task[t].targets[1] \in Sid
  BY <1>1, AtTurn, TailOf
<1>3. CASE task' = [task EXCEPT ![t] = AfterWait(t)]
  <2>1. /\ AfterWait(t) \in TaskState /\ AfterWait(t).ready = task[t].ready
        /\ AfterWait(t).targets = Tail(task[t].targets) /\ AfterWait(t).stage = "write"
    BY <1>2 DEF TaskState, AfterWait
  <2>2. QED
    BY <1>1, <1>3, <2>1, TriedKeeps
<1>4. CASE task' = [task EXCEPT ![t] = [AfterDead(t) EXCEPT !.stage = "write"]]
  <2> DEFINE r == [AfterDead(t) EXCEPT !.stage = "write"]
  <2>1. /\ r \in TaskState /\ r.ready = task[t].ready
        /\ r.targets = Tail(task[t].targets) /\ r.stage = "write"
    BY <1>2 DEF TaskState, AfterDead
  <2> HIDE DEF r
  <2>2. QED
    BY <1>1, <1>4, <2>1, TriedKeeps DEF r
<1>5. QED
  BY <1>3, <1>4 DEF DrainEnds, DrainReturns, DrainRaises

\* A task is done with its message, or with all of them.
LEMMA DoneKeeps ==
    ASSUME PushInv, NEW t \in Tasks, running = t, task[t].targets = <<>>,
           subs' \subseteq subs, UNCHANGED <<reorderVars, owner, wire>>,
           \/ /\ task' = [task EXCEPT ![t] = Idle] /\ running' = Nobody
           \/ /\ Tail(task[t].ready) # <<>> /\ running' = t
              /\ task' = [task EXCEPT ![t] =
                   [@ EXCEPT !.ready = Tail(task[t].ready), !.dead = {},
                             !.targets = Subscribers(subs \ task[t].dead)]]
    PROVE  PushInv'
<1>1. /\ task[t] \in TaskState /\ task \in [Tasks -> TaskState] /\ subs \subseteq Sid
      /\ task[t].stage = "write" /\ task[t].ready # <<>>
  BY AtTurn
<1>2. /\ Tail(task[t].ready) \in Seq(MsgId) /\ NoRepeat(Tail(task[t].ready))
      /\ \A a \in DOMAIN Tail(task[t].ready) :
           a + 1 \in DOMAIN task[t].ready /\ a + 1 # 1
           /\ Tail(task[t].ready)[a] = task[t].ready[a + 1]
  BY <1>1, AtTurn, TailOf
<1>3. Released' = Released
  BY DEF Released, Arrived, reorderVars
<1>4. owner \in Seq(Conns) /\ Len(owner) <= MaxSubs /\ subs' \subseteq DOMAIN owner
      /\ wire \in [Sid -> Seq(MsgId)]
  BY DEF PushInv, PushType
<1>5. CASE task' = [task EXCEPT ![t] = Idle] /\ running' = Nobody
  <2>1. task'[t] = Idle /\ \A u \in Tasks : u # t => task'[u] = task[u]
    BY <1>1, <1>5
  <2>2. /\ Idle \in TaskState /\ Idle.stage = "read" /\ Idle.ready = <<>>
        /\ Idle.targets = <<>> /\ Listed(Idle.ready) = {}
        /\ NoRepeat(Idle.ready) /\ NoRepeat(Idle.targets)
    BY DEF Idle, TaskState, Listed, NoRepeat
  <2>3. \A i, n : ~Due(Idle, i, n)
    BY <2>2 DEF Due
  <2>4. PushType'
    BY <1>1, <1>4, <1>5, <2>2 DEF PushType
  <2>5. /\ task'[t].stage = "read" /\ running' = Nobody
        /\ NoRepeat(task'[t].ready) /\ NoRepeat(task'[t].targets)
        /\ Listed(task'[t].ready) \subseteq Listed(task[t].ready) \cup {}
        /\ {} \subseteq Released' /\ {} \cap Released = {} /\ Released \subseteq Released'
        /\ \A i \in MsgId, n \in Sid : Due(task'[t], i, n) => Due(task[t], i, n)
    BY <1>3, <1>5, <2>1, <2>2, <2>3
  <2>6. QED
    BY <2>1, <2>4, <2>5, TurnKeeps
<1>6. CASE /\ Tail(task[t].ready) # <<>> /\ running' = t
           /\ task' = [task EXCEPT ![t] =
                [@ EXCEPT !.ready = Tail(task[t].ready), !.dead = {},
                          !.targets = Subscribers(subs \ task[t].dead)]]
  <2>1. Subscribers(subs \ task[t].dead) \in Seq(Sid)
        /\ NoRepeat(Subscribers(subs \ task[t].dead))
    <3>1. subs \ task[t].dead \in SUBSET Sid
      BY <1>1
    <3>2. QED
      BY <3>1, SubscribersOnce
  <2> DEFINE r == [task[t] EXCEPT !.ready = Tail(task[t].ready), !.dead = {},
                                  !.targets = Subscribers(subs \ task[t].dead)]
  <2>2. /\ r \in TaskState /\ r.ready = Tail(task[t].ready) /\ r.stage = "write"
        /\ r.targets = Subscribers(subs \ task[t].dead)
    BY <1>1, <1>2, <2>1 DEF TaskState
  <2>3. task' = [task EXCEPT ![t] = r]
    BY <1>6
  <2> HIDE DEF r
  <2>4. task'[t] = r /\ \A u \in Tasks : u # t => task'[u] = task[u]
    BY <1>1, <2>3
  <2>5. Listed(r.ready) \subseteq Listed(task[t].ready)
    BY <1>2, <2>2 DEF Listed
  \* What is left of the list was due for every subscription.
  <2>6. \A i, n : Due(r, i, n) => Due(task[t], i, n)
    <3>1. 1 \in DOMAIN Tail(task[t].ready)
      BY <1>2, <1>6
    <3>2. QED
      BY <1>2, <2>2, <3>1 DEF Due
  <2>7. PushType'
    BY <1>1, <1>4, <1>6, <2>2, <2>3 DEF PushType
  <2>8. /\ task'[t].ready # <<>> /\ task'[t].stage = "write" /\ running' = t
        /\ NoRepeat(task'[t].ready) /\ NoRepeat(task'[t].targets)
        /\ Listed(task'[t].ready) \subseteq Listed(task[t].ready) \cup {}
        /\ {} \subseteq Released' /\ {} \cap Released = {} /\ Released \subseteq Released'
    BY <1>2, <1>3, <1>6, <2>1, <2>2, <2>4, <2>5
  <2>9. \A i \in MsgId, n \in Sid : Due(task'[t], i, n) => Due(task[t], i, n)
    BY <2>4, <2>6
  <2>10. QED
    BY <2>4, <2>7, <2>8, <2>9, TurnKeeps
<1>7. QED
  BY <1>5, <1>6

LEMMA RunsKeeps ==
    ASSUME PushInv, NEW t \in Tasks, Runs(t)
    PROVE  PushInv'
<1>1. CASE WriteNext(t)
  BY <1>1, WriteNextKeeps
<1>2. CASE MessageDone(t)
  <2>1. /\ running = t /\ task[t].targets = <<>> /\ subs' \subseteq subs
        /\ UNCHANGED <<reorderVars, owner, wire>>
    BY <1>2 DEF MessageDone
  <2>2. \/ task' = [task EXCEPT ![t] = Idle] /\ running' = Nobody
        \/ /\ Tail(task[t].ready) # <<>> /\ running' = running
           /\ task' = [task EXCEPT ![t] =
                [@ EXCEPT !.ready = Tail(task[t].ready), !.dead = {},
                          !.targets = Subscribers(subs \ task[t].dead)]]
    BY <1>2 DEF MessageDone
  <2>3. QED
    BY <2>1, <2>2, DoneKeeps
<1>3. CASE PushAborts(t)
  <2>1. /\ running = t /\ task[t].targets = <<>> /\ subs' \subseteq subs
        /\ task' = [task EXCEPT ![t] = Idle] /\ running' = Nobody
        /\ UNCHANGED <<reorderVars, owner, wire>>
    BY <1>3 DEF PushAborts, AfterHandler
  <2>2. QED
    BY <2>1, DoneKeeps
<1>4. QED
  BY <1>1, <1>2, <1>3 DEF Runs

-----------------------------------------------------------------------------
\* The steps of a connection.
LEMMA ConnectionKeeps ==
    ASSUME PushInv, NEW c \in Conns,
           \/ Subscribe(c) \/ HandlerEnds(c) \/ Lose(c) \/ Slows(c) \/ CatchesUp(c)
           \/ \E n \in OwnedBy(c) : Unsubscribe(c, n)
    PROVE  PushInv'
<1>1. UNCHANGED <<reorderVars, task, running, wire>>
  BY DEF Subscribe, HandlerEnds, Lose, Slows, CatchesUp, Unsubscribe
<1>2. Released' = Released
  BY <1>1 DEF Released, Arrived, reorderVars
<1>3. owner \in Seq(Conns) /\ Len(owner) <= MaxSubs /\ subs \subseteq DOMAIN owner
  BY DEF PushInv, PushType
<1>4. owner' \in Seq(Conns) /\ Len(owner') <= MaxSubs /\ subs' \subseteq DOMAIN owner'
  <2>1. CASE Subscribe(c)
    <3>1. /\ owner' = Append(owner, c) /\ Len(owner) < MaxSubs
          /\ subs' = subs \cup {Len(owner) + 1}
      BY <2>1 DEF Subscribe
    <3>2. /\ owner' \in Seq(Conns) /\ Len(owner') = Len(owner) + 1
          /\ DOMAIN owner' = DOMAIN owner \cup {Len(owner) + 1}
      BY <1>3, <3>1
    <3>3. Len(owner) \in Nat /\ MaxSubs \in Nat
      BY <1>3, PushAssumption
    <3>4. QED
      BY <1>3, <3>1, <3>2, <3>3
  <2>2. CASE ~Subscribe(c)
    <3>1. owner' = owner /\ subs' \subseteq subs
      BY <2>2 DEF HandlerEnds, AfterHandler, Lose, Slows, CatchesUp, Unsubscribe
    <3>2. QED
      BY <1>3, <3>1
  <2>3. QED
    BY <2>1, <2>2
<1>5. PushType'
  BY <1>1, <1>4 DEF PushInv, PushType
<1>6. QED
  BY <1>1, <1>2, <1>5, NoTurnKeeps

\* Whoever hands a message over, it is one step of a task.
LEMMA HandedOver ==
    ASSUME NEW p \in Pairs, NEW s \in SeqNum,
           (\E c \in Senders : PushEvent(c, p, s)) \/ (\E w \in Workers : PushSent(w, p, s))
    PROVE  \E t \in Tasks : HandOver(t, p, s)
BY DEF PushEvent, PushSent, Tasks

\* The buffer takes a step of its own, or none.
LEMMA BufferStep == [Next]_vars => [ReorderNext]_reorderVars
<1> SUFFICES ASSUME [Next]_vars PROVE [ReorderNext]_reorderVars
  OBVIOUS
<1>1. CASE \E t \in Tasks, p \in Pairs, s \in SeqNum : HandOver(t, p, s)
  BY <1>1 DEF HandOver, ReorderNext
<1>2. CASE LoopRound
  BY <1>2 DEF LoopRound, ReorderNext
<1>3. CASE Time
  BY <1>3 DEF Time, ReorderNext
<1>4. CASE UNCHANGED vars
  BY <1>4 DEF vars, reorderVars
<1>5. ASSUME NEW c \in Conns,
             \/ Subscribe(c) \/ HandlerEnds(c) \/ Lose(c) \/ Slows(c) \/ CatchesUp(c)
             \/ \E n \in OwnedBy(c) : Unsubscribe(c, n)
      PROVE  UNCHANGED reorderVars
  BY <1>5 DEF Subscribe, HandlerEnds, Lose, Slows, CatchesUp, Unsubscribe
<1>6. ASSUME NEW t \in Tasks, Runs(t) \/ DrainReturns(t) \/ DrainRaises(t)
      PROVE  UNCHANGED reorderVars
  BY <1>6 DEF Runs, WriteNext, MessageDone, PushAborts, DrainReturns, DrainRaises
<1>7. QED
  BY <1>1, <1>2, <1>3, <1>4, <1>5, <1>6, HandedOver, PushAssumption DEF Next

LEMMA NextKeepsPushInv == FateInv /\ PushInv /\ [Next]_vars => FateInv' /\ PushInv'
<1> SUFFICES ASSUME FateInv, PushInv, [Next]_vars PROVE FateInv' /\ PushInv'
  OBVIOUS
<1>1. FateInv'
  BY BufferStep, FateStep
<1>2. ASSUME NEW c \in Conns,
             \/ Subscribe(c) \/ HandlerEnds(c) \/ Lose(c) \/ Slows(c) \/ CatchesUp(c)
             \/ \E n \in OwnedBy(c) : Unsubscribe(c, n)
      PROVE  PushInv'
  BY <1>2, ConnectionKeeps
<1>3. ASSUME NEW t \in Tasks, NEW p \in Pairs, NEW s \in SeqNum, HandOver(t, p, s)
      PROVE  PushInv'
  <2>1. running = Nobody /\ Receive(p, s) /\ StartPushing(t)
    BY <1>3 DEF HandOver
  <2>2. QED
    BY <1>1, <2>1, StartKeeps
<1>4. CASE LoopRound
  <2>1. running = Nobody /\ CheckTimeouts /\ StartPushing(Loop) /\ Loop \in Tasks
    BY <1>4 DEF LoopRound, Tasks
  <2>2. QED
    BY <1>1, <2>1, StartKeeps
<1>5. ASSUME NEW t \in Tasks, Runs(t) \/ DrainReturns(t) \/ DrainRaises(t)
      PROVE  PushInv'
  BY <1>5, RunsKeeps, DrainEndsKeeps DEF DrainEnds
<1>6. CASE Time \/ UNCHANGED vars
  <2>1. UNCHANGED <<owner, subs, task, running, wire, arrived, released>>
    BY <1>6 DEF Time, Tick, vars, pushVars, reorderVars
  <2>2. Released' = Released
    BY <2>1 DEF Released, Arrived
  <2>3. PushType'
    BY <2>1 DEF PushInv, PushType
  <2>4. UNCHANGED <<task, running, wire>> /\ Released \subseteq Released'
    BY <2>1, <2>2
  <2>5. QED
    BY <1>1, <2>3, <2>4, NoTurnKeeps
<1>7. PushInv'
  BY <1>2, <1>3, <1>4, <1>5, <1>6, HandedOver, PushAssumption DEF Next
<1>8. QED
  BY <1>1, <1>7

LEMMA InitPushInv == Init => FateInv /\ PushInv
<1> SUFFICES ASSUME Init PROVE FateInv /\ PushInv
  OBVIOUS
<1>1. FateInv
  BY FateInit DEF Init
<1>2. /\ Idle \in TaskState /\ Idle.stage = "read" /\ Idle.ready = <<>>
      /\ Idle.targets = <<>> /\ Listed(<<>>) = {} /\ NoRepeat(<<>>)
  BY DEF Idle, TaskState, Listed, NoRepeat
<1>3. /\ owner = <<>> /\ subs = {} /\ running = Nobody
      /\ task = [t \in Tasks |-> Idle] /\ wire = [n \in Sid |-> <<>>]
  BY DEF Init
<1>4. PushType
  BY <1>2, <1>3, PushAssumption DEF PushType
<1>5. Lists /\ OneHand
  BY <1>2, <1>3 DEF Lists, OneHand
<1>6. Written
  BY <1>2, <1>3 DEF Written
<1>7. QED
  BY <1>1, <1>4, <1>5, <1>6 DEF PushInv

LEMMA NoRepeatOnWire == PushInv => \A n \in Sid, i \in MsgId : Copies(n, i) <= 1
<1> SUFFICES ASSUME PushInv, NEW n \in Sid, NEW i \in MsgId
             PROVE  Copies(n, i) <= 1
  OBVIOUS
<1> DEFINE K == {k \in DOMAIN wire[n] : wire[n][k] = i}
<1>1. \A k, l \in K : k = l
  BY DEF PushInv, Written, NoRepeat
<1>2. Copies(n, i) = Cardinality(K)
  BY DEF Copies
<1> HIDE DEF K
<1>3. CASE K = {}
  BY <1>2, <1>3, FS_EmptySet
<1>4. CASE K # {}
  <2>1. PICK k : K = {k}
    BY <1>1, <1>4
  <2>2. Cardinality({k}) = 1
    BY FS_Singleton
  <2>3. QED
    BY <1>2, <2>1, <2>2
<1>5. QED
  BY <1>3, <1>4

-----------------------------------------------------------------------------
(* No number leaves the buffer twice                                       *)

\* What a pair holds back is above what it expects, what it released is below,
\* and among either no number occurs twice.
OnceOf(p) ==
    /\ \A i \in buffers[p] : msg[i].seq > expected[p]
    /\ \A i, j \in buffers[p] : msg[i].seq = msg[j].seq => i = j
    /\ \A i \in Released : msg[i].pair = p => msg[i].seq < expected[p]
    /\ \A i, j \in Released :
         msg[i].pair = p /\ msg[j].pair = p /\ msg[i].seq = msg[j].seq => i = j

\* So it is with every pair none of whose numbers came while it was held back.
NumbersOnce == bufferFull = 0 => \A p \in Pairs \ doubled : OnceOf(p)

\* A step that does not concern pair q.
LEMMA OnceUntouched ==
    ASSUME FateInv, NEW q \in Pairs, OnceOf(q),
           buffers'[q] = buffers[q], expected'[q] = expected[q],
           \A i \in Arrived : msg'[i] = msg[i],
           \A i \in Released' : msg'[i].pair = q => i \in Released
    PROVE  OnceOf(q)'
<1>1. /\ \A i \in buffers[q] : i \in Arrived
      /\ \A i \in Released : i \in Arrived
  BY OrderTypes DEF Released
<1>2. QED
  BY <1>1 DEF OnceOf

\* Pair q returns what is in out, and then expects more than any of it.
LEMMA OnceReleased ==
    ASSUME FateInv, NEW q \in Pairs, OnceOf(q), NEW out,
           buffers'[q] \subseteq buffers[q],
           \A i \in Arrived : msg'[i] = msg[i],
           \A i \in buffers'[q] : msg'[i].seq > expected'[q],
           \A i \in Released' : msg'[i].pair = q => i \in Released \cup out,
           \A i \in out : /\ msg'[i].seq \in Nat
                          /\ expected[q] <= msg'[i].seq
                          /\ msg'[i].seq < expected'[q],
           \A i, j \in out : msg'[i].seq = msg'[j].seq => i = j,
           expected'[q] \in Nat, expected[q] <= expected'[q]
    PROVE  OnceOf(q)'
<1>1. /\ \A i \in buffers[q] : i \in Arrived
      /\ \A i \in Released : i \in Arrived /\ msg[i].seq \in Nat
      /\ expected[q] \in Nat
  BY OrderTypes DEF Released
<1>2. \A i \in Released : msg'[i].pair = q =>
        msg'[i].seq \in Nat /\ msg'[i].seq < expected[q]
  BY <1>1 DEF OnceOf
<1>3. \A i, j \in buffers'[q] : msg'[i].seq = msg'[j].seq => i = j
  BY <1>1 DEF OnceOf
<1>4. \A i \in Released' : msg'[i].pair = q => msg'[i].seq < expected'[q]
  BY <1>1, <1>2
<1>5. ASSUME NEW i \in Released', NEW j \in Released', msg'[i].pair = q,
             msg'[j].pair = q, msg'[i].seq = msg'[j].seq
      PROVE  i = j
  <2>1. CASE i \in Released /\ j \in Released
    BY <1>1, <1>5, <2>1 DEF OnceOf
  <2>2. CASE i \in out /\ j \in out
    BY <1>5, <2>2
  <2>3. ASSUME NEW k \in Released, NEW l \in out, msg'[k].pair = q
        PROVE  msg'[k].seq # msg'[l].seq
    <3>1. msg'[k].seq \in Nat /\ msg'[k].seq < expected[q]
      BY <1>2, <2>3
    <3>2. msg'[l].seq \in Nat /\ expected[q] <= msg'[l].seq
      OBVIOUS
    <3>3. QED
      BY <1>1, <3>1, <3>2
  <2>4. (i \in Released \/ i \in out) /\ (j \in Released \/ j \in out)
    BY <1>5
  <2>5. ~(i \in Released /\ j \in out) /\ ~(j \in Released /\ i \in out)
    BY <1>5, <2>3
  <2>6. QED
    BY <2>1, <2>2, <2>4, <2>5
<1>6. QED
  BY <1>3, <1>4, <1>5 DEF OnceOf

\* A message is handed over: its number is new, or is held back and the pair is
\* doubled, or is dropped.
LEMMA OnceArrives ==
    ASSUME FateInv, FateInv', NumbersOnce, NEW p \in Pairs, NEW s \in SeqNum,
           Deliver(p, s),
           doubled' = IF \E i \in buffers[p] : msg[i].seq = s THEN doubled \cup {p}
                      ELSE doubled
    PROVE  NumbersOnce'
<1> DEFINE new == arrived + 1
<1> SUFFICES ASSUME bufferFull' = 0, NEW q \in Pairs \ doubled'
             PROVE  OnceOf(q)'
  BY DEF NumbersOnce
<1>1. /\ Arrive(p, s) /\ bufferFull = 0 /\ ~FlushFull(p, s)
      /\ TypeOK /\ TypeOK' /\ s \in Nat /\ expected'[p] \in Nat
  <2>1. TypeOK /\ TypeOK' /\ s \in Nat
    BY DEF FateInv, SeqNum
  <2>2. ~FlushFull(p, s)
    BY <2>1 DEF FlushFull, TypeOK
  <2>3. QED
    BY <2>1, <2>2 DEF Deliver, DeliverExpected, Buffer, SkipDuplicate, TypeOK
<1>2. OnceOf(q)
  BY <1>1 DEF NumbersOnce
<1>3. /\ \A i \in Arrived : msg'[i] = msg[i]
      /\ msg'[new].pair = p /\ msg'[new].seq = s
      /\ new \notin Arrived /\ Arrived' = Arrived \cup {new} /\ released[new] = 0
  <2>1. msg'[new] = [pair |-> p, seq |-> s, at |-> now]
    BY <1>1, ArriveType
  <2>2. QED
    BY <1>1, <2>1, UniqueBefore
<1>4. /\ \A i \in Released : i \in Arrived
      /\ \A i \in buffers[p] : i \in Arrived /\ msg[i].pair = p /\ msg[i].seq \in Nat
      /\ Arrived \subseteq MsgId /\ new \in MsgId
  BY <1>1, OrderTypes, UniqueBefore DEF Released
<1>5. CASE q # p
  <2>1. buffers'[q] = buffers[q] /\ expected'[q] = expected[q]
    BY <1>1, <1>5 DEF Deliver, DeliverExpected, Buffer, SkipDuplicate, TypeOK
  <2>2. ASSUME NEW i \in Released', msg'[i].pair = q
        PROVE  i \in Released
    <3>1. i \in Arrived /\ i \notin buffers[p] /\ i # new
      BY <1>3, <1>4, <1>5, <2>2 DEF Released
    <3>2. i \notin Drained(p, s)
      BY <3>1 DEF Drained
    <3>3. released'[i] = released[i]
      BY <1>1, <1>4, <3>1, <3>2 DEF Deliver, DeliverExpected, Buffer, SkipDuplicate, TypeOK
    <3>4. QED
      BY <2>2, <3>1, <3>3 DEF Released
  <2>3. QED
    BY <1>2, <1>3, <2>1, <2>2, OnceUntouched
<1>6. CASE q = p /\ DeliverExpected(p, s)
  <2>1. PICK ready : ready = Drained(p, s)
    OBVIOUS
  <2>2. /\ s = expected[p] /\ ready \subseteq buffers[p]
        /\ buffers'[p] = buffers[p] \ ready
        /\ \A i \in Arrived : i \notin ready => released'[i] = released[i]
    BY <1>1, <1>3, <1>4, <1>6, <2>1 DEF DeliverExpected, Drained, TypeOK
  <2>3. /\ s < expected'[p]
        /\ \A i \in ready : s < msg[i].seq /\ msg[i].seq < expected'[p]
        /\ \A i \in buffers[p] \ ready : expected'[p] < msg[i].seq
    <3>1. /\ \A i \in buffers[p] : msg[i].seq > expected[p]
          /\ \A i, j \in buffers[p] : msg[i].seq = msg[j].seq => i = j
      BY <1>2, <1>6 DEF OnceOf
    <3>2. DeliverExpected(p, s)
      BY <1>6
    <3>3. QED
      BY <2>1, <3>1, <3>2, DrainStopsAtGap
  <2>4. \A i \in ready : msg'[i] = msg[i] /\ msg[i].seq \in Nat
    BY <1>3, <1>4, <2>2
  <2>5. \A i \in ready \cup {new} :
          msg'[i].seq \in Nat /\ expected[p] <= msg'[i].seq /\ msg'[i].seq < expected'[p]
    BY <1>1, <1>3, <2>2, <2>3, <2>4
  <2>6. ASSUME NEW i \in ready \cup {new}, NEW j \in ready \cup {new},
               msg'[i].seq = msg'[j].seq
        PROVE  i = j
    <3>1. CASE i \in ready /\ j \in ready
      BY <1>2, <1>6, <2>2, <2>4, <2>6, <3>1 DEF OnceOf
    <3>2. CASE i = new \/ j = new
      BY <1>1, <1>3, <2>3, <2>4, <2>6, <3>2
    <3>3. QED
      BY <3>1, <3>2
  <2>7. \A i \in Released' : i \in Released \cup (ready \cup {new})
    BY <1>3, <2>2 DEF Released
  <2>8. \A i \in buffers'[p] : msg'[i].seq > expected'[p]
    BY <1>1, <1>3, <1>4, <2>2, <2>3
  <2>9. expected[p] <= expected'[p]
    BY <1>1, <2>2, <2>3
  <2>10. QED
    BY <1>1, <1>2, <1>3, <1>6, <2>2, <2>5, <2>6, <2>7, <2>8, <2>9, OnceReleased
<1>7. CASE q = p /\ Buffer(p, s)
  <2>1. /\ s > expected[p] /\ buffers'[p] = buffers[p] \cup {new}
        /\ UNCHANGED <<expected, released>>
    BY <1>1, <1>7 DEF Buffer, TypeOK
  <2>2. \A i \in buffers[p] : msg[i].seq # s
    <3>1. p \notin doubled'
      BY <1>7
    <3>2. QED
      BY <3>1
  <2>3. Released' = Released
    BY <1>3, <2>1 DEF Released
  <2>4. \A i \in buffers'[p] : msg'[i].seq > expected'[p]
    BY <1>2, <1>3, <1>4, <1>7, <2>1 DEF OnceOf
  <2>5. \A i, j \in buffers'[p] : msg'[i].seq = msg'[j].seq => i = j
    BY <1>2, <1>3, <1>4, <1>7, <2>1, <2>2 DEF OnceOf
  <2>6. QED
    BY <1>2, <1>3, <1>4, <1>7, <2>1, <2>3, <2>4, <2>5 DEF OnceOf
<1>8. CASE q = p /\ SkipDuplicate(p, s)
  <2>1. UNCHANGED <<buffers, expected, released>>
    BY <1>8 DEF SkipDuplicate
  <2>2. Released' = Released
    BY <1>3, <2>1 DEF Released
  <2>3. QED
    BY <1>2, <1>3, <2>1, <2>2, OnceUntouched
<1>9. QED
  BY <1>1, <1>5, <1>6, <1>7, <1>8 DEF Deliver

\* A round of the timeouts returns whole buffers.
LEMMA OnceTimesOut ==
    ASSUME FateInv, FateInv', NumbersOnce, CheckTimeouts, doubled' = doubled
    PROVE  NumbersOnce'
<1>1. /\ UNCHANGED <<arrived, msg, bufferFull>> /\ Arrived' = Arrived
      /\ TypeOK /\ TypeOK'
  BY DEF CheckTimeouts, Arrived, FateInv
<1> SUFFICES ASSUME bufferFull = 0, NEW q \in Pairs \ doubled
             PROVE  OnceOf(q)'
  BY <1>1 DEF NumbersOnce
<1>2. OnceOf(q)
  BY DEF NumbersOnce
<1>3. ASSUME NEW i \in Released', msg[i].pair = q, i \notin Released
      PROVE  q \in TimedOut /\ i \in buffers[q]
  <2>1. i \in MsgId
    BY <1>1, OrderTypes DEF Released
  <2>2. PICK p \in TimedOut : i \in buffers[p]
    BY <1>1, <1>3, <2>1 DEF CheckTimeouts, Released
  <2>3. QED
    BY <1>3, <2>2, OrderTypes DEF TimedOut
<1>4. CASE q \notin TimedOut
  <2>1. buffers'[q] = buffers[q] /\ expected'[q] = expected[q]
    BY <1>4 DEF CheckTimeouts, KeptAfter, ExpectedAfter
  <2>2. QED
    BY <1>1, <1>2, <1>3, <1>4, <2>1, OnceUntouched
<1>5. CASE q \in TimedOut
  <2>1. /\ buffers[q] # {} /\ buffers[q] \in SUBSET MsgId
        /\ LastSeq(buffers[q]) \in SeqNum
        /\ \A i \in buffers[q] : msg[i].seq <= LastSeq(buffers[q])
    BY <1>1, <1>5, SeqsType DEF TimedOut, TypeOK
  <2>2. /\ expected'[q] = LastSeq(buffers[q]) + 1 /\ LastSeq(buffers[q]) \in Nat
        /\ buffers'[q] = {}
    BY <1>5, <2>1 DEF CheckTimeouts, KeptAfter, ExpectedAfter, SeqNum
  <2>3. \A i \in buffers[q] : /\ msg[i].seq \in Nat /\ expected[q] \in Nat
                              /\ expected[q] <= msg[i].seq
                              /\ msg[i].seq < expected'[q]
    BY <1>2, <2>1, <2>2, OrderTypes DEF OnceOf
  <2>4. expected'[q] \in Nat /\ expected[q] <= expected'[q]
    BY <2>1, <2>2, <2>3, OrderTypes
  <2>5. \A i \in Released' : msg[i].pair = q => i \in Released \cup buffers[q]
    BY <1>3
  <2>6. \A i, j \in buffers[q] : msg'[i].seq = msg'[j].seq => i = j
    BY <1>1, <1>2 DEF OnceOf
  <2>7. QED
    BY <1>1, <1>2, <2>2, <2>3, <2>4, <2>5, <2>6, OnceReleased
<1>6. QED
  BY <1>4, <1>5

LEMMA OnceStep == FateInv /\ NumbersOnce /\ [Next]_vars => NumbersOnce'
<1> SUFFICES ASSUME FateInv, NumbersOnce, [Next]_vars PROVE NumbersOnce'
  OBVIOUS
<1>1. FateInv'
  BY BufferStep, FateStep
<1>2. ASSUME NEW t \in Tasks, NEW p \in Pairs, NEW s \in SeqNum, HandOver(t, p, s)
      PROVE  NumbersOnce'
  BY <1>1, <1>2, OnceArrives DEF HandOver, Receive
<1>3. CASE LoopRound
  BY <1>1, <1>3, OnceTimesOut DEF LoopRound
<1>4. ASSUME UNCHANGED <<arrived, msg, buffers, expected, released, bufferFull, doubled>>
      PROVE  NumbersOnce'
  BY <1>4 DEF NumbersOnce, OnceOf, Released, Arrived
<1>5. ASSUME NEW c \in Conns,
             \/ Subscribe(c) \/ HandlerEnds(c) \/ Lose(c) \/ Slows(c) \/ CatchesUp(c)
             \/ \E n \in OwnedBy(c) : Unsubscribe(c, n)
      PROVE  NumbersOnce'
  BY <1>4, <1>5 DEF Subscribe, HandlerEnds, Lose, Slows, CatchesUp, Unsubscribe, reorderVars
<1>6. ASSUME NEW t \in Tasks, Runs(t) \/ DrainReturns(t) \/ DrainRaises(t)
      PROVE  NumbersOnce'
  BY <1>4, <1>6 DEF Runs, WriteNext, MessageDone, PushAborts, DrainReturns,
                    DrainRaises, reorderVars
<1>7. CASE Time \/ UNCHANGED vars
  BY <1>4, <1>7 DEF Time, Tick, vars, pushVars, reorderVars
<1>8. QED
  BY <1>2, <1>3, <1>5, <1>6, <1>7, HandedOver, PushAssumption DEF Next

\* No subscription gets a message twice: the buffer releases a message once
\* (its one fate), one task has it in hand, and that task goes through a list
\* that names each subscription once, whatever drains wait, fail or time out.
\* And no number twice that the handler of a client and a worker both hand over,
\* unless one came while it was held back: what a pair releases is below what
\* it expects, and what it holds back above.
THEOREM PushedOnceHolds == Spec => []PushedOnce
<1>1. ASSUME FateInv, PushInv, NumbersOnce PROVE PushedOnce
  <2>1. ASSUME bufferFull = 0, NEW n \in Sid, NEW i \in Listed(wire[n]),
               NEW j \in Listed(wire[n]), msg[i].pair = msg[j].pair,
               msg[i].seq = msg[j].seq, msg[i].pair \notin doubled
        PROVE  i = j
    <3>1. i \in Released /\ j \in Released
      BY <1>1 DEF PushInv, Written
    <3>2. msg[i].pair \in Pairs
      BY <1>1, <3>1, OrderTypes DEF FateInv, TypeOK, Message
    <3>3. QED
      BY <1>1, <2>1, <3>1, <3>2 DEF NumbersOnce, OnceOf
  <2>2. QED
    BY <1>1, <2>1, NoRepeatOnWire DEF PushedOnce
<1>2. Init => NumbersOnce
  BY DEF Init, ReorderInit, NumbersOnce, OnceOf, Released, Arrived
<1>3. QED
  BY InitPushInv, NextKeepsPushInv, OnceStep, <1>1, <1>2, PTL DEF Spec

-----------------------------------------------------------------------------
(* Nobody is left out                                                      *)

\* Message i was written for subscription n, or its connection is gone.
Reached(i, n) == conn[owner[n]] = "gone" \/ i \in Listed(wire[n])

\* The types of what the histories and the connections are.
AudienceType ==
    /\ conn \in [Conns -> {"ok", "slow", "gone"}]
    /\ lost \in Nat
    /\ audience \in [MsgId -> SUBSET DOMAIN owner]
    /\ pushed \subseteq Released /\ aborted \subseteq Released
    /\ \A t \in Tasks : Listed(task[t].targets) \subseteq DOMAIN owner

\* What was released is in the hands of a task, or a task is done with it; a
\* task that reads has nothing in hand.
Accounted ==
    /\ Released \subseteq InHand \cup pushed \cup aborted
    /\ \A t \in Tasks : task[t].stage = "read" => task[t].ready = <<>>

\* Nobody is dead and nothing is cut off before a connection is lost.
Losses ==
    lost = 0 => /\ \A c \in Conns : conn[c] # "gone"
                /\ aborted = {}
                /\ \A t \in Tasks : task[t].dead = {}

\* Of the audience of a message, everybody has been reached when it is pushed,
\* and is reached or due while a task has it in hand.
Delivered ==
    \A i \in MsgId : \A n \in audience[i] \cap subs :
        /\ i \in pushed => Reached(i, n)
        /\ \A t \in Tasks : i \in Listed(task[t].ready) =>
             ~Excluded(t, n) /\ (Reached(i, n) \/ Due(task[t], i, n))

AudienceInv == AudienceType /\ Accounted /\ Losses /\ Delivered

-----------------------------------------------------------------------------
\* A list without repetitions that is as long as a set has all of the set.
LEMMA ListsAll ==
    ASSUME NEW S, IsFiniteSet(S), NEW l \in [1..Cardinality(S) -> S], NoRepeat(l)
    PROVE  Listed(l) = S
<1> DEFINE K == Cardinality(S)
<1>1. K \in Nat /\ IsFiniteSet(1..K) /\ Cardinality(1..K) = K
  BY FS_CardinalityType, FS_Interval
<1>2. l \in Injection(1..K, S)
  BY DEF Injection, IsInjective, NoRepeat
<1> HIDE DEF K
<1>3. Cardinality(1..K) = Cardinality(S)
  BY <1>1 DEF K
<1>4. l \in Surjection(1..K, S)
  BY <1>1, <1>2, <1>3, FS_Injection
<1>5. l \in [1..K -> S] /\ DOMAIN l = 1..K
  BY DEF K
<1>6. QED
  BY <1>4, <1>5 DEF Surjection, Listed

LEMMA SubscribersAll ==
    ASSUME NEW S \in SUBSET Sid
    PROVE  Listed(Subscribers(S)) = S
<1>1. IsFiniteSet(S)
  <2>1. IsFiniteSet(1..MaxSubs)
    BY FS_Interval, PushAssumption
  <2>2. QED
    BY <2>1, FS_Subset DEF Sid
<1>2. Subscribers(S) \in Seq(S) /\ NoRepeat(Subscribers(S))
  BY SubscribersOnce
<1>3. DOMAIN Subscribers(S) = 1..Cardinality(S)
  BY DEF Subscribers
<1>4. Subscribers(S) \in [1..Cardinality(S) -> S]
  <2>1. \A s \in Seq(S) : s \in [DOMAIN s -> S]
    OBVIOUS
  <2>2. QED
    BY <1>2, <1>3, <2>1
<1>5. QED
  BY <1>1, <1>2, <1>4, ListsAll

LEMMA FiniteMessages == IsFiniteSet(MsgId)
BY FS_Interval, ReorderAssumption DEF MsgId

\* What a call of the buffer adds to the released messages is what it returns.
LEMMA FreshIsAll ==
    ASSUME FateInv, FateInv',
           CheckTimeouts \/ \E p \in Pairs, s \in SeqNum : Receive(p, s)
    PROVE  /\ Released' = Released \cup Fresh
           /\ \A i \in MsgId : released'[i] = released[i] \/ released'[i] > batch
<1>1. TypeOK /\ Books /\ TypeOK' /\ Books'
  BY DEF FateInv
<1>2. /\ batch \in Nat
      /\ \A i \in MsgId : released[i] \in Nat /\ released'[i] \in Nat
      /\ released \in [MsgId -> Nat]
  BY <1>1 DEF TypeOK
<1>3. \A i \in MsgId : released'[i] = released[i] \/ released'[i] > batch
  <2>1. CASE CheckTimeouts
    BY <1>2, <2>1 DEF CheckTimeouts
  <2>2. ASSUME NEW p \in Pairs, NEW s \in SeqNum, Receive(p, s)
        PROVE  \A i \in MsgId : released'[i] = released[i] \/ released'[i] > batch
    <3>1. CASE DeliverExpected(p, s)
      BY <1>2, <3>1 DEF DeliverExpected
    <3>2. CASE FlushFull(p, s)
      BY <1>2, <3>2 DEF FlushFull
    <3>3. CASE Buffer(p, s) \/ SkipDuplicate(p, s)
      BY <3>3 DEF Buffer, SkipDuplicate
    <3>4. QED
      BY <2>2, <3>1, <3>2, <3>3 DEF Receive, Deliver
  <2>3. QED
    BY <2>1, <2>2
<1>4. ASSUME NEW i \in Released', i \notin Released
      PROVE  i \in Fresh
  <2>1. i \in MsgId /\ released'[i] # 0
    BY <1>1, ReorderAssumption DEF Released, Arrived, TypeOK, MsgId
  <2>2. released[i] = 0
    BY <1>1, <1>4, <2>1 DEF Released, Books
  <2>3. QED
    BY <1>2, <1>3, <2>1, <2>2 DEF Fresh
<1>5. QED
  BY <1>3, <1>4, FreshIsNew

\* Task t goes on with what it had in hand: it drops a message from its list
\* only when it is done with it, and a subscriber only when it has been reached.
LEMMA TurnReaches ==
    ASSUME PushInv, PushInv', AudienceInv, NEW t \in Tasks,
           \A u \in Tasks : u # t => task'[u] = task[u],
           UNCHANGED <<reorderVars, owner, audience, lost>>, subs' \subseteq subs,
           conn' \in [Conns -> {"ok", "slow", "gone"}],
           \A c \in Conns : conn[c] = "gone" => conn'[c] = "gone",
           \A n \in Sid : Listed(wire[n]) \subseteq Listed(wire'[n]),
           task'[t].stage = "read" => task'[t].ready = <<>>,
           Listed(task'[t].targets) \subseteq DOMAIN owner,
           Listed(task'[t].ready) \subseteq Listed(task[t].ready),
           Listed(task[t].ready) \subseteq Listed(task'[t].ready) \cup pushed' \cup aborted',
           pushed \subseteq pushed', aborted \subseteq aborted',
           aborted' \subseteq aborted \cup Listed(task[t].ready),
           \A i \in pushed' \ pushed :
             i \in Listed(task[t].ready) /\ \A n \in subs' : ~Due(task[t], i, n),
           \A i \in Listed(task'[t].ready) : \A n \in subs' :
             Due(task[t], i, n) /\ ~Excluded(t, n) => Due(task'[t], i, n) \/ Reached(i, n)',
           lost = 0 => conn' = conn /\ aborted' = aborted /\ task'[t].dead = {}
    PROVE  AudienceInv'
<1>1. Released' = Released
  BY DEF Released, Arrived, reorderVars
<1>2. /\ \A u \in Tasks : Listed(task[u].ready) \subseteq Released
      /\ owner \in Seq(Conns) /\ subs \subseteq DOMAIN owner /\ subs \subseteq Sid
      /\ \A n \in subs : owner[n] \in Conns
  <2>1. owner \in Seq(Conns) /\ subs \subseteq DOMAIN owner
    BY DEF PushInv, PushType
  <2>2. \A n \in subs : owner[n] \in Conns
    BY <2>1
  <2>3. QED
    BY <2>1, <2>2, AtTurn DEF PushInv, OneHand
<1>3. AudienceType'
  <2>1. pushed' \subseteq Released /\ aborted' \subseteq Released
    BY <1>2 DEF AudienceInv, AudienceType
  <2>2. lost' \in Nat /\ audience' \in [MsgId -> SUBSET DOMAIN owner']
    BY DEF AudienceInv, AudienceType
  <2>3. \A u \in Tasks : Listed(task'[u].targets) \subseteq DOMAIN owner'
    BY DEF AudienceInv, AudienceType
  <2>4. QED
    BY <1>1, <2>1, <2>2, <2>3 DEF AudienceType, Listed
<1>4. Accounted'
  <2>1. ASSUME NEW i \in Released
        PROVE  i \in InHand' \cup pushed' \cup aborted'
    <3>1. CASE i \in pushed \cup aborted
      BY <3>1
    <3>2. ASSUME NEW u \in Tasks, i \in Listed(task[u].ready)
          PROVE  i \in InHand' \cup pushed' \cup aborted'
      <4>1. CASE u = t
        BY <3>2, <4>1 DEF InHand, Listed
      <4>2. CASE u # t
        BY <3>2, <4>2 DEF InHand, Listed
      <4>3. QED
        BY <4>1, <4>2
    <3>3. QED
      BY <3>1, <3>2 DEF AudienceInv, Accounted, InHand
  <2>2. \A u \in Tasks : task'[u].stage = "read" => task'[u].ready = <<>>
    BY DEF AudienceInv, Accounted
  <2>3. QED
    BY <1>1, <2>1, <2>2 DEF Accounted
<1>5. Losses'
  BY DEF AudienceInv, Losses
<1>6. ASSUME NEW i \in MsgId, NEW n \in audience[i] \cap subs'
      PROVE  /\ Reached(i, n) => Reached(i, n)'
             /\ i \in pushed' => Reached(i, n)'
             /\ \A u \in Tasks : i \in Listed(task'[u].ready) =>
                  ~Excluded(u, n)' /\ (Reached(i, n)' \/ Due(task'[u], i, n))
  <2>1. n \in subs /\ n \in Sid /\ owner[n] \in Conns
    BY <1>2, <1>6
  <2>2. Reached(i, n) => Reached(i, n)'
    BY <2>1 DEF Reached, Listed
  <2>3. /\ i \in pushed => Reached(i, n)
        /\ \A u \in Tasks : i \in Listed(task[u].ready) =>
             ~Excluded(u, n) /\ (Reached(i, n) \/ Due(task[u], i, n))
    BY <1>6, <2>1 DEF AudienceInv, Delivered
  <2>4. i \in pushed' => Reached(i, n)'
    BY <1>6, <2>2, <2>3
  <2>5. ASSUME NEW u \in Tasks, i \in Listed(task'[u].ready)
        PROVE  ~Excluded(u, n)' /\ (Reached(i, n)' \/ Due(task'[u], i, n))
    <3>1. i \in Listed(task[u].ready)
      BY <2>5
    <3>2. ~Excluded(u, n)'
      BY <2>3, <3>1 DEF Excluded
    <3>3. CASE u = t
      BY <1>6, <2>2, <2>3, <2>5, <3>1, <3>2, <3>3
    <3>4. CASE u # t
      BY <2>2, <2>3, <3>1, <3>2, <3>4
    <3>5. QED
      BY <3>3, <3>4
  <2>6. QED
    BY <2>2, <2>4, <2>5
<1>7. Delivered'
  BY <1>6 DEF Delivered, Listed, Due
<1>8. QED
  BY <1>3, <1>4, <1>5, <1>7 DEF AudienceInv

\* When the first subscriber has been tried, the others are still due.
LEMMA OthersStayDue ==
    ASSUME PushInv, NEW t \in Tasks, task[t].targets # <<>>, task[t].ready # <<>>,
           NEW r, r.ready = task[t].ready, r.targets = Tail(task[t].targets),
           r.stage = "write", NEW i, NEW n, Due(task[t], i, n)
    PROVE  \/ Due(r, i, n)
           \/ task[t].stage = "write" /\ i = task[t].ready[1] /\ n = task[t].targets[1]
<1>1. CASE \E a \in DOMAIN task[t].ready : a # 1 /\ i = task[t].ready[a]
  BY <1>1 DEF Due
<1>2. ASSUME i = task[t].ready[1], NEW b \in DOMAIN task[t].targets, b # 1,
             n = task[t].targets[b]
      PROVE  Due(r, i, n)
  <2>1. task[t].targets \in Seq(Sid)
    BY AtTurn
  <2>2. b - 1 \in DOMAIN Tail(task[t].targets) /\ Tail(task[t].targets)[b - 1] = n
    BY <1>2, <2>1
  <2>3. QED
    BY <1>2, <2>2 DEF Due
<1>3. QED
  BY <1>1, <1>2 DEF Due

LEMMA TriedReaches ==
    ASSUME PushInv, PushInv', AudienceInv, NEW t \in Tasks, NEW r \in TaskState,
           task[t].targets # <<>>, task[t].ready # <<>>,
           r.ready = task[t].ready, r.targets = Tail(task[t].targets),
           r.stage = "write", task' = [task EXCEPT ![t] = r],
           UNCHANGED <<reorderVars, conn, owner, subs, pushed, aborted, audience, lost>>,
           \A n \in Sid : Listed(wire[n]) \subseteq Listed(wire'[n]),
           NEW m, m = task[t].ready[1], NEW k, k = task[t].targets[1],
           task[t].stage = "write" /\ ~Excluded(t, k) => Reached(m, k)',
           lost = 0 => r.dead = {}
    PROVE  AudienceInv'
<1>1. task'[t] = r /\ \A u \in Tasks : u # t => task'[u] = task[u]
  BY AtTurn
<1>2. \A i \in Listed(task'[t].ready) : \A n \in subs' :
        Due(task[t], i, n) /\ ~Excluded(t, n) => Due(task'[t], i, n) \/ Reached(i, n)'
  <2>1. ASSUME NEW i, NEW n, Due(task[t], i, n), ~Excluded(t, n)
        PROVE  Due(r, i, n) \/ Reached(i, n)'
    <3>1. \/ Due(r, i, n)
          \/ task[t].stage = "write" /\ i = task[t].ready[1] /\ n = task[t].targets[1]
      BY <2>1, OthersStayDue
    <3>2. QED
      BY <2>1, <3>1
  <2>2. QED
    BY <1>1, <2>1
<1>3. /\ conn' \in [Conns -> {"ok", "slow", "gone"}]
      /\ Listed(task'[t].ready) = Listed(task[t].ready) /\ task'[t].stage = "write"
      /\ lost = 0 => task'[t].dead = {}
  BY <1>1 DEF AudienceInv, AudienceType
<1>4. Listed(task'[t].targets) \subseteq DOMAIN owner
  <2>1. Listed(task[t].targets) \subseteq DOMAIN owner
    BY DEF AudienceInv, AudienceType
  <2>2. Listed(Tail(task[t].targets)) \subseteq Listed(task[t].targets)
    BY AtTurn, TailOf DEF Listed
  <2>3. QED
    BY <1>1, <2>1, <2>2
<1>5. QED
  BY <1>1, <1>2, <1>3, <1>4, TurnReaches

LEMMA WriteNextReaches ==
    ASSUME PushInv, PushInv', AudienceInv, NEW t \in Tasks, WriteNext(t)
    PROVE  AudienceInv'
<1>1. PICK n \in Sid : n = task[t].targets[1]
  BY AtTurn, TailOf DEF WriteNext
<1>2. PICK m \in MsgId : m = task[t].ready[1]
  BY AtTurn, TailOf DEF WriteNext
<1>3. /\ task[t].stage = "write" /\ task[t].ready # <<>> /\ task[t].targets # <<>>
      /\ UNCHANGED <<reorderVars, conn, owner, subs, pushed, aborted, audience, lost>>
  BY AtTurn DEF WriteNext
<1>4. /\ task[t] \in TaskState /\ Tail(task[t].targets) \in Seq(Sid)
      /\ wire \in [Sid -> Seq(MsgId)]
  BY <1>3, AtTurn, TailOf DEF PushInv, PushType
<1>5. lost = 0 => task[t].dead = {} /\ \A c \in Conns : conn[c] # "gone"
  BY DEF AudienceInv, Losses
<1>0. /\ Listed(task[t].targets) \subseteq DOMAIN owner
      /\ n \in DOMAIN owner /\ owner[n] \in Conns
  <2>1. Listed(task[t].targets) \subseteq DOMAIN owner /\ owner \in Seq(Conns)
    BY DEF AudienceInv, AudienceType, PushInv, PushType
  <2>2. n \in Listed(task[t].targets)
    BY <1>1, <1>3, AtTurn, TailOf DEF Listed
  <2>3. QED
    BY <2>1, <2>2
<1>6. CASE Excluded(t, n)
  <2> DEFINE r == [task[t] EXCEPT !.targets = Tail(@)]
  <2>1. task' = [task EXCEPT ![t] = r] /\ wire' = wire
    BY <1>1, <1>6 DEF WriteNext
  <2>2. /\ r \in TaskState /\ r.ready = task[t].ready /\ r.stage = "write"
        /\ r.targets = Tail(task[t].targets) /\ r.dead = task[t].dead
    BY <1>3, <1>4 DEF TaskState
  <2> HIDE DEF r
  <2>3. \A k \in Sid : Listed(wire[k]) \subseteq Listed(wire'[k])
    BY <2>1
  <2>4. QED
    BY <1>1, <1>3, <1>5, <1>6, <2>1, <2>2, <2>3, TriedReaches
<1>7. CASE ~Excluded(t, n)
  <2>1. /\ wire' = [wire EXCEPT ![n] = IF conn[owner[n]] = "gone" THEN @ ELSE Append(@, m)]
        /\ CASE conn[owner[n]] = "ok" ->
                  task' = [task EXCEPT ![t].targets = Tail(@)]
             [] conn[owner[n]] = "gone" /\ owner[n] \notin ended ->
                  task' = [task EXCEPT ![t] = AfterDead(t)]
             [] OTHER -> task' = [task EXCEPT ![t].stage = "drain"]
    BY <1>1, <1>2, <1>7 DEF WriteNext
  <2>2. /\ \A k \in Sid : Listed(wire[k]) \subseteq Listed(wire'[k])
        /\ Reached(m, n)'
    <3>1. CASE conn[owner[n]] = "gone"
      <4>1. wire' = wire
        BY <1>4, <2>1, <3>1
      <4>2. QED
        BY <1>3, <3>1, <4>1 DEF Reached
    <3>2. CASE conn[owner[n]] # "gone"
      <4>1. wire'[n] = Append(wire[n], m) /\ \A k \in Sid : k # n => wire'[k] = wire[k]
        BY <1>4, <2>1, <3>2
      <4>2. Listed(wire'[n]) = Listed(wire[n]) \cup {m}
        <5>1. /\ DOMAIN Append(wire[n], m) = DOMAIN wire[n] \cup {Len(wire[n]) + 1}
              /\ \A a \in DOMAIN wire[n] : Append(wire[n], m)[a] = wire[n][a]
              /\ Append(wire[n], m)[Len(wire[n]) + 1] = m
          BY <1>4
        <5>2. QED
          BY <4>1, <5>1 DEF Listed
      <4>3. Reached(m, n)'
        BY <4>2 DEF Reached, Listed
      <4>4. QED
        BY <4>1, <4>2, <4>3
    <3>3. QED
      BY <3>1, <3>2
  <2>3. CASE task' = [task EXCEPT ![t].targets = Tail(@)]
    <3> DEFINE r == [task[t] EXCEPT !.targets = Tail(@)]
    <3>1. task' = [task EXCEPT ![t] = r]
      BY <2>3
    <3>2. /\ r \in TaskState /\ r.ready = task[t].ready /\ r.stage = "write"
          /\ r.targets = Tail(task[t].targets) /\ r.dead = task[t].dead
      BY <1>3, <1>4 DEF TaskState
    <3> HIDE DEF r
    <3>3. QED
      BY <1>1, <1>2, <1>3, <1>5, <2>2, <3>1, <3>2, TriedReaches
  <2>4. CASE conn[owner[n]] = "gone" /\ task' = [task EXCEPT ![t] = AfterDead(t)]
    <3>1. /\ AfterDead(t) \in TaskState /\ AfterDead(t).ready = task[t].ready
          /\ AfterDead(t).targets = Tail(task[t].targets) /\ AfterDead(t).stage = "write"
      BY <1>1, <1>3, <1>4 DEF TaskState, AfterDead
    <3>2. lost # 0
      BY <1>0, <1>5, <2>4
    <3>3. QED
      BY <1>1, <1>2, <1>3, <2>2, <2>4, <3>1, <3>2, TriedReaches
  <2>5. CASE task' = [task EXCEPT ![t].stage = "drain"]
    <3> DEFINE r == [task[t] EXCEPT !.stage = "drain"]
    <3>1. task' = [task EXCEPT ![t] = r]
      BY <2>5
    <3>2. /\ r.ready = task[t].ready /\ r.stage = "drain"
          /\ r.targets = task[t].targets /\ r.dead = task[t].dead
      BY <1>4 DEF TaskState
    <3> HIDE DEF r
    <3>3. task'[t] = r /\ \A u \in Tasks : u # t => task'[u] = task[u]
      BY <3>1, AtTurn
    <3>4. \A i, k : Due(task[t], i, k) => Due(r, i, k) \/ (i = m /\ k = n)
      BY <1>1, <1>2, <3>2 DEF Due
    <3>5. \A i \in Listed(task'[t].ready) : \A k \in subs' :
            Due(task[t], i, k) /\ ~Excluded(t, k) => Due(task'[t], i, k) \/ Reached(i, k)'
      BY <2>2, <3>3, <3>4
    <3>6. /\ conn' \in [Conns -> {"ok", "slow", "gone"}]
          /\ Listed(task'[t].targets) \subseteq DOMAIN owner
          /\ Listed(task'[t].ready) = Listed(task[t].ready) /\ task'[t].stage = "drain"
          /\ lost = 0 => task'[t].dead = {}
      BY <1>0, <1>3, <1>5, <3>2, <3>3 DEF AudienceInv, AudienceType
    <3>7. QED
      BY <1>3, <2>2, <3>3, <3>5, <3>6, TurnReaches
  <2>6. QED
    BY <2>1, <2>3, <2>4, <2>5
<1>8. QED
  BY <1>6, <1>7

LEMMA DrainEndsReaches ==
    ASSUME PushInv, PushInv', AudienceInv, NEW t \in Tasks, DrainEnds(t)
    PROVE  AudienceInv'
<1>1. /\ task[t].stage = "drain" /\ task[t].ready # <<>> /\ task[t].targets # <<>>
      /\ UNCHANGED <<reorderVars, conn, owner, subs, wire, pushed, aborted, audience, lost>>
  BY DEF DrainEnds, DrainReturns, DrainRaises, PushInv, Lists
<1>2. /\ task[t] \in TaskState /\ Tail(task[t].targets) \in Seq(Sid)
      /\ task[t].targets[1] \in Sid
  BY <1>1, AtTurn, TailOf
<1>3. /\ lost = 0 => task[t].dead = {} /\ \A c \in Conns : conn[c] # "gone"
      /\ conn \in [Conns -> {"ok", "slow", "gone"}]
  BY DEF AudienceInv, Losses, AudienceType
<1>4. \A n \in Sid : Listed(wire[n]) \subseteq Listed(wire'[n])
  BY <1>1
<1>5. CASE task' = [task EXCEPT ![t] = AfterWait(t)]
  <2>1. /\ AfterWait(t) \in TaskState /\ AfterWait(t).ready = task[t].ready
        /\ AfterWait(t).targets = Tail(task[t].targets) /\ AfterWait(t).stage = "write"
        /\ AfterWait(t).dead = task[t].dead
    BY <1>2 DEF TaskState, AfterWait
  <2>2. QED
    BY <1>1, <1>3, <1>4, <1>5, <2>1, TriedReaches
<1>6. CASE DrainRaises(t)
  <2> DEFINE r == [AfterDead(t) EXCEPT !.stage = "write"]
  <2>1. /\ r \in TaskState /\ r.ready = task[t].ready
        /\ r.targets = Tail(task[t].targets) /\ r.stage = "write"
    BY <1>2 DEF TaskState, AfterDead
  <2>2. task' = [task EXCEPT ![t] = r] /\ conn[owner[task[t].targets[1]]] = "gone"
    BY <1>6 DEF DrainRaises
  <2> HIDE DEF r
  <2>3. task[t].targets[1] \in DOMAIN owner /\ owner \in Seq(Conns)
    <3>1. task[t].targets[1] \in Listed(task[t].targets)
      BY <1>1, AtTurn, TailOf DEF Listed
    <3>2. QED
      BY <3>1 DEF AudienceInv, AudienceType, PushInv, PushType
  <2>4. lost # 0
    BY <1>3, <2>2, <2>3
  <2>5. QED
    BY <1>1, <1>4, <2>1, <2>2, <2>4, TriedReaches
<1>7. QED
  BY <1>5, <1>6 DEF DrainEnds, DrainReturns, DrainRaises

\* All subscribers have been tried: each that there still is has been reached.
LEMMA DoneReaches ==
    ASSUME PushInv, PushInv', AudienceInv, NEW t \in Tasks,
           MessageDone(t) \/ PushAborts(t)
    PROVE  AudienceInv'
<1> DEFINE m == task[t].ready[1]
           rest == Tail(task[t].ready)
<1>1. /\ running = t /\ task[t].targets = <<>> /\ subs' \subseteq subs
      /\ pushed' = pushed \cup {m}
      /\ UNCHANGED <<reorderVars, owner, wire, audience, lost>>
  BY DEF MessageDone, PushAborts, AfterHandler
<1>2. /\ task[t].ready # <<>> /\ task[t] \in TaskState /\ task \in [Tasks -> TaskState]
      /\ subs \subseteq Sid
  BY <1>1, AtTurn
<1>3. /\ rest \in Seq(MsgId) /\ 1 \in DOMAIN task[t].ready
      /\ \A a \in DOMAIN rest : a + 1 \in DOMAIN task[t].ready /\ a + 1 # 1
                                /\ rest[a] = task[t].ready[a + 1]
      /\ Listed(task[t].ready) = {m} \cup Listed(rest)
  <2>1. task[t].ready \in Seq(MsgId)
    BY AtTurn
  <2>2. \A a \in DOMAIN task[t].ready : a # 1 =>
          a - 1 \in DOMAIN rest /\ rest[a - 1] = task[t].ready[a]
    BY <2>1
  <2>3. /\ rest \in Seq(MsgId) /\ 1 \in DOMAIN task[t].ready
        /\ \A a \in DOMAIN rest : a + 1 \in DOMAIN task[t].ready /\ a + 1 # 1
                                  /\ rest[a] = task[t].ready[a + 1]
    BY <1>2, <2>1, TailOf
  <2>4. Listed(task[t].ready) = {m} \cup Listed(rest)
    <3>1. ASSUME NEW i \in Listed(task[t].ready), i # m
          PROVE  i \in Listed(rest)
      <4>1. PICK a \in DOMAIN task[t].ready : i = task[t].ready[a]
        BY DEF Listed
      <4>2. a - 1 \in DOMAIN rest /\ rest[a - 1] = i
        BY <2>2, <3>1, <4>1
      <4> HIDE DEF rest
      <4>3. QED
        BY <4>2 DEF Listed
    <3>2. Listed(rest) \subseteq Listed(task[t].ready) /\ m \in Listed(task[t].ready)
      BY <2>3 DEF Listed
    <3>3. QED
      BY <3>1, <3>2
  <2>5. QED
    BY <2>3, <2>4
<1>4. \A n : ~Due(task[t], m, n)
  BY <1>1, <1>3, AtTurn DEF Due, NoRepeat
<1>5. \A i \in pushed' \ pushed :
        i \in Listed(task[t].ready) /\ \A n \in subs' : ~Due(task[t], i, n)
  BY <1>1, <1>3, <1>4
<1>6. \A n \in Sid : Listed(wire[n]) \subseteq Listed(wire'[n])
  BY <1>1
<1>7. lost = 0 => task[t].dead = {}
  BY DEF AudienceInv, Losses
<1>8. conn \in [Conns -> {"ok", "slow", "gone"}]
  BY DEF AudienceInv, AudienceType
<1>9. Idle.stage = "read" /\ Idle.ready = <<>> /\ Idle.targets = <<>> /\ Idle.dead = {}
      /\ Listed(<<>>) = {}
  BY DEF Idle, Listed
<1>10. CASE MessageDone(t)
  <2>1. UNCHANGED <<conn, aborted>> /\ subs' = subs \ task[t].dead
    BY <1>10 DEF MessageDone
  <2>2. CASE rest = <<>>
    <3>1. task' = [task EXCEPT ![t] = Idle]
      BY <1>10, <2>2 DEF MessageDone
    <3>2. task'[t] = Idle /\ \A u \in Tasks : u # t => task'[u] = task[u]
      BY <1>2, <3>1
    <3>3. Listed(task[t].ready) = {m}
      BY <1>3, <1>9, <2>2
    <3> HIDE DEF m, rest
    <3>4. QED
      BY <1>1, <1>5, <1>6, <1>8, <1>9, <2>1, <3>2, <3>3, TurnReaches
  <2>3. CASE rest # <<>>
    <3> DEFINE r == [task[t] EXCEPT !.ready = rest, !.dead = {},
                                    !.targets = Subscribers(subs \ task[t].dead)]
    <3>1. task' = [task EXCEPT ![t] = r]
      BY <1>10, <2>3 DEF MessageDone
    <3>2. r.ready = rest /\ r.targets = Subscribers(subs') /\ r.dead = {}
          /\ r.stage = "write"
      BY <1>1, <1>2, <2>1, AtTurn DEF TaskState
    <3> HIDE DEF r
    <3>3. task'[t] = r /\ \A u \in Tasks : u # t => task'[u] = task[u]
      BY <1>2, <3>1
    <3>4. Listed(Subscribers(subs')) = subs'
      BY <1>1, <1>2, SubscribersAll
    <3>5. ASSUME NEW i \in Listed(rest), NEW n \in subs'
          PROVE  Due(r, i, n)
      <4>1. PICK a \in DOMAIN rest : i = rest[a]
        BY DEF Listed
      <4>2. PICK b \in DOMAIN r.targets : n = r.targets[b]
        BY <3>2, <3>4 DEF Listed
      <4>3. QED
        BY <2>3, <3>2, <4>1, <4>2 DEF Due
    <3>6. Listed(task'[t].targets) \subseteq DOMAIN owner
      BY <1>1, <3>2, <3>3, <3>4 DEF PushInv, PushType
    <3>7. /\ Listed(task'[t].ready) \subseteq Listed(task[t].ready)
          /\ Listed(task[t].ready) \subseteq Listed(task'[t].ready) \cup pushed'
          /\ task'[t].stage # "read" /\ task'[t].dead = {}
      BY <1>1, <1>3, <3>2, <3>3
    <3>8. \A i \in Listed(task'[t].ready) : \A n \in subs' : Due(task'[t], i, n)
      BY <3>2, <3>3, <3>5
    <3> HIDE DEF m, rest
    <3>9. QED
      BY <1>1, <1>5, <1>6, <1>8, <2>1, <3>3, <3>6, <3>7, <3>8, TurnReaches
  <2>4. QED
    BY <2>2, <2>3
<1>11. CASE PushAborts(t)
  <2>1. /\ aborted' = aborted \cup Listed(rest) /\ task' = [task EXCEPT ![t] = Idle]
        /\ task[t].dead # {}
        /\ IF t \notin Senders THEN conn' = conn
           ELSE conn' = [conn EXCEPT ![t] = "gone"]
    BY <1>11 DEF PushAborts
  <2>2. task'[t] = Idle /\ \A u \in Tasks : u # t => task'[u] = task[u]
    BY <1>2, <2>1
  <2>3. /\ conn' \in [Conns -> {"ok", "slow", "gone"}]
        /\ \A c \in Conns : conn[c] = "gone" => conn'[c] = "gone"
    BY <1>8, <2>1
  <2>4. lost # 0
    BY <1>7, <2>1
  <2>5. /\ Listed(task[t].ready) \subseteq pushed' \cup aborted'
        /\ aborted' \subseteq aborted \cup Listed(task[t].ready)
    BY <1>1, <1>3, <2>1
  <2> HIDE DEF m, rest
  <2>6. pushed \subseteq pushed' /\ aborted \subseteq aborted'
    BY <1>1, <2>1
  <2>7. QED
    BY <1>1, <1>5, <1>6, <1>9, <2>2, <2>3, <2>4, <2>5, <2>6, TurnReaches
<1>12. QED
  BY <1>10, <1>11

\* What happens to connections: a subscription that comes is in no audience yet.
LEMMA ConnectionReaches ==
    ASSUME PushInv, PushInv', AudienceInv, NEW c \in Conns,
           \/ Subscribe(c) \/ HandlerEnds(c) \/ Lose(c) \/ Slows(c) \/ CatchesUp(c)
           \/ \E n \in OwnedBy(c) : Unsubscribe(c, n)
    PROVE  AudienceInv'
<1>1. UNCHANGED <<reorderVars, task, running, wire, pushed, aborted, audience>>
  BY DEF Subscribe, HandlerEnds, Lose, Slows, CatchesUp, Unsubscribe
<1>2. Released' = Released
  BY <1>1 DEF Released, Arrived, reorderVars
<1>3. /\ conn \in [Conns -> {"ok", "slow", "gone"}] /\ lost \in Nat
      /\ audience \in [MsgId -> SUBSET DOMAIN owner]
      /\ pushed \subseteq Released /\ aborted \subseteq Released
      /\ \A t \in Tasks : Listed(task[t].targets) \subseteq DOMAIN owner
  BY DEF AudienceInv, AudienceType
<1>4. /\ owner \in Seq(Conns) /\ subs \subseteq DOMAIN owner /\ DOMAIN owner \subseteq Sid
  BY PushAssumption DEF PushInv, PushType, Sid
<1>5. /\ DOMAIN owner \subseteq DOMAIN owner'
      /\ \A n \in DOMAIN owner : owner'[n] = owner[n]
      /\ \A n \in subs' : n \in subs \/ n \notin DOMAIN owner
  <2>1. CASE Subscribe(c)
    BY <1>4, <2>1 DEF Subscribe
  <2>2. CASE ~Subscribe(c)
    BY <2>2 DEF HandlerEnds, AfterHandler, Lose, Slows, CatchesUp, Unsubscribe
  <2>3. QED
    BY <2>1, <2>2
<1>6. /\ conn' \in [Conns -> {"ok", "slow", "gone"}] /\ lost' \in Nat
      /\ lost' = 0 => lost = 0
      /\ lost' = 0 => \A d \in Conns : conn'[d] = "gone" => conn[d] = "gone"
      /\ \A d \in Conns : conn[d] = "gone" => conn'[d] = "gone"
  <2>1. CASE HandlerEnds(c) \/ Lose(c)
    <3>1. /\ conn' = [conn EXCEPT ![c] = "gone"]
          /\ \/ conn[c] = "gone" /\ lost' = lost
             \/ lost' = lost + 1
      BY <2>1 DEF HandlerEnds, Lose
    <3>2. QED
      BY <1>3, <3>1
  <2>2. CASE ~(HandlerEnds(c) \/ Lose(c))
    <3>1. /\ lost' = lost
          /\ \/ conn' = conn
             \/ conn[c] # "gone" /\ conn' = [conn EXCEPT ![c] = "slow"]
             \/ conn[c] # "gone" /\ conn' = [conn EXCEPT ![c] = "ok"]
      BY <2>2 DEF Subscribe, Slows, CatchesUp, Unsubscribe
    <3>2. QED
      BY <1>3, <3>1
  <2>3. QED
    BY <2>1, <2>2
<1>7. AudienceType'
  <2>1. audience' \in [MsgId -> SUBSET DOMAIN owner']
    BY <1>1, <1>3, <1>5
  <2>2. QED
    BY <1>1, <1>2, <1>3, <1>5, <1>6, <2>1 DEF AudienceType, Listed
<1>8. Accounted'
  BY <1>1, <1>2 DEF AudienceInv, Accounted, InHand, Listed
<1>9. Losses'
  BY <1>1, <1>6 DEF AudienceInv, Losses
<1>10. Delivered'
  <2> SUFFICES ASSUME NEW i \in MsgId, NEW n \in audience[i] \cap subs'
               PROVE  /\ i \in pushed => Reached(i, n)'
                      /\ \A t \in Tasks : i \in Listed(task[t].ready) =>
                           ~Excluded(t, n)' /\ (Reached(i, n)' \/ Due(task[t], i, n))
    BY <1>1 DEF Delivered, Listed, Due
  <2>1. n \in DOMAIN owner /\ n \in subs /\ owner[n] \in Conns /\ owner'[n] = owner[n]
    BY <1>3, <1>4, <1>5
  <2>2. Reached(i, n) => Reached(i, n)'
    BY <1>1, <1>6, <2>1 DEF Reached, Listed
  <2>3. \A t \in Tasks : Excluded(t, n)' <=> Excluded(t, n)
    BY <2>1 DEF Excluded
  <2>4. QED
    BY <2>1, <2>2, <2>3 DEF AudienceInv, Delivered
<1>11. QED
  BY <1>7, <1>8, <1>9, <1>10 DEF AudienceInv

\* What the buffer has just returned is in the hands of the task that called
\* it, and the audience of it is everybody that the task goes through.
LEMMA StartReaches ==
    ASSUME PushInv, PushInv', AudienceInv, FateInv, FateInv', NEW t \in Tasks,
           CheckTimeouts \/ \E p \in Pairs, s \in SeqNum : Receive(p, s),
           StartPushing(t), task[t].stage = "read"
    PROVE  AudienceInv'
<1>1. PICK N : N = Fresh
  OBVIOUS
<1>2. /\ N \subseteq MsgId /\ N \cap Released = {} /\ Released' = Released \cup N
      /\ Released \subseteq MsgId /\ IsFiniteSet(N)
  <2>1. IsFiniteSet(MsgId)
    BY FiniteMessages
  <2>2. /\ Fresh \subseteq MsgId /\ Fresh \cap Released = {}
        /\ Released' = Released \cup Fresh
    BY FreshIsNew, FreshIsAll
  <2>3. Released \subseteq MsgId
    BY OrderTypes
  <2>4. N \subseteq MsgId /\ N \cap Released = {} /\ Released' = Released \cup N
    BY <1>1, <2>2
  <2>5. IsFiniteSet(N)
    BY <2>1, <2>4, FS_Subset
  <2>6. QED
    BY <2>3, <2>4, <2>5
<1>3. /\ UNCHANGED <<conn, owner, subs, wire, pushed, aborted, lost>>
      /\ audience' = [i \in MsgId |-> IF i \in N THEN {n \in subs : ~Excluded(t, n)}
                                      ELSE audience[i]]
  BY <1>1 DEF StartPushing
<1>4. /\ conn \in [Conns -> {"ok", "slow", "gone"}] /\ lost \in Nat
      /\ audience \in [MsgId -> SUBSET DOMAIN owner]
      /\ pushed \subseteq Released /\ aborted \subseteq Released
      /\ \A u \in Tasks : Listed(task[u].targets) \subseteq DOMAIN owner
      /\ subs \subseteq DOMAIN owner /\ subs \subseteq Sid
      /\ task \in [Tasks -> TaskState]
  BY AtTurn DEF AudienceInv, AudienceType, PushInv, PushType
<1>5. \A u \in Tasks : Listed(task[u].ready) \subseteq Released
  BY DEF PushInv, OneHand
<1>6. task[t].ready = <<>> /\ Listed(<<>>) = {}
  BY DEF AudienceInv, Accounted, Listed
<1>7. /\ \A u \in Tasks : u # t => task'[u] = task[u]
      /\ Listed(task'[t].ready) = N /\ task'[t].dead = {}
      /\ task'[t].stage = "read" => task'[t].ready = <<>>
      /\ Listed(task'[t].targets) \subseteq subs
      /\ \A i \in N : \A n \in subs : Due(task'[t], i, n)
  <2>1. CASE N = {}
    <3>1. task' = [task EXCEPT ![t] = Idle]
      BY <1>1, <2>1 DEF StartPushing
    <3>2. task'[t] = Idle /\ \A u \in Tasks : u # t => task'[u] = task[u]
      BY <1>4, <3>1
    <3>3. Idle.ready = <<>> /\ Idle.targets = <<>> /\ Idle.dead = {}
      BY DEF Idle
    <3>4. QED
      BY <1>6, <2>1, <3>2, <3>3
  <2>2. CASE N # {}
    <3> DEFINE r(l) == [Idle EXCEPT !.stage = "write", !.ready = l,
                                    !.targets = Subscribers(subs)]
    <3>1. PICK l \in FreshLists : task' = [task EXCEPT ![t] = r(l)]
      BY <1>1, <2>2 DEF StartPushing
    <3>2. l \in [1..Cardinality(N) -> N] /\ NoRepeat(l)
      BY <1>1, <3>1 DEF FreshLists, NoRepeat
    <3>3. Listed(l) = N
      BY <1>2, <3>2, ListsAll
    <3>4. l # <<>>
      BY <1>6, <2>2, <3>3
    <3>5. /\ r(l).ready = l /\ r(l).stage = "write" /\ r(l).dead = {}
          /\ r(l).targets = Subscribers(subs)
      BY DEF Idle
    <3> HIDE DEF r
    <3>6. task'[t] = r(l) /\ \A u \in Tasks : u # t => task'[u] = task[u]
      BY <1>4, <3>1
    <3>7. Listed(Subscribers(subs)) = subs
      BY <1>4, SubscribersAll
    <3>8. ASSUME NEW i \in N, NEW n \in subs
          PROVE  Due(task'[t], i, n)
      <4>1. PICK a \in DOMAIN l : i = l[a]
        BY <3>3 DEF Listed
      <4>2. PICK b \in DOMAIN Subscribers(subs) : n = Subscribers(subs)[b]
        BY <3>7 DEF Listed
      <4>3. QED
        BY <3>4, <3>5, <3>6, <4>1, <4>2 DEF Due
    <3>9. QED
      BY <3>3, <3>5, <3>6, <3>7, <3>8
  <2>3. QED
    BY <2>1, <2>2
<1>8. AudienceType'
  <2>1. audience' \in [MsgId -> SUBSET DOMAIN owner']
    BY <1>3, <1>4
  <2>2. \A u \in Tasks : Listed(task'[u].targets) \subseteq DOMAIN owner
    BY <1>4, <1>7
  <2>3. QED
    BY <1>2, <1>3, <1>4, <2>1, <2>2 DEF AudienceType, Listed
<1>9. Accounted'
  <2>1. ASSUME NEW i \in Released'
        PROVE  i \in InHand' \cup pushed' \cup aborted'
    <3>1. CASE i \in N
      BY <1>7, <3>1 DEF InHand, Listed
    <3>2. CASE i \in pushed \cup aborted
      BY <1>3, <3>2
    <3>3. ASSUME NEW u \in Tasks, i \in Listed(task[u].ready)
          PROVE  i \in InHand'
      <4>1. u # t
        BY <1>6, <3>3
      <4>2. QED
        BY <1>7, <3>3, <4>1 DEF InHand, Listed
    <3>4. QED
      BY <1>2, <3>1, <3>2, <3>3 DEF AudienceInv, Accounted, InHand
  <2>2. \A u \in Tasks : task'[u].stage = "read" => task'[u].ready = <<>>
    BY <1>7 DEF AudienceInv, Accounted
  <2>3. QED
    BY <2>1, <2>2 DEF Accounted
<1>10. Losses'
  BY <1>3, <1>7 DEF AudienceInv, Losses
<1>11. Delivered'
  <2> SUFFICES ASSUME NEW i \in MsgId, NEW n \in audience'[i] \cap subs
               PROVE  /\ i \in pushed => Reached(i, n)
                      /\ \A u \in Tasks : i \in Listed(task'[u].ready) =>
                           ~Excluded(u, n) /\ (Reached(i, n) \/ Due(task'[u], i, n))
    BY <1>3 DEF Delivered, Listed, Due, Reached, Excluded
  <2>1. CASE i \in N
    <3>1. i \notin pushed /\ ~Excluded(t, n)
      BY <1>2, <1>3, <1>4, <2>1
    <3>2. \A u \in Tasks : i \in Listed(task'[u].ready) => u = t
      BY <1>2, <1>5, <1>7, <2>1
    <3>3. QED
      BY <1>7, <2>1, <3>1, <3>2
  <2>2. CASE i \notin N
    <3>1. /\ n \in audience[i] \cap subs
          /\ i \notin Listed(task'[t].ready)
      BY <1>3, <1>7, <2>2
    <3>2. QED
      BY <1>7, <3>1 DEF AudienceInv, Delivered
  <2>3. QED
    BY <2>1, <2>2
<1>12. QED
  BY <1>8, <1>9, <1>10, <1>11 DEF AudienceInv

LEMMA AudienceStep ==
    FateInv /\ PushInv /\ AudienceInv /\ [Next]_vars => AudienceInv'
<1> SUFFICES ASSUME FateInv, PushInv, AudienceInv, [Next]_vars PROVE AudienceInv'
  OBVIOUS
<1>1. FateInv' /\ PushInv'
  BY NextKeepsPushInv
<1>2. ASSUME NEW c \in Conns,
             \/ Subscribe(c) \/ HandlerEnds(c) \/ Lose(c) \/ Slows(c) \/ CatchesUp(c)
             \/ \E n \in OwnedBy(c) : Unsubscribe(c, n)
      PROVE  AudienceInv'
  BY <1>1, <1>2, ConnectionReaches
<1>3. ASSUME NEW t \in Tasks, NEW p \in Pairs, NEW s \in SeqNum, HandOver(t, p, s)
      PROVE  AudienceInv'
  <2>1. Receive(p, s) /\ StartPushing(t) /\ task[t].stage = "read"
    BY <1>3 DEF HandOver
  <2>2. QED
    BY <1>1, <2>1, StartReaches
<1>4. CASE LoopRound
  <2>1. /\ CheckTimeouts /\ StartPushing(Loop) /\ Loop \in Tasks
        /\ task[Loop].stage = "read"
    BY <1>4 DEF LoopRound, Tasks
  <2>2. QED
    BY <1>1, <2>1, StartReaches
<1>5. ASSUME NEW t \in Tasks, Runs(t) \/ DrainReturns(t) \/ DrainRaises(t)
      PROVE  AudienceInv'
  BY <1>1, <1>5, WriteNextReaches, DoneReaches, DrainEndsReaches DEF Runs, DrainEnds
<1>6. CASE Time \/ UNCHANGED vars
  <2>1. UNCHANGED <<pushVars, arrived, released>>
    BY <1>6 DEF Time, Tick, vars, reorderVars
  <2>2. Released' = Released
    BY <2>1 DEF Released, Arrived
  <2>3. AudienceType' /\ Accounted' /\ Losses'
    BY <2>1, <2>2 DEF pushVars, AudienceInv, AudienceType, Accounted, Losses, InHand, Listed
  <2>4. Delivered'
    BY <2>1 DEF pushVars, AudienceInv, Delivered, Reached, Listed, Excluded, Due
  <2>5. QED
    BY <2>3, <2>4 DEF AudienceInv
<1>7. QED
  BY <1>2, <1>3, <1>4, <1>5, <1>6, HandedOver, PushAssumption DEF Next

LEMMA AudienceInit == Init => AudienceInv
<1> SUFFICES ASSUME Init PROVE AudienceInv
  OBVIOUS
<1>1. Released = {}
  BY DEF Init, ReorderInit, Released, Arrived
<1>2. \A t \in Tasks : task[t] = Idle
  BY DEF Init
<1>3. Idle.ready = <<>> /\ Idle.targets = <<>> /\ Idle.dead = {} /\ Listed(<<>>) = {}
  BY DEF Idle, Listed
<1>4. /\ AudienceType
  BY <1>1, <1>2, <1>3 DEF Init, AudienceType
<1>5. Accounted /\ Losses
  BY <1>1, <1>2, <1>3 DEF Init, Accounted, Losses
<1>6. Delivered
  BY DEF Init, Delivered
<1>7. QED
  BY <1>4, <1>5, <1>6 DEF AudienceInv

\* A subscription that has a message has it once.
LEMMA OneCopy ==
    ASSUME PushInv, NEW n \in Sid, NEW i \in Listed(wire[n])
    PROVE  Copies(n, i) = 1
<1>1. PICK k \in DOMAIN wire[n] : wire[n][k] = i
  BY DEF Listed
<1>2. {l \in DOMAIN wire[n] : wire[n][l] = i} = {k}
  BY <1>1 DEF PushInv, Written, NoRepeat
<1>3. QED
  BY <1>2, FS_Singleton DEF Copies

\* Nobody is left out by what happens to others (_push_single): whatever the
\* buffer released is in the hands of a task, or was cut off when a connection
\* was lost, or was written once for each subscription that was there when it
\* was released, is there still, and has its connection; however many drains
\* wait or fail, and whoever comes and goes in the meantime.
THEOREM NoneLeftOutHolds == Spec => []NoneLeftOut
<1>1. ASSUME FateInv, PushInv, AudienceInv PROVE NoneLeftOut
  <2> SUFFICES ASSUME NEW i \in Released \ InHand
               PROVE  \/ i \in aborted /\ lost > 0
                      \/ /\ i \in pushed
                         /\ \A n \in audience[i] \cap subs :
                              conn[owner[n]] # "gone" => Copies(n, i) = 1
    BY DEF NoneLeftOut
  <2>1. i \in pushed \/ i \in aborted
    BY <1>1 DEF AudienceInv, Accounted
  <2>2. CASE i \in aborted
    BY <1>1, <2>2 DEF AudienceInv, Losses, AudienceType
  <2>3. CASE i \in pushed
    <3>1. ASSUME NEW n \in audience[i] \cap subs, conn[owner[n]] # "gone"
          PROVE  Copies(n, i) = 1
      <4>1. n \in Sid
        BY <1>1, PushAssumption DEF PushInv, PushType, Sid
      <4>2. Released \subseteq MsgId
        BY <1>1, OrderTypes
      <4>3. i \in Listed(wire[n])
        BY <1>1, <2>3, <3>1, <4>2 DEF AudienceInv, Delivered, Reached
      <4>4. QED
        BY <1>1, <4>1, <4>3, OneCopy
    <3>2. QED
      BY <2>3, <3>1
  <2>4. QED
    BY <2>1, <2>2, <2>3
<1>2. QED
  BY InitPushInv, NextKeepsPushInv, AudienceInit, AudienceStep, <1>1, PTL DEF Spec

-----------------------------------------------------------------------------
(* Who may overtake                                                        *)

\* No pair is cleaned up here.
NoneForgotten == \A p \in Pairs : forgotten[p] = 0

\* Message i comes after j in its pair, and j was not in hand when i came.
Follows(i, j) ==
    /\ msg[i].pair = msg[j].pair /\ Unique(msg[i].pair)
    /\ msg[i].seq > msg[j].seq /\ j \notin inHand[i]

\* A list has i behind j.
Behind(l, i, b) == \E a \in DOMAIN l : b < a /\ l[a] = i

\* As long as a message is in hand, what follows it is behind it in its list.
HandOrder ==
    bufferFull = 0 => \A i, j \in Released : Follows(i, j) =>
        \A t \in Tasks : \A b \in DOMAIN task[t].ready :
            task[t].ready[b] = j => Behind(task[t].ready, i, b)

OvertakeInv == NoneForgotten /\ HandOrder /\ OvertakesOnlySuspended

-----------------------------------------------------------------------------
\* A step that leaves the buffer alone: a task goes on in its list, and may
\* write the first message of it.
LEMMA TurnKeepsOrder ==
    ASSUME PushInv, OvertakeInv, NEW t \in Tasks,
           \A u \in Tasks : u # t => task'[u] = task[u],
           UNCHANGED <<arrived, msg, released, bufferFull, forgotten, inHand>>,
           \/ task'[t].ready = task[t].ready
           \/ task[t].ready # <<>> /\ task'[t].ready = Tail(task[t].ready)
           \/ task'[t].ready = <<>>,
           \/ wire' = wire
           \/ \E n \in Sid : /\ task[t].ready # <<>>
                             /\ wire' = [wire EXCEPT ![n] = Append(@, task[t].ready[1])]
    PROVE  OvertakeInv'
<1>1. /\ Released' = Released
      /\ \A p : Unique(p)' <=> Unique(p)
      /\ \A i, j : Follows(i, j)' <=> Follows(i, j)
  BY DEF Released, Arrived, Unique, Follows
<1>2. /\ \A n \in Sid : Listed(wire[n]) \subseteq Released
      /\ \A u \in Tasks : task[u].ready \in Seq(MsgId)
      /\ wire \in [Sid -> Seq(MsgId)]
  BY AtTurn DEF PushInv, Written, PushType
<1>3. HandOrder'
  <2> SUFFICES ASSUME bufferFull = 0, NEW i \in Released, NEW j \in Released, Follows(i, j),
                      NEW u \in Tasks, NEW b \in DOMAIN task'[u].ready,
                      task'[u].ready[b] = j
               PROVE  Behind(task'[u].ready, i, b)
    BY <1>1 DEF HandOrder, Behind
  <2>1. \A c \in DOMAIN task[u].ready : task[u].ready[c] = j => Behind(task[u].ready, i, c)
    BY DEF OvertakeInv, HandOrder
  <2>2. CASE task'[u].ready = task[u].ready
    BY <2>1, <2>2
  <2>3. CASE task[u].ready # <<>> /\ task'[u].ready = Tail(task[u].ready)
    <3>1. b + 1 \in DOMAIN task[u].ready /\ task[u].ready[b + 1] = j /\ b \in Nat
      BY <1>2, <2>3
    <3>2. PICK a \in DOMAIN task[u].ready : b + 1 < a /\ task[u].ready[a] = i
      BY <2>1, <3>1 DEF Behind
    <3>3. a - 1 \in DOMAIN Tail(task[u].ready) /\ Tail(task[u].ready)[a - 1] = i /\ b < a - 1
      BY <1>2, <2>3, <3>1, <3>2
    <3>4. QED
      BY <2>3, <3>3 DEF Behind
  <2>4. CASE task'[u].ready = <<>>
    BY <2>4
  <2>5. QED
    BY <2>2, <2>3, <2>4
<1>4. OvertakesOnlySuspended'
  <2> SUFFICES ASSUME bufferFull = 0, NEW n \in Sid,
                      NEW a \in DOMAIN wire'[n], NEW b \in DOMAIN wire'[n], a < b,
                      Follows(wire'[n][a], wire'[n][b])
               PROVE  FALSE
    BY <1>1 DEF OvertakesOnlySuspended, Follows
  <2>1. ASSUME a \in DOMAIN wire[n], b \in DOMAIN wire[n],
               wire'[n][a] = wire[n][a], wire'[n][b] = wire[n][b]
        PROVE  FALSE
    BY <2>1 DEF OvertakeInv, OvertakesOnlySuspended, Follows
  <2>2. CASE wire'[n] = wire[n]
    BY <2>1, <2>2
  <2>3. CASE task[t].ready # <<>> /\ wire'[n] = Append(wire[n], task[t].ready[1])
    <3> DEFINE w == wire[n]
    <3>1. /\ w \in Seq(MsgId) /\ DOMAIN wire'[n] = 1..(Len(w) + 1) /\ DOMAIN w = 1..Len(w)
          /\ \A c \in DOMAIN w : wire'[n][c] = w[c]
          /\ wire'[n][Len(w) + 1] = task[t].ready[1]
      <4>1. task[t].ready[1] \in MsgId
        BY <1>2, <2>3
      <4>2. w \in Seq(MsgId)
        BY <1>2
      <4> HIDE DEF w
      <4>3. wire'[n] = Append(w, task[t].ready[1])
        BY <2>3 DEF w
      <4>4. QED
        BY <4>1, <4>2, <4>3
    <3>2. a \in DOMAIN w /\ (b \in DOMAIN w \/ b = Len(w) + 1)
      BY <3>1
    <3>3. CASE b \in DOMAIN w
      BY <2>1, <3>1, <3>2, <3>3
    \* The message has just been written, and a was written earlier.
    <3>4. CASE b = Len(w) + 1
      <4> DEFINE i == w[a]
      <4>1. /\ i \in Listed(wire[n]) /\ Follows(i, task[t].ready[1])
        BY <3>1, <3>2, <3>4 DEF Listed
      <4>2. 1 \in DOMAIN task[t].ready /\ task[t].ready[1] \in Listed(task[t].ready)
        BY <1>2, <2>3 DEF Listed
      <4>3. i \in Released /\ task[t].ready[1] \in Released /\ i \in MsgId
        BY <1>2, <3>1, <3>2, <4>1, <4>2 DEF PushInv, OneHand
      <4> HIDE DEF i
      <4>4. PICK c \in DOMAIN task[t].ready : 1 < c /\ task[t].ready[c] = i
        BY <4>1, <4>2, <4>3 DEF OvertakeInv, HandOrder, Behind
      <4>5. Due(task[t], i, n)
        BY <4>4 DEF Due
      <4>6. QED
        BY <4>1, <4>3, <4>5 DEF PushInv, Written
    <3>5. QED
      BY <3>2, <3>3, <3>4
  <2>4. QED
    BY <1>2, <2>2, <2>3
<1>5. QED
  BY <1>3, <1>4 DEF OvertakeInv, NoneForgotten

\* A call of the buffer keeps what it knows of earlier messages.
LEMMA BufferKeeps ==
    ASSUME FateInv, CheckTimeouts \/ \E p \in Pairs, s \in SeqNum : Receive(p, s)
    PROVE  /\ forgotten' = forgotten /\ Arrived \subseteq Arrived'
           /\ bufferFull' = 0 => bufferFull = 0
           /\ \A i \in Arrived : msg'[i] = msg[i]
           /\ \A p \in Pairs : Unique(p)' => Unique(p)
<1>1. bufferFull \in Nat
  BY DEF FateInv, TypeOK
<1>2. CASE CheckTimeouts
  BY <1>2 DEF CheckTimeouts, Unique, Arrived
<1>3. ASSUME NEW p \in Pairs, NEW s \in SeqNum, Receive(p, s)
      PROVE  /\ forgotten' = forgotten /\ Arrived \subseteq Arrived'
             /\ bufferFull' = 0 => bufferFull = 0
             /\ \A i \in Arrived : msg'[i] = msg[i]
             /\ \A q \in Pairs : Unique(q)' => Unique(q)
  <2>1. Arrive(p, s)
    BY <1>3 DEF Receive, Deliver, DeliverExpected, Buffer, FlushFull, SkipDuplicate
  <2>2. forgotten' = forgotten
    BY <2>1 DEF Arrive
  <2>3. bufferFull' = bufferFull \/ bufferFull' = bufferFull + 1
    BY <1>3 DEF Receive, Deliver, DeliverExpected, Buffer, FlushFull, SkipDuplicate
  <2>4. bufferFull' = 0 => bufferFull = 0
    BY <1>1, <2>3
  <2>5. QED
    BY <2>1, <2>2, <2>4, UniqueBefore
<1>4. QED
  BY <1>2, <1>3

\* A list of what was just released is in the order of the numbers, and comes
\* after what was released before.
LEMMA StartKeepsOrder ==
    ASSUME PushInv, OvertakeInv, FateInv, OrderInv', NEW t \in Tasks,
           CheckTimeouts \/ \E p \in Pairs, s \in SeqNum : Receive(p, s),
           StartPushing(t)
    PROVE  OvertakeInv'
<1>1. PICK N : N = Fresh
  OBVIOUS
<1>2. FateInv'
  BY DEF OrderInv
<1>3. /\ N \cap Released = {} /\ Released' = Released \cup N
      /\ Released \subseteq Arrived /\ Released \subseteq MsgId /\ N \subseteq MsgId
      /\ \A i \in MsgId : released'[i] = released[i] \/ released'[i] > batch
      /\ \A i \in N : released'[i] > batch
      /\ \A i \in Released : released[i] \in Nat /\ released[i] <= batch
      /\ \A i \in Released' : released'[i] \in Nat /\ msg'[i].seq \in Nat
      /\ batch \in Nat
  <2>1. \A i \in Released : released[i] \in Nat /\ released[i] <= batch
    BY OrderTypes
  <2>2. Released' \subseteq MsgId
    BY <1>2, ReorderAssumption DEF FateInv, TypeOK, Released, Arrived, MsgId
  <2>3. \A i \in MsgId : released'[i] \in Nat /\ msg'[i].seq \in Nat
    BY <1>2 DEF FateInv, TypeOK, Message, SeqNum
  <2>4. Released \subseteq Arrived
    BY DEF Released
  <2>5. N \cap Released = {} /\ Released' = Released \cup N /\ N \subseteq MsgId
        /\ \A i \in MsgId : released'[i] = released[i] \/ released'[i] > batch
    BY <1>1, <1>2, FreshIsNew, FreshIsAll
  <2>6. \A i \in N : released'[i] > batch
    BY <1>1 DEF Fresh
  <2>7. QED
    BY <2>1, <2>2, <2>3, <2>4, <2>5, <2>6, OrderTypes
<1>4. /\ forgotten' = forgotten /\ (bufferFull' = 0 => bufferFull = 0)
      /\ \A i \in Arrived : msg'[i] = msg[i]
      /\ \A p \in Pairs : Unique(p)' => Unique(p)
  BY BufferKeeps
<1>5. /\ wire' = wire
      /\ inHand' = [i \in MsgId |-> IF i \in N THEN InHand ELSE inHand[i]]
  BY <1>1 DEF StartPushing
<1>6. NoneForgotten'
  BY <1>4 DEF OvertakeInv, NoneForgotten
<1>7. ASSUME NEW i \in Released, NEW j \in Released, Follows(i, j)'
      PROVE  Follows(i, j)
  <2>1. msg'[i] = msg[i] /\ msg'[j] = msg[j] /\ inHand'[i] = inHand[i] /\ msg[i].pair \in Pairs
    BY <1>3, <1>4, <1>5 DEF FateInv, TypeOK, Message
  <2>2. QED
    BY <1>4, <1>7, <2>1 DEF Follows
<1>8. OvertakesOnlySuspended'
  <2> SUFFICES ASSUME bufferFull' = 0, NEW n \in Sid,
                      NEW a \in DOMAIN wire[n], NEW b \in DOMAIN wire[n], a < b,
                      NEW i, i = wire[n][a], NEW j, j = wire[n][b], Follows(i, j)'
               PROVE  FALSE
    BY <1>5 DEF OvertakesOnlySuspended, Follows
  <2>1. i \in Released /\ j \in Released
    BY DEF PushInv, Written, Listed
  <2>2. Follows(i, j)
    BY <1>7, <2>1
  <2>3. QED
    BY <1>4, <2>2 DEF OvertakeInv, OvertakesOnlySuspended, Follows
<1>9. ASSUME bufferFull' = 0, NEW i \in Released', NEW j \in Released', Follows(i, j)'
      PROVE  released'[j] <= released'[i]
  <2>1. PICK p \in Pairs : p = msg'[i].pair
    BY <1>2, <1>3 DEF FateInv, TypeOK, Message
  <2>2. msg'[i].pair = p /\ msg'[j].pair = p /\ Unique(p)' /\ msg'[i].seq > msg'[j].seq
    BY <1>9, <2>1 DEF Follows
  <2>3. InOrder(p)'
    BY <1>9, <2>2 DEF OrderInv, ReleasedInOrder
  <2>4. i \in Arrived' /\ j \in Arrived' /\ i > 0 /\ j > 0
    BY <1>2 DEF Released, Arrived, FateInv, TypeOK
  <2>5. i \in Session(p)' /\ j \in Session(p)'
    BY <1>6, <2>2, <2>4 DEF Session, NoneForgotten
  <2>6. released'[i] < released'[j] => msg'[i].seq < msg'[j].seq
    BY <1>9, <2>3, <2>5 DEF InOrder
  <2>7. QED
    BY <1>3, <1>9, <2>2, <2>6
<1>10. HandOrder'
  <2> SUFFICES ASSUME bufferFull' = 0, NEW i \in Released', NEW j \in Released',
                      Follows(i, j)', NEW u \in Tasks, NEW b \in DOMAIN task'[u].ready,
                      task'[u].ready[b] = j
               PROVE  Behind(task'[u].ready, i, b)
    BY DEF HandOrder, Behind
  <2>1. CASE u # t
    <3>1. task'[u] = task[u]
      BY <2>1 DEF StartPushing, PushInv, PushType
    <3>2. j \in Listed(task[u].ready) /\ j \in InHand /\ j \in Released
      BY <3>1 DEF Listed, InHand, PushInv, OneHand
    <3>3. i \notin N
      BY <1>3, <1>5, <3>2 DEF Follows
    <3>4. i \in Released /\ Follows(i, j)
      BY <1>3, <1>7, <3>2, <3>3
    <3>5. QED
      BY <1>4, <3>1, <3>2, <3>4 DEF OvertakeInv, HandOrder
  <2>2. CASE u = t
    <3>1. N # {}
      <4>1. CASE N = {}
        <5>1. task' = [task EXCEPT ![t] = Idle]
          BY <1>1, <4>1 DEF StartPushing
        <5>2. task'[t].ready = <<>>
          BY <5>1 DEF Idle, PushInv, PushType
        <5>3. QED
          BY <2>2, <5>2
      <4>2. QED
        BY <4>1
    <3>2. PICK l \in FreshLists :
            task' = [task EXCEPT ![t] = [Idle EXCEPT !.stage = "write", !.ready = l,
                                                     !.targets = Subscribers(subs)]]
      BY <1>1, <3>1 DEF StartPushing
    <3>3. task'[t].ready = l
      BY <3>2 DEF Idle, PushInv, PushType
    <3>4. /\ l \in [1..Cardinality(N) -> N] /\ NoRepeat(l)
          /\ \A a, c \in DOMAIN l :
               (msg'[l[a]].pair = msg'[l[c]].pair /\ a < c) =>
                  \/ released'[l[a]] < released'[l[c]]
                  \/ released'[l[a]] = released'[l[c]] /\ Before(l[a], l[c])'
      BY <1>1, <3>2 DEF FreshLists, NoRepeat
    <3>5. b \in DOMAIN l /\ j = l[b] /\ j \in N /\ released'[j] > batch
      BY <1>3, <2>2, <3>3, <3>4
    <3>6. i \in N
      <4>1. CASE i \in Released
        <5>1. released'[i] = released[i]
          BY <1>1, <1>3, <4>1 DEF Fresh
        <5>2. released'[j] <= released'[i]
          BY <1>9
        <5>3. QED
          BY <1>3, <3>5, <4>1, <5>1, <5>2
      <4>2. QED
        BY <1>3, <4>1
    <3>7. PICK a \in DOMAIN l : l[a] = i
      <4>1. IsFiniteSet(N)
        BY <1>3, FiniteMessages, FS_Subset
      <4>2. Listed(l) = N
        BY <3>4, <4>1, ListsAll
      <4>3. QED
        BY <3>6, <4>2 DEF Listed
    <3>8. ~(a < b)
      <4>1. msg'[i].pair = msg'[j].pair /\ msg'[i].seq > msg'[j].seq
            /\ released'[j] <= released'[i]
        BY <1>9 DEF Follows
      <4>2. ~Before(i, j)'
        BY <1>3, <4>1 DEF Before
      <4>3. QED
        BY <1>3, <3>4, <3>5, <3>7, <4>1, <4>2
    <3>9. a # b
      BY <1>3, <3>5, <3>7 DEF Follows
    <3>10. b < a
      BY <3>4, <3>5, <3>7, <3>8, <3>9
    <3>11. QED
      BY <2>2, <3>3, <3>7, <3>10 DEF Behind
  <2>3. QED
    BY <2>1, <2>2
<1>11. QED
  BY <1>6, <1>8, <1>10 DEF OvertakeInv

LEMMA OvertakeStep ==
    FateInv /\ OrderInv' /\ PushInv /\ OvertakeInv /\ [Next]_vars => OvertakeInv'
<1> SUFFICES ASSUME FateInv, OrderInv', PushInv, OvertakeInv, [Next]_vars
             PROVE  OvertakeInv'
  OBVIOUS
<1>1. ASSUME UNCHANGED <<arrived, msg, released, bufferFull, forgotten, inHand, task, wire>>
      PROVE  OvertakeInv'
  <2>1. Loop \in Tasks
    BY DEF Tasks
  <2>2. QED
    BY <1>1, <2>1, TurnKeepsOrder
<1>2. ASSUME NEW c \in Conns,
             \/ Subscribe(c) \/ HandlerEnds(c) \/ Lose(c) \/ Slows(c) \/ CatchesUp(c)
             \/ \E n \in OwnedBy(c) : Unsubscribe(c, n)
      PROVE  OvertakeInv'
  BY <1>1, <1>2 DEF Subscribe, HandlerEnds, Lose, Slows, CatchesUp, Unsubscribe, reorderVars
<1>3. ASSUME NEW t \in Tasks, NEW p \in Pairs, NEW s \in SeqNum, HandOver(t, p, s)
      PROVE  OvertakeInv'
  BY <1>3, StartKeepsOrder DEF HandOver
<1>4. CASE LoopRound
  BY <1>4, StartKeepsOrder DEF LoopRound, Tasks
<1>5. ASSUME NEW t \in Tasks, Runs(t) \/ DrainReturns(t) \/ DrainRaises(t)
      PROVE  OvertakeInv'
  <2>1. /\ UNCHANGED <<arrived, msg, released, bufferFull, forgotten, inHand>>
        /\ task[t] \in TaskState /\ task \in [Tasks -> TaskState]
    BY <1>5, AtTurn DEF Runs, WriteNext, MessageDone, PushAborts, DrainReturns,
                        DrainRaises, reorderVars
  <2>2. Idle.ready = <<>>
    BY DEF Idle
  <2>3. /\ [task[t] EXCEPT !.targets = Tail(@)].ready = task[t].ready
        /\ [task[t] EXCEPT !.stage = "drain"].ready = task[t].ready
        /\ AfterDead(t).ready = task[t].ready /\ AfterWait(t).ready = task[t].ready
        /\ [AfterDead(t) EXCEPT !.stage = "write"].ready = task[t].ready
    BY <2>1 DEF TaskState, AfterDead, AfterWait
  <2>4. ASSUME NEW r, task' = [task EXCEPT ![t] = r]
        PROVE  task'[t] = r /\ \A u \in Tasks : u # t => task'[u] = task[u]
    BY <2>1, <2>4
  <2>5. CASE WriteNext(t)
    <3>1. task[t].ready # <<>> /\ task[t].targets[1] \in Sid
      BY <2>5, AtTurn, TailOf DEF WriteNext
    <3>2. \/ task' = [task EXCEPT ![t].targets = Tail(@)]
          \/ task' = [task EXCEPT ![t] = AfterDead(t)]
          \/ task' = [task EXCEPT ![t].stage = "drain"]
      BY <2>5 DEF WriteNext
    <3>3. /\ \A u \in Tasks : u # t => task'[u] = task[u]
          /\ task'[t].ready = task[t].ready
      BY <2>3, <2>4, <3>2
    <3>4. \/ wire' = wire
          \/ wire' = [wire EXCEPT ![task[t].targets[1]] = Append(@, task[t].ready[1])]
      <4>1. wire \in [Sid -> Seq(MsgId)]
        BY DEF PushInv, PushType
      <4>2. [wire EXCEPT ![task[t].targets[1]] = @] = wire
        BY <3>1, <4>1
      <4>3. QED
        BY <2>5, <4>2 DEF WriteNext
    <3>5. QED
      BY <2>1, <3>1, <3>3, <3>4, TurnKeepsOrder
  <2>6. CASE DrainReturns(t) \/ DrainRaises(t)
    <3>1. /\ wire' = wire
          /\ \/ task' = [task EXCEPT ![t] = AfterWait(t)]
             \/ task' = [task EXCEPT ![t] = [AfterDead(t) EXCEPT !.stage = "write"]]
      BY <2>6 DEF DrainReturns, DrainRaises
    <3>2. /\ \A u \in Tasks : u # t => task'[u] = task[u]
          /\ task'[t].ready = task[t].ready
      BY <2>3, <2>4, <3>1
    <3>3. QED
      BY <2>1, <3>1, <3>2, TurnKeepsOrder
  <2>7. CASE MessageDone(t) \/ PushAborts(t)
    <3>1. /\ wire' = wire /\ task[t].ready # <<>>
          /\ \/ task' = [task EXCEPT ![t] = Idle]
             \/ task' = [task EXCEPT ![t] =
                  [@ EXCEPT !.ready = Tail(task[t].ready), !.dead = {},
                            !.targets = Subscribers(subs \ task[t].dead)]]
      BY <2>7, AtTurn DEF MessageDone, PushAborts
    <3>2. /\ \A u \in Tasks : u # t => task'[u] = task[u]
          /\ task'[t].ready = <<>> \/ task'[t].ready = Tail(task[t].ready)
      <4> DEFINE r == [task[t] EXCEPT !.ready = Tail(task[t].ready), !.dead = {},
                                      !.targets = Subscribers(subs \ task[t].dead)]
      <4>1. r.ready = Tail(task[t].ready)
        BY <2>1 DEF TaskState
      <4>2. task' = [task EXCEPT ![t] = Idle] \/ task' = [task EXCEPT ![t] = r]
        BY <3>1
      <4> HIDE DEF r
      <4>3. QED
        BY <2>2, <2>4, <4>1, <4>2
    <3>3. QED
      BY <2>1, <3>1, <3>2, TurnKeepsOrder
  <2>8. QED
    BY <1>5, <2>5, <2>6, <2>7 DEF Runs
<1>6. CASE Time \/ UNCHANGED vars
  BY <1>1, <1>6 DEF Time, Tick, vars, pushVars, reorderVars
<1>7. QED
  BY <1>2, <1>3, <1>4, <1>5, <1>6, HandedOver, PushAssumption DEF Next

LEMMA OvertakeInit == Init => OvertakeInv
<1> SUFFICES ASSUME Init PROVE OvertakeInv
  OBVIOUS
<1>1. NoneForgotten /\ Released = {}
  BY DEF Init, ReorderInit, NoneForgotten, Released, Arrived
<1>2. \A n \in Sid : DOMAIN wire[n] = {}
  BY DEF Init
<1>3. QED
  BY <1>1, <1>2 DEF OvertakeInv, HandOrder, OvertakesOnlySuspended

\* What a subscriber sees of a pair is in the order of the numbers, while they
\* are unique and no buffer overflows, but for what was released earlier and
\* was still being pushed, by a task whose drain was waiting, when the later
\* message came (_push_single); and what it calls in order is what the reorder
\* buffer releases in order.
THEOREM OvertakesOnlySuspendedHolds == Spec => []OvertakesOnlySuspended
<1>1. Spec => ReorderSpec
  <2>1. Init => ReorderInit
    BY DEF Init
  <2>2. QED
    BY <2>1, BufferStep, PTL DEF Spec, ReorderSpec
<1>2. Spec => []OrderInv
  BY <1>1, OrderInvariant, PTL
<1>3. OrderInv => FateInv
  BY DEF OrderInv
<1>4. OvertakeInv => OvertakesOnlySuspended
  BY DEF OvertakeInv
<1>5. QED
  BY <1>2, <1>3, <1>4, InitPushInv, NextKeepsPushInv, OvertakeInit, OvertakeStep, PTL
     DEF Spec
=============================================================================
