------------------------- MODULE DeadLetters_proofs -------------------------
(***************************************************************************)
(* No dead letter is lost but with a process or a connection, and none is  *)
(* given twice but by syncs that overlap: for any number of agents,        *)
(* letters, connections, calls and faults.                                 *)
(***************************************************************************)
EXTENDS DeadLetters, TLAPS

\* What a handler or a call that syncs holds.
SyncState == [stage: {"fetch", "hand"}, to: Agents, alive: BOOLEAN,
              give: SUBSET Letter, mark: SUBSET Letter]

LettersType ==
    /\ now \in 1..MaxTime
    /\ table \subseteq Letter /\ delivered \subseteq Letter
    /\ sync \in [Tasks -> {Idle} \cup SyncState]
    /\ handed \in [Letter -> 0..2]

\* A sync gives letters of its agent, and marks none that it does not give,
\* before it gives them.
OwnLetters ==
    \A t \in Tasks : sync[t] # Idle =>
        /\ sync[t].mark \subseteq sync[t].give
        /\ \A l \in sync[t].give : l.to = sync[t].to
        /\ sync[t].stage = "hand" => sync[t].mark \subseteq delivered

\* An agent with two syncs at a time is an exception.
OneSync ==
    \A t, u \in Tasks : t # u /\ sync[t] # Idle /\ sync[u] # Idle
        /\ sync[t].to = sync[u].to => sync[t].to \in together

\* For the other agents: what a sync gives has not been given before, since
\* what has been given is marked.
GivenOnce ==
    /\ \A t \in Tasks : sync[t] # Idle =>
         \A l \in sync[t].give :
            l.to \in together \/ l \in edge \/ handed[l] = 0
    /\ \A l \in Letter : handed[l] > 0 => l \in delivered \/ l \in edge
    /\ \A l \in Letter : handed[l] > 1 => l.to \in together \/ l \in edge

LettersInv == LettersType /\ OwnLetters /\ NothingForgotten /\ OneSync /\ GivenOnce

LEMMA SyncTypes ==
    ASSUME LettersType, NEW t \in Tasks
    PROVE  /\ Idle.stage = "idle"
           /\ sync[t].stage = "idle" => sync[t] = Idle
           /\ sync[t] # Idle => sync[t] \in SyncState
           /\ sync[t].stage \in {"fetch", "hand"} => sync[t] # Idle
BY DEF LettersType, SyncState, Idle

-----------------------------------------------------------------------------
(* One step of each kind *)

\* What comes in or goes by without a sync.
LEMMA OutsideKeeps ==
    ASSUME LettersInv, now' \in 1..MaxTime, table' \subseteq Letter,
           UNCHANGED <<delivered, sync, history>>
    PROVE  LettersInv'
<1>1. UNCHANGED <<handed, cut, together, edge>>
  BY DEF history
<1>2. LettersType'
  BY <1>1 DEF LettersInv, LettersType
<1>3. OwnLetters' /\ OneSync' /\ GivenOnce'
  BY <1>1 DEF LettersInv, OwnLetters, OneSync, GivenOnce
<1>4. NothingForgotten'
  BY <1>1 DEF LettersInv, NothingForgotten, InHand
<1>5. QED
  BY <1>2, <1>3, <1>4 DEF LettersInv

LEMMA StartKeeps ==
    ASSUME LettersInv, NEW t \in Tasks, NEW a \in Agents, NEW since \in Nat,
           SyncStart(t, a, since)
    PROVE  LettersInv'
<1> DEFINE give == {l \in Undelivered(a) : since > 0 => l.at >= since}
           mark == {l \in Undelivered(a) : l.at > since}
           r == [stage |-> "fetch", to |-> a, alive |-> TRUE,
                 give |-> give, mark |-> mark]
<1>1. /\ sync[t] = Idle /\ sync' = [sync EXCEPT ![t] = r]
      /\ together' = IF Busy(a) = {} THEN together ELSE together \cup {a}
      /\ UNCHANGED <<now, table, delivered, handed, cut, edge>>
  BY DEF SyncStart
<1>2. LettersType
  BY DEF LettersInv
<1>3. /\ give \subseteq Letter /\ mark \subseteq give
      /\ \A l \in give : l.to = a /\ l \notin delivered
  <2>1. Undelivered(a) \subseteq Letter
        /\ \A l \in Undelivered(a) : l.to = a /\ l \notin delivered
    BY <1>2 DEF Undelivered, LettersType
  <2>2. mark \subseteq give
    <3> SUFFICES ASSUME NEW l \in Undelivered(a), l.at > since
                 PROVE  l.at >= since
      OBVIOUS
    <3>1. l.at \in Int
      BY <2>1 DEF Letter
    <3>2. QED
      BY <3>1
  <2>3. QED
    BY <2>1, <2>2
<1>4. /\ r \in SyncState /\ r # Idle /\ r.to = a /\ r.stage = "fetch"
      /\ r.give = give /\ r.mark = mark
  <2> HIDE DEF give, mark
  <2>1. QED
    BY <1>3 DEF SyncState, Idle
<1> HIDE DEF r, give, mark
<1>5. sync'[t] = r /\ \A u \in Tasks : u # t => sync'[u] = sync[u]
  BY <1>1, <1>2 DEF LettersType
<1>6. together \subseteq together'
  BY <1>1
<1>7. LettersType'
  BY <1>1, <1>2, <1>4 DEF LettersType
<1>8. OwnLetters'
  <2>1. \A u \in Tasks : u # t /\ sync[u] # Idle =>
          /\ sync[u].mark \subseteq sync[u].give
          /\ \A l \in sync[u].give : l.to = sync[u].to
          /\ sync[u].stage = "hand" => sync[u].mark \subseteq delivered
    BY DEF LettersInv, OwnLetters
  <2>2. r.stage # "hand"
    BY <1>4
  <2>3. QED
    BY <1>1, <1>3, <1>4, <1>5, <2>1, <2>2 DEF OwnLetters
<1>9. NothingForgotten'
  <2>1. \A u \in Tasks : sync[u].stage = "hand" => sync'[u] = sync[u]
    BY <1>1, <1>5 DEF Idle
  <2>2. InHand \subseteq InHand'
    BY <2>1 DEF InHand
  <2>3. QED
    BY <1>1, <2>2 DEF LettersInv, NothingForgotten
<1>10. OneSync'
  <2> SUFFICES ASSUME NEW u \in Tasks, NEW v \in Tasks, u # v,
                      sync'[u] # Idle, sync'[v] # Idle, sync'[u].to = sync'[v].to
               PROVE  sync'[u].to \in together'
    BY DEF OneSync
  <2>1. ASSUME NEW w \in Tasks, w # t, sync[w] # Idle, sync[w].to = a
        PROVE  a \in together'
    <3>1. sync[w].stage # "idle"
      BY <1>2, <2>1, SyncTypes
    <3>2. QED
      BY <1>1, <2>1, <3>1 DEF Busy
  <2>2. CASE u = t \/ v = t
    BY <1>4, <1>5, <2>1, <2>2
  <2>3. CASE u # t /\ v # t
    BY <1>5, <1>6, <2>3 DEF LettersInv, OneSync
  <2>4. QED
    BY <2>2, <2>3
<1>11. GivenOnce'
  <2>1. ASSUME NEW l \in give
        PROVE  handed[l] = 0 \/ l \in edge
    <3>1. l \in Letter /\ handed[l] \in 0..2 /\ l \notin delivered
      BY <1>2, <1>3 DEF LettersType
    <3>2. handed[l] > 0 => l \in edge
      BY <3>1 DEF LettersInv, GivenOnce
    <3>3. QED
      BY <3>1, <3>2
  <2>2. QED
    BY <1>1, <1>4, <1>5, <1>6, <2>1 DEF LettersInv, GivenOnce
<1>12. QED
  BY <1>7, <1>8, <1>9, <1>10, <1>11 DEF LettersInv

LEMMA MarkKeeps ==
    ASSUME LettersInv, NEW t \in Tasks, Mark(t)
    PROVE  LettersInv'
<1> DEFINE r == [sync[t] EXCEPT !.stage = "hand"]
<1>1. /\ sync[t].stage = "fetch" /\ sync' = [sync EXCEPT ![t] = r]
      /\ delivered' = delivered \cup sync[t].mark
      /\ UNCHANGED <<now, table, handed, cut, together, edge>>
  BY DEF Mark, MarkedBy, history
<1>2. LettersType /\ sync[t] \in SyncState /\ sync[t] # Idle
  BY <1>1, SyncTypes DEF LettersInv
<1>3. /\ r \in SyncState /\ r # Idle /\ r.to = sync[t].to /\ r.stage = "hand"
      /\ r.give = sync[t].give /\ r.mark = sync[t].mark
      /\ sync[t].mark \subseteq Letter
  BY <1>2 DEF SyncState, Idle
<1> HIDE DEF r
<1>4. sync'[t] = r /\ \A u \in Tasks : u # t => sync'[u] = sync[u]
  BY <1>1, <1>2 DEF LettersType
<1>5. LettersType'
  BY <1>1, <1>2, <1>3 DEF LettersType
<1>6. OwnLetters'
  <2>1. \A u \in Tasks : sync[u] # Idle =>
          /\ sync[u].mark \subseteq sync[u].give
          /\ \A l \in sync[u].give : l.to = sync[u].to
          /\ sync[u].stage = "hand" => sync[u].mark \subseteq delivered
    BY DEF LettersInv, OwnLetters
  <2>2. delivered \subseteq delivered' /\ sync[t].mark \subseteq delivered'
    BY <1>1
  <2>3. QED
    BY <1>2, <1>3, <1>4, <2>1, <2>2 DEF OwnLetters
<1>7. NothingForgotten'
  <2>1. InHand \subseteq InHand' /\ sync[t].give \subseteq InHand'
    BY <1>1, <1>3, <1>4 DEF InHand
  <2>2. sync[t].mark \subseteq sync[t].give
    BY <1>2 DEF LettersInv, OwnLetters
  <2>3. QED
    BY <1>1, <2>1, <2>2 DEF LettersInv, NothingForgotten
<1>8. OneSync'
  BY <1>1, <1>2, <1>3, <1>4 DEF LettersInv, OneSync
<1>9. GivenOnce'
  BY <1>1, <1>2, <1>3, <1>4 DEF LettersInv, GivenOnce
<1>10. QED
  BY <1>5, <1>6, <1>7, <1>8, <1>9 DEF LettersInv

\* What a marking that failed has marked is on record in cut.
LEMMA MarkFailsKeeps ==
    ASSUME LettersInv, NEW t \in Tasks, MarkFails(t)
    PROVE  LettersInv'
<1>1. /\ sync[t].stage = "fetch" /\ sync' = [sync EXCEPT ![t] = Idle]
      /\ UNCHANGED <<now, table, handed, together, edge>>
  BY DEF MarkFails
<1>2. PICK part \in SUBSET sync[t].mark :
         delivered' = delivered \cup part /\ cut' = cut \cup part
  BY DEF MarkFails, MarkedBy
<1>3. LettersType /\ sync[t] \in SyncState
  BY <1>1, SyncTypes DEF LettersInv
<1>4. sync'[t] = Idle /\ \A u \in Tasks : u # t => sync'[u] = sync[u]
  BY <1>1, <1>3 DEF LettersType
<1>5. LettersType'
  BY <1>1, <1>2, <1>3 DEF LettersType, SyncState
<1>6. OwnLetters'
  BY <1>1, <1>2, <1>4 DEF LettersInv, OwnLetters
<1>7. OneSync' /\ GivenOnce'
  BY <1>1, <1>2, <1>4 DEF LettersInv, OneSync, GivenOnce
<1>8. NothingForgotten'
  <2>1. \A u \in Tasks : sync[u].stage = "hand" => sync'[u] = sync[u]
    BY <1>1, <1>4
  <2>2. InHand \subseteq InHand'
    BY <2>1 DEF InHand
  <2>3. QED
    BY <1>1, <1>2, <2>2 DEF LettersInv, NothingForgotten
<1>9. QED
  BY <1>5, <1>6, <1>7, <1>8 DEF LettersInv

\* Letters are handed over: no other sync has those of an agent that has had
\* one sync at a time.
LEMMA HandKeeps ==
    ASSUME LettersInv, NEW t \in Tasks, Hand(t)
    PROVE  LettersInv'
<1> DEFINE give == sync[t].give
<1>1. /\ sync[t].stage = "hand" /\ sync' = [sync EXCEPT ![t] = Idle]
      /\ UNCHANGED <<now, table, delivered, together>>
  BY DEF Hand
<1>2. /\ LettersType /\ sync[t] \in SyncState /\ sync[t] # Idle /\ give \subseteq Letter
  BY <1>1, SyncTypes DEF LettersInv, SyncState
<1>3. sync'[t] = Idle /\ \A u \in Tasks : u # t => sync'[u] = sync[u]
  BY <1>1, <1>2 DEF LettersType
<1>4. OwnLetters' /\ OneSync'
  BY <1>1, <1>3 DEF LettersInv, OwnLetters, OneSync
<1>5. \/ /\ handed' = [l \in Letter |-> handed[l] +
                         IF l \in give /\ handed[l] < 2 THEN 1 ELSE 0]
         /\ edge' = edge \cup (give \ sync[t].mark) /\ cut' = cut
      \/ cut' = cut \cup give /\ handed' = handed /\ edge' = edge
  BY DEF Hand
<1>6. /\ handed' \in [Letter -> 0..2] /\ edge \subseteq edge' /\ cut \subseteq cut'
      /\ \A l \in Letter : handed[l] \in 0..2
                           /\ (l \notin give => handed'[l] = handed[l])
                           /\ (handed[l] > 0 => handed'[l] > 0)
      /\ \A l \in give : handed'[l] > 0 \/ l \in cut'
  BY <1>2, <1>5 DEF LettersType
<1>7. LettersType'
  BY <1>1, <1>2, <1>6 DEF LettersType
<1>8. NothingForgotten'
  <2>1. ASSUME NEW l \in InHand
        PROVE  l \in InHand' \/ l \in give
    <3>1. PICK u \in Tasks : sync[u].stage = "hand" /\ l \in sync[u].give
      BY DEF InHand
    <3>2. CASE u = t
      BY <3>1, <3>2
    <3>3. CASE u # t
      BY <1>3, <3>1, <3>3 DEF InHand
    <3>4. QED
      BY <3>2, <3>3
  <2>2. QED
    BY <1>1, <1>2, <1>6, <2>1 DEF LettersInv, LettersType, NothingForgotten
<1>9. ASSUME NEW l \in give, l.to \notin together, l \notin edge'
      PROVE  /\ handed'[l] \in {0, 1}
             /\ \A u \in Tasks : u # t /\ sync[u] # Idle => l \notin sync[u].give
  <2>1. handed[l] = 0 /\ l \in Letter
    BY <1>1, <1>2, <1>6, <1>9 DEF LettersInv, GivenOnce
  <2>2. \A u \in Tasks : u # t /\ sync[u] # Idle => l \notin sync[u].give
    BY <1>2, <1>9 DEF LettersInv, OwnLetters, OneSync
  <2>3. handed'[l] \in {0, 1}
    BY <1>5, <1>9, <2>1
  <2>4. QED
    BY <2>2, <2>3
<1>10. GivenOnce'
  <2> HIDE DEF give
  <2>1. ASSUME NEW u \in Tasks, sync'[u] # Idle, NEW l \in sync'[u].give,
               l.to \notin together, l \notin edge'
        PROVE  handed'[l] = 0
    <3>1. u # t /\ sync'[u] = sync[u] /\ sync[u] # Idle
      BY <1>3, <2>1
    <3>2. l \notin give
      BY <1>9, <2>1, <3>1
    <3>3. l \in Letter
      BY <1>2, <2>1, <3>1, SyncTypes DEF SyncState
    <3>4. QED
      BY <1>6, <2>1, <3>1, <3>2, <3>3 DEF LettersInv, GivenOnce
  <2>2. ASSUME NEW l \in Letter, handed'[l] > 0, l \notin edge'
        PROVE  l \in delivered
    <3>1. CASE l \in give
      <4>1. l \in sync[t].mark \/ handed'[l] = handed[l]
        BY <1>5, <2>2, <3>1 DEF give
      <4>2. l \in sync[t].mark => l \in delivered
        BY <1>1, <1>2 DEF LettersInv, OwnLetters
      <4>3. QED
        BY <1>6, <2>2, <4>1, <4>2 DEF LettersInv, GivenOnce
    <3>2. CASE l \notin give
      BY <1>6, <2>2, <3>2 DEF LettersInv, GivenOnce
    <3>3. QED
      BY <3>1, <3>2
  <2>3. ASSUME NEW l \in Letter, handed'[l] > 1, l \notin edge'
        PROVE  l.to \in together
    <3>1. CASE l \in give
      BY <1>9, <2>3, <3>1
    <3>2. CASE l \notin give
      BY <1>6, <2>3, <3>2 DEF LettersInv, GivenOnce
    <3>3. QED
      BY <3>1, <3>2
  <2>4. QED
    BY <1>1, <2>1, <2>2, <2>3 DEF GivenOnce
<1>11. QED
  BY <1>4, <1>7, <1>8, <1>10 DEF LettersInv

LEMMA LoseKeeps ==
    ASSUME LettersInv, NEW t \in Tasks, Lose(t)
    PROVE  LettersInv'
<1> DEFINE r == [sync[t] EXCEPT !.alive = FALSE]
<1>1. /\ sync[t] # Idle /\ sync' = [sync EXCEPT ![t] = r]
      /\ UNCHANGED <<now, table, delivered, handed, cut, together, edge>>
  BY DEF Lose, history
<1>2. LettersType /\ sync[t] \in SyncState
  BY <1>1, SyncTypes DEF LettersInv
<1>3. /\ r \in SyncState /\ r # Idle /\ r.to = sync[t].to /\ r.stage = sync[t].stage
      /\ r.give = sync[t].give /\ r.mark = sync[t].mark
  BY <1>2 DEF SyncState, Idle
<1> HIDE DEF r
<1>4. sync'[t] = r /\ \A u \in Tasks : u # t => sync'[u] = sync[u]
  BY <1>1, <1>2 DEF LettersType
<1>5. LettersType'
  BY <1>1, <1>2, <1>3 DEF LettersType
<1>6. OwnLetters' /\ OneSync' /\ GivenOnce'
  BY <1>1, <1>3, <1>4 DEF LettersInv, OwnLetters, OneSync, GivenOnce
<1>7. NothingForgotten'
  <2>1. \A u \in Tasks : sync'[u].stage = sync[u].stage
          /\ (sync[u].stage = "hand" => sync'[u].give = sync[u].give)
    BY <1>3, <1>4
  <2>2. InHand \subseteq InHand'
    BY <2>1 DEF InHand
  <2>3. QED
    BY <1>1, <2>2 DEF LettersInv, NothingForgotten
<1>8. QED
  BY <1>5, <1>6, <1>7 DEF LettersInv

LEMMA RestartKeeps ==
    ASSUME LettersInv, NEW P \in SUBSET Tasks, Restart(P)
    PROVE  LettersInv'
<1>1. /\ sync' = [t \in Tasks |-> IF t \in P THEN Idle ELSE sync[t]]
      /\ cut' = cut \cup UNION {sync[t].give : t \in {u \in P : sync[u].stage = "hand"}}
      /\ UNCHANGED <<now, table, delivered, handed, together, edge>>
  BY DEF Restart
<1>2. LettersType'
  BY <1>1 DEF LettersInv, LettersType
<1>3. OwnLetters' /\ OneSync' /\ GivenOnce'
  BY <1>1 DEF LettersInv, OwnLetters, OneSync, GivenOnce
<1>4. NothingForgotten'
  <2>1. ASSUME NEW l \in InHand
        PROVE  l \in InHand' \cup cut'
    <3>1. PICK u \in Tasks : sync[u].stage = "hand" /\ l \in sync[u].give
      BY DEF InHand
    <3>2. CASE u \in P
      BY <1>1, <3>1, <3>2
    <3>3. CASE u \notin P
      BY <1>1, <3>1, <3>3 DEF InHand
    <3>4. QED
      BY <3>2, <3>3
  <2>2. QED
    BY <1>1, <2>1 DEF LettersInv, NothingForgotten
<1>5. QED
  BY <1>2, <1>3, <1>4 DEF LettersInv

-----------------------------------------------------------------------------

LEMMA LettersInit == Init => LettersInv
<1> SUFFICES ASSUME Init PROVE LettersInv
  OBVIOUS
<1>1. LettersType
  BY DeadLettersAssumption DEF Init, LettersType
<1>2. OwnLetters /\ OneSync /\ NothingForgotten
  BY DEF Init, OwnLetters, OneSync, NothingForgotten
<1>3. GivenOnce
  BY DEF Init, GivenOnce
<1>4. QED
  BY <1>1, <1>2, <1>3 DEF LettersInv

LEMMA LettersStep == LettersInv /\ [Next]_vars => LettersInv'
<1> SUFFICES ASSUME LettersInv, [Next]_vars PROVE LettersInv'
  OBVIOUS
<1>1. LettersType /\ now \in Nat /\ now \in 1..MaxTime
  BY DEF LettersInv, LettersType
<1>2. ASSUME NEW a \in Agents, Heartbeat(a) PROVE LettersInv'
  BY <1>1, <1>2, OutsideKeeps DEF Heartbeat, LettersType
<1>3. ASSUME NEW a \in Agents, NEW b \in Bodies, Send(a, b) PROVE LettersInv'
  <2> DEFINE l == [to |-> a, body |-> b, at |-> now]
  <2>1. table' = table \cup {l} /\ UNCHANGED <<now, delivered, sync, history>>
    BY <1>3 DEF Send
  <2>2. l \in Letter
    BY <1>1 DEF Letter
  <2> HIDE DEF l
  <2>3. table' \subseteq Letter
    BY <1>1, <2>1, <2>2 DEF LettersType
  <2>4. QED
    BY <1>1, <2>1, <2>3, OutsideKeeps
<1>4. ASSUME NEW s \in Sessions, NEW a \in Agents, Subscribe(s, a) PROVE LettersInv'
  BY <1>4, StartKeeps DEF Subscribe, Tasks
<1>5. ASSUME NEW q \in Calls, NEW a \in Agents, CallSync(q, a) PROVE LettersInv'
  <2>1. PICK since \in 0..now : SyncStart(q, a, since)
    BY <1>5 DEF CallSync
  <2>2. q \in Tasks /\ since \in Nat
    BY <1>1 DEF Tasks
  <2>3. QED
    BY <2>1, <2>2, StartKeeps
<1>6. ASSUME NEW t \in Tasks, Mark(t) \/ MarkFails(t) \/ Hand(t) \/ Lose(t)
      PROVE  LettersInv'
  BY <1>6, MarkKeeps, MarkFailsKeeps, HandKeeps, LoseKeeps
<1>7. ASSUME NEW P \in {Sessions, Calls}, Restart(P) PROVE LettersInv'
  BY <1>7, RestartKeeps DEF Tasks
<1>8. CASE Tick
  <2>1. now' \in 1..MaxTime /\ UNCHANGED <<table, delivered, sync, history>>
    BY <1>1, <1>8, DeadLettersAssumption DEF Tick
  <2>2. QED
    BY <1>1, <2>1, OutsideKeeps DEF LettersType
<1>9. CASE UNCHANGED vars
  BY <1>1, <1>9, OutsideKeeps DEF vars, LettersType
<1>10. QED
  BY <1>2, <1>3, <1>4, <1>5, <1>6, <1>7, <1>8, <1>9 DEF Next

\* Whatever a sync marks it has read, and the marking is followed by handing
\* over, without a wait in between (sync_for_agent): so a row that is marked
\* is not lost, but by a crash or an error of SQLite at that moment or by writing
\* to a connection that is gone; whatever comes in while the sync waits for the relays.
THEOREM NothingForgottenHolds == Spec => []NothingForgotten
<1>1. LettersInv => NothingForgotten
  BY DEF LettersInv
<1>2. QED
  BY LettersInit, LettersStep, <1>1, PTL DEF Spec

\* A row that was handed over is marked, unless its time is the one the caller
\* names; so only a second sync that read the table before it was marked gives
\* it again.
THEOREM OnceUnlessTogetherHolds == Spec => []OnceUnlessTogether
<1>1. LettersInv => OnceUnlessTogether
  BY DEF LettersInv, GivenOnce, LettersType, OnceUnlessTogether
<1>2. QED
  BY LettersInit, LettersStep, <1>1, PTL DEF Spec
=============================================================================
