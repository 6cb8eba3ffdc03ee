---------------------------- MODULE Pbft_proofs ----------------------------
(***************************************************************************)
(* What the replicas of PBFT guarantee for any number of them, any window, *)
(* any requests and any number of view changes.                            *)
(***************************************************************************)
EXTENDS Pbft, SequenceTheorems, FiniteSetTheorems, TLAPS

AnyDigest == Digests \cup {NoDigest}

\* What replica s may have prepared: nothing in a view whose primary it is.
PrepareOf(s) == {NoPrepare} \cup
    {p \in [view: Nat, digest: AnyDigest] : p.view % N # s}

EntryShape == [view: Nat \cup {-1}, digest: AnyDigest,
               prepares: [Replicas -> [view: Nat \cup {-1}, digest: AnyDigest]],
               commits: [Replicas -> AnyDigest], executed: BOOLEAN]

EntryType == {e \in EntryShape :
    /\ \A s \in Replicas : e.prepares[s] \in PrepareOf(s)
    /\ e.digest # NoDigest => e.view \in Nat}

MessageType ==
    {m \in [type: {"pre_prepare", "prepare", "commit", "view_change"},
            view: Nat, n: Numbers, digest: AnyDigest, sender: Replicas] :
       m.type = "prepare" => m.view % N # m.sender}

InWindow == {n \in Numbers : n < Window}

StateType ==
    /\ queue \in Seq(MessageType)
    /\ turn \in Replicas
    /\ view \in [Replicas -> Nat]
    /\ seqNum \in [Replicas -> Nat]
    /\ lastExecuted \in [Replicas -> Nat \cup {-1}]
    /\ log \in [Replicas -> [Numbers -> EntryType]]
    /\ executed \in [Replicas -> Seq(InWindow \X AnyDigest)]

\* The inductive invariant: only numbers of the first window have an entry, so
\* that no execution is CheckpointInterval after the last checkpoint.
WindowInv ==
    /\ StateType
    /\ checkpoint = [r \in Replicas |-> 0]
    /\ \A r \in Replicas, n \in Numbers : Has(r, n) => n < Window

-----------------------------------------------------------------------------
(* Types of what the operators build *)

LEMMA Constants ==
    /\ 0 \in Replicas /\ 0 \in Numbers
    /\ \A v \in Nat : v % N \in Replicas
    /\ Replicas \subseteq Nat
  BY PbftAssumption DEF Replicas, Numbers

LEMMA EntryTyped ==
    ASSUME NEW v \in Nat \cup {-1}, NEW d \in AnyDigest, d = NoDigest \/ v \in Nat
    PROVE  Entry(v, d) \in EntryType
<1>1. NoPrepare \in [view: Nat \cup {-1}, digest: AnyDigest]
  BY DEF NoPrepare, AnyDigest
<1>2. Entry(v, d) \in EntryShape
  BY <1>1 DEF Entry, EntryShape, AnyDigest
<1>3. \A s \in Replicas : Entry(v, d).prepares[s] \in PrepareOf(s)
  BY DEF Entry, PrepareOf
<1>4. Entry(v, d).digest = d /\ Entry(v, d).view = v
  BY DEF Entry
<1>5. QED
  BY <1>2, <1>3, <1>4 DEF EntryType

\* An entry with one more prepare.
LEMMA PrepareTyped ==
    ASSUME NEW e \in EntryType, NEW s \in Replicas,
           NEW p \in PrepareOf(s), p # NoPrepare
    PROVE  LET new == [e EXCEPT !.prepares = [@ EXCEPT ![s] = p]]
           IN new \in EntryType /\ new.digest = e.digest /\ new.view = e.view
<1> DEFINE prep == [e.prepares EXCEPT ![s] = p]
           new  == [e EXCEPT !.prepares = prep]
<1>1. p \in [view: Nat \cup {-1}, digest: AnyDigest]
  BY DEF PrepareOf
<1>2. e \in EntryShape /\ \A q \in Replicas : e.prepares[q] \in PrepareOf(q)
  BY DEF EntryType
<1>3. prep \in [Replicas -> [view: Nat \cup {-1}, digest: AnyDigest]]
  BY <1>1, <1>2 DEF EntryShape
<1>4. new \in EntryShape /\ new.digest = e.digest /\ new.view = e.view
      /\ new.prepares = prep
  <2> HIDE DEF prep
  <2>1. QED
    BY <1>2, <1>3 DEF EntryShape
<1>5. \A q \in Replicas : prep[q] \in PrepareOf(q)
  BY <1>2 DEF EntryShape
<1>6. new \in EntryType
  BY <1>4, <1>5 DEF EntryType
<1>7. QED
  BY <1>4, <1>6

\* An entry with one more commit.
LEMMA CommitTyped ==
    ASSUME NEW e \in EntryType, NEW s \in Replicas, NEW d \in AnyDigest
    PROVE  LET new == [e EXCEPT !.commits = [@ EXCEPT ![s] = d]]
           IN /\ new \in EntryType
              /\ new.digest = e.digest
              /\ [new EXCEPT !.executed = TRUE] \in EntryType
              /\ [new EXCEPT !.executed = TRUE].digest = e.digest
<1> DEFINE com == [e.commits EXCEPT ![s] = d]
           new == [e EXCEPT !.commits = com]
           run == [new EXCEPT !.executed = TRUE]
<1>1. e \in EntryShape /\ (\A q \in Replicas : e.prepares[q] \in PrepareOf(q))
      /\ (e.digest # NoDigest => e.view \in Nat)
  BY DEF EntryType
<1>2. com \in [Replicas -> AnyDigest]
  BY <1>1 DEF EntryShape
<1>3. /\ new \in EntryShape /\ new.digest = e.digest /\ new.view = e.view
      /\ new.prepares = e.prepares
      /\ run \in EntryShape /\ run.digest = e.digest /\ run.view = e.view
      /\ run.prepares = e.prepares
  <2> HIDE DEF com
  <2>1. QED
    BY <1>1, <1>2 DEF EntryShape
<1>4. QED
  BY <1>1, <1>3 DEF EntryType

\* The entry of a replica after one of its numbers was given a new one.
LEMMA LogTyped ==
    ASSUME WindowInv, NEW r \in Replicas, NEW n \in Numbers, NEW e \in EntryType,
           n < Window, SetEntry(r, n, e)
    PROVE  /\ log' \in [Replicas -> [Numbers -> EntryType]]
           /\ \A q \in Replicas, k \in Numbers : log'[q][k].digest # NoDigest => k < Window
<1> DEFINE mine == [log[r] EXCEPT ![n] = e]
<1>1. log \in [Replicas -> [Numbers -> EntryType]]
      /\ \A q \in Replicas, k \in Numbers : log[q][k].digest # NoDigest => k < Window
  BY DEF WindowInv, StateType, Has
<1>2. log' = [log EXCEPT ![r] = mine]
  BY DEF SetEntry
<1>3. mine \in [Numbers -> EntryType]
      /\ \A k \in Numbers : mine[k].digest # NoDigest => k < Window
  BY <1>1
<1>4. QED
  <2> HIDE DEF mine
  <2>1. QED
    BY <1>1, <1>2, <1>3

\* Delivery goes on with messages that have their types.
LEMMA AdvanceTyped ==
    ASSUME WindowInv, queue # <<>>, NEW out \in Seq(MessageType), Advance(out)
    PROVE  queue' \in Seq(MessageType) /\ turn' \in Replicas
<1>1. Tail(queue) \in Seq(MessageType) /\ queue \in Seq(MessageType)
  BY DEF WindowInv, StateType
<1> DEFINE rest == IF turn = N - 1 THEN Tail(queue) ELSE queue
<1>2. rest \in Seq(MessageType) /\ queue' = rest \o out
  BY <1>1 DEF Advance
<1>3. queue' \in Seq(MessageType)
  <2> HIDE DEF rest
  <2>1. QED
    BY <1>2, ConcatProperties
<1>4. turn + 1 \in Nat /\ turn' = (turn + 1) % N
  BY DEF WindowInv, StateType, Advance, Replicas
<1>5. QED
  BY <1>3, <1>4, Constants

\* The first message of the queue has its type.
LEMMA HeadTyped ==
    ASSUME WindowInv, queue # <<>>
    PROVE  LET m == queue[1]
           IN /\ m \in MessageType /\ m.n \in Numbers /\ m.n \in Nat
              /\ m.view \in Nat /\ m.digest \in AnyDigest /\ m.sender \in Replicas
<1>1. queue[1] \in MessageType
  BY DEF WindowInv, StateType
<1>2. Numbers \subseteq Nat
  BY PbftAssumption DEF Numbers
<1>3. QED
  BY <1>1, <1>2 DEF MessageType

LEMMA MessageTyped ==
    ASSUME NEW type \in {"pre_prepare", "prepare", "commit", "view_change"},
           NEW v \in Nat, NEW n \in Numbers, NEW d \in AnyDigest,
           NEW s \in Replicas, type = "prepare" => v % N # s
    PROVE  Message(type, v, n, d, s) \in MessageType
  BY DEF Message, MessageType
-----------------------------------------------------------------------------
(* The inductive invariant *)

LEMMA WindowInit == Init => WindowInv
<1> SUFFICES ASSUME Init PROVE WindowInv
  OBVIOUS
<1>1. Absent \in EntryType /\ Absent.digest = NoDigest
  BY EntryTyped DEF Absent, AnyDigest, Entry
<1>2. queue \in Seq(MessageType) /\ turn \in Replicas
  BY Constants DEF Init
<1>3. view \in [Replicas -> Nat] /\ seqNum \in [Replicas -> Nat]
      /\ lastExecuted \in [Replicas -> Nat \cup {-1}]
  BY DEF Init
<1>4. log \in [Replicas -> [Numbers -> EntryType]]
      /\ \A r \in Replicas, n \in Numbers : ~Has(r, n)
  BY <1>1 DEF Init, Has
<1>5. executed \in [Replicas -> Seq(InWindow \X AnyDigest)]
  BY DEF Init
<1>6. checkpoint = [r \in Replicas |-> 0]
  BY DEF Init
<1>7. QED
  BY <1>2, <1>3, <1>4, <1>5, <1>6 DEF WindowInv, StateType

\* A step that gives one number of one replica a new entry, and changes no
\* view, number or history.
LEMMA EntryStep ==
    ASSUME WindowInv, NEW r \in Replicas, NEW n \in Numbers, NEW e \in EntryType,
           n < Window, SetEntry(r, n, e), queue # <<>>,
           NEW out \in Seq(MessageType), Advance(out),
           UNCHANGED <<view, seqNum, lastExecuted, checkpoint, executed>>
    PROVE  WindowInv'
<1>1. queue' \in Seq(MessageType) /\ turn' \in Replicas
  BY AdvanceTyped
<1>2. /\ log' \in [Replicas -> [Numbers -> EntryType]]
      /\ \A q \in Replicas, k \in Numbers : log'[q][k].digest # NoDigest => k < Window
  BY LogTyped
<1>3. QED
  BY <1>1, <1>2 DEF WindowInv, StateType, Has

LEMMA RequestStep ==
    ASSUME WindowInv, NEW r \in Replicas, NEW d \in Digests, HandleRequest(r, d)
    PROVE  WindowInv'
<1> DEFINE n == seqNum[r]
<1>1. /\ queue \in Seq(MessageType) /\ turn \in Replicas /\ view[r] \in Nat
      /\ n \in Numbers /\ n \in Nat /\ checkpoint[r] = 0 /\ d \in AnyDigest
  BY DEF HandleRequest, WindowInv, StateType, AnyDigest
<1>2. n < Window
  BY <1>1, PbftAssumption DEF HandleRequest, HighWater
<1>3. OwnEntry(r, d) \in EntryType
  BY <1>1, EntryTyped DEF OwnEntry
<1>4. SetEntry(r, n, OwnEntry(r, d))
  BY DEF HandleRequest, SetEntry
<1>5. /\ log' \in [Replicas -> [Numbers -> EntryType]]
      /\ \A q \in Replicas, k \in Numbers : log'[q][k].digest # NoDigest => k < Window
  <2> HIDE DEF n
  <2>1. QED
    BY <1>1, <1>2, <1>3, <1>4, LogTyped
<1>6. Message("pre_prepare", view[r], n, d, r) \in MessageType
  BY <1>1, MessageTyped
<1>7. queue' \in Seq(MessageType)
  BY <1>1, <1>6 DEF HandleRequest
<1>8. seqNum' \in [Replicas -> Nat]
  BY <1>1 DEF HandleRequest, WindowInv, StateType
<1>9. UNCHANGED <<turn, view, lastExecuted, checkpoint, executed>>
  BY DEF HandleRequest
<1>10. QED
  BY <1>1, <1>5, <1>7, <1>8, <1>9 DEF WindowInv, StateType, Has

LEMMA StartViewChangeStep ==
    ASSUME WindowInv, NEW r \in Replicas, StartViewChange(r)
    PROVE  WindowInv'
<1>1. queue \in Seq(MessageType) /\ view[r] + 1 \in Nat
  BY DEF WindowInv, StateType
<1>2. Message("view_change", view[r] + 1, 0, NoDigest, r) \in MessageType
  BY <1>1, MessageTyped, Constants DEF AnyDigest
<1>3. queue' \in Seq(MessageType)
  BY <1>1, <1>2 DEF StartViewChange
<1>4. UNCHANGED <<turn, view, seqNum, lastExecuted, log, checkpoint, executed>>
  BY DEF StartViewChange
<1>5. QED
  BY <1>3, <1>4 DEF WindowInv, StateType, Has

\* The COMMIT that _send_commit broadcasts, and the entry it leaves.
LEMMA CommitSent ==
    ASSUME WindowInv, NEW r \in Replicas, NEW n \in Numbers, NEW e \in EntryType
    PROVE  WithCommit(r, e) \in EntryType /\ Commit(r, n, e) \in MessageType
<1>1. e.digest \in AnyDigest /\ view[r] \in Nat
  BY DEF EntryType, EntryShape, WindowInv, StateType
<1>2. WithCommit(r, e) \in EntryType
  BY <1>1, CommitTyped DEF WithCommit
<1>3. Commit(r, n, e) \in MessageType
  BY <1>1, MessageTyped DEF Commit
<1>4. QED
  BY <1>2, <1>3

LEMMA PrePrepareStep ==
    ASSUME WindowInv, queue # <<>>, HandlePrePrepare(turn, queue[1])
    PROVE  WindowInv'
<1> DEFINE r   == turn
           m   == queue[1]
           own == [view |-> view[r], digest |-> m.digest]
           e   == [EntryFor(r, m) EXCEPT !.prepares = [@ EXCEPT ![r] = own]]
           msg == Message("prepare", view[r], m.n, m.digest, r)
<1>1. /\ r \in Replicas /\ m \in MessageType /\ view[r] \in Nat /\ m.n \in Numbers
      /\ m.n \in Nat /\ m.view \in Nat /\ m.digest \in AnyDigest /\ checkpoint[r] = 0
  BY HeadTyped DEF WindowInv, StateType
<1>2. m.n < Window /\ view[r] % N # r
  BY <1>1, PbftAssumption DEF HandlePrePrepare, AcceptsPrePrepare, HighWater, IsPrimary
<1>3. EntryFor(r, m) \in EntryType
  BY <1>1, EntryTyped DEF EntryFor, WindowInv, StateType
<1>4. own \in PrepareOf(r) /\ own # NoPrepare
  BY <1>1, <1>2 DEF PrepareOf, NoPrepare
<1>5. e \in EntryType
  <2> HIDE DEF own, r, m
  <2>1. QED
    BY <1>1, <1>3, <1>4, PrepareTyped
<1>6. msg \in MessageType
  BY <1>1, <1>2, MessageTyped
<1>7. WithCommit(r, e) \in EntryType /\ Commit(r, m.n, e) \in MessageType
  <2> HIDE DEF e
  <2>1. QED
    BY <1>1, <1>5, CommitSent
<1>8. /\ <<msg>> \in Seq(MessageType)
      /\ Append(<<msg>>, Commit(r, m.n, e)) \in Seq(MessageType)
  <2> HIDE DEF msg, e, r, m
  <2>1. QED
    BY <1>6, <1>7
<1>9. UNCHANGED <<view, seqNum, lastExecuted, checkpoint, executed>>
  BY DEF HandlePrePrepare
<1>10. \/ /\ SetEntry(r, m.n, WithCommit(r, e))
          /\ Advance(Append(<<msg>>, Commit(r, m.n, e)))
       \/ SetEntry(r, m.n, e) /\ Advance(<<msg>>)
  BY DEF HandlePrePrepare
<1>11. QED
  <2> HIDE DEF e, msg, r, m
  <2>1. CASE /\ SetEntry(r, m.n, WithCommit(r, e))
             /\ Advance(Append(<<msg>>, Commit(r, m.n, e)))
    BY <2>1, <1>1, <1>2, <1>7, <1>8, <1>9, EntryStep
  <2>2. CASE SetEntry(r, m.n, e) /\ Advance(<<msg>>)
    BY <2>2, <1>1, <1>2, <1>5, <1>8, <1>9, EntryStep
  <2>3. QED
    BY <1>10, <2>1, <2>2

LEMMA PrepareStep ==
    ASSUME WindowInv, queue # <<>>, HandlePrepare(turn, queue[1])
    PROVE  WindowInv'
<1> DEFINE r    == turn
           m    == queue[1]
           sent == [view |-> m.view, digest |-> m.digest]
           e    == [log[r][m.n] EXCEPT !.prepares = [@ EXCEPT ![m.sender] = sent]]
<1>1. /\ r \in Replicas /\ m \in MessageType /\ m.n \in Numbers /\ m.view \in Nat
      /\ m.digest \in AnyDigest /\ m.sender \in Replicas /\ log[r][m.n] \in EntryType
  BY HeadTyped DEF WindowInv, StateType
<1>2. m.n < Window
  BY <1>1 DEF HandlePrepare, WindowInv
<1>3. m.view % N # m.sender
  BY <1>1 DEF HandlePrepare, Receives, MessageType
<1>4. sent \in PrepareOf(m.sender) /\ sent # NoPrepare
  BY <1>1, <1>3 DEF PrepareOf, NoPrepare
<1>5. e \in EntryType
  <2> HIDE DEF sent, r, m
  <2>1. QED
    BY <1>1, <1>4, PrepareTyped
<1>6. WithCommit(r, e) \in EntryType /\ Commit(r, m.n, e) \in MessageType
  <2> HIDE DEF e
  <2>1. QED
    BY <1>1, <1>5, CommitSent
<1>7. <<Commit(r, m.n, e)>> \in Seq(MessageType) /\ <<>> \in Seq(MessageType)
  <2> HIDE DEF e, r, m
  <2>1. QED
    BY <1>6
<1>8. UNCHANGED <<view, seqNum, lastExecuted, checkpoint, executed>>
  BY DEF HandlePrepare
<1>9. \/ SetEntry(r, m.n, WithCommit(r, e)) /\ Advance(<<Commit(r, m.n, e)>>)
      \/ SetEntry(r, m.n, e) /\ Advance(<<>>)
  BY DEF HandlePrepare
<1>10. QED
  <2> HIDE DEF e, r, m
  <2>1. CASE SetEntry(r, m.n, WithCommit(r, e)) /\ Advance(<<Commit(r, m.n, e)>>)
    BY <2>1, <1>1, <1>2, <1>6, <1>7, <1>8, EntryStep
  <2>2. CASE SetEntry(r, m.n, e) /\ Advance(<<>>)
    BY <2>2, <1>1, <1>2, <1>5, <1>7, <1>8, EntryStep
  <2>3. QED
    BY <1>9, <2>1, <2>2

\* No number of the first window is CheckpointInterval after number 0.
LEMMA CheckpointNotDue ==
    ASSUME WindowInv, NEW r \in Replicas, NEW n \in Numbers, n < Window
    PROVE  ~CheckpointDue(r, n)
<1>1. checkpoint[r] = 0 /\ n \in Nat
  BY PbftAssumption DEF WindowInv, Numbers
<1>2. QED
  BY <1>1, PbftAssumption DEF CheckpointDue

LEMMA CommitStep ==
    ASSUME WindowInv, queue # <<>>, HandleCommit(turn, queue[1])
    PROVE  WindowInv'
<1> DEFINE r == turn
           m == queue[1]
           e == [log[r][m.n] EXCEPT !.commits = [@ EXCEPT ![m.sender] = m.digest]]
           done == [e EXCEPT !.executed = TRUE]
<1>1. /\ r \in Replicas /\ m.n \in Numbers /\ m.n \in Nat
      /\ m.digest \in AnyDigest /\ m.sender \in Replicas /\ log[r][m.n] \in EntryType
  BY HeadTyped DEF WindowInv, StateType
<1>2. m.n < Window
  BY <1>1 DEF HandleCommit, WindowInv
<1>3. e \in EntryType /\ done \in EntryType
  <2> HIDE DEF r, m
  <2>1. QED
    BY <1>1, CommitTyped
<1>4. /\ Advance(<<>>) /\ <<>> \in Seq(MessageType)
      /\ UNCHANGED <<view, seqNum>>
  BY DEF HandleCommit
<1>5. CASE Execute(r, m.n, e)
  <2> HIDE DEF e, r, m
  <2>1. ~CheckpointDue(r, m.n)
    BY <1>1, <1>2, CheckpointNotDue
  <2>2. UNCHANGED checkpoint /\ SetEntry(r, m.n, done)
    BY <1>5, <2>1 DEF Execute, SetEntry
  <2>3. queue' \in Seq(MessageType) /\ turn' \in Replicas
    BY <1>4, AdvanceTyped
  <2>4. /\ log' \in [Replicas -> [Numbers -> EntryType]]
        /\ \A q \in Replicas, k \in Numbers : log'[q][k].digest # NoDigest => k < Window
    <3> HIDE DEF done
    <3>1. QED
      BY <1>1, <1>2, <1>3, <2>2, LogTyped
  <2>5. <<m.n, e.digest>> \in InWindow \X AnyDigest
    BY <1>1, <1>2, <1>3 DEF InWindow, EntryType, EntryShape
  <2>6. executed' \in [Replicas -> Seq(InWindow \X AnyDigest)]
    <3>1. executed' = [executed EXCEPT ![r] = Append(executed[r], <<m.n, e.digest>>)]
      BY <1>5 DEF Execute
    <3>2. executed \in [Replicas -> Seq(InWindow \X AnyDigest)]
      BY DEF WindowInv, StateType
    <3>3. Append(executed[r], <<m.n, e.digest>>) \in Seq(InWindow \X AnyDigest)
      BY <1>1, <2>5, <3>2, AppendProperties
    <3>4. QED
      BY <3>1, <3>2, <3>3
  <2>7. lastExecuted' \in [Replicas -> Nat \cup {-1}]
    BY <1>1, <1>5 DEF Execute, WindowInv, StateType
  <2>8. QED
    BY <1>4, <2>2, <2>3, <2>4, <2>6, <2>7 DEF WindowInv, StateType, Has
<1>6. CASE SetEntry(r, m.n, e) /\ UNCHANGED <<lastExecuted, checkpoint, executed>>
  <2> HIDE DEF e, r, m
  <2>1. QED
    BY <1>1, <1>2, <1>3, <1>4, <1>6, EntryStep
<1>7. QED
  BY <1>5, <1>6 DEF HandleCommit

LEMMA ViewChangeStep ==
    ASSUME WindowInv, queue # <<>>, HandleViewChange(turn, queue[1])
    PROVE  WindowInv'
<1>1. /\ turn \in Replicas /\ queue[1].view \in Nat
      /\ view \in [Replicas -> Nat] /\ seqNum \in [Replicas -> Nat]
      /\ lastExecuted[turn] + 1 \in Nat
  <2>1. turn \in Replicas /\ lastExecuted \in [Replicas -> Nat \cup {-1}]
    BY DEF WindowInv, StateType
  <2>2. lastExecuted[turn] \in Nat \/ lastExecuted[turn] = -1
    BY <2>1
  <2>3. lastExecuted[turn] + 1 \in Nat
    BY <2>2
  <2>4. view \in [Replicas -> Nat] /\ seqNum \in [Replicas -> Nat]
    BY DEF WindowInv, StateType
  <2>5. queue[1].view \in Nat
    BY HeadTyped
  <2>6. QED
    BY <2>1, <2>3, <2>4, <2>5
<1>2. view' \in [Replicas -> Nat] /\ seqNum' \in [Replicas -> Nat]
  BY <1>1 DEF HandleViewChange, FirstNumber
<1>3. queue' \in Seq(MessageType) /\ turn' \in Replicas
  <2>1. Advance(<<>>) /\ <<>> \in Seq(MessageType)
    BY DEF HandleViewChange
  <2>2. QED
    BY <2>1, AdvanceTyped
<1>4. UNCHANGED <<lastExecuted, log, checkpoint, executed>>
  BY DEF HandleViewChange
<1>5. QED
  BY <1>2, <1>3, <1>4 DEF WindowInv, StateType, Has

LEMMA WindowStep == WindowInv /\ [Next]_vars => WindowInv'
<1> SUFFICES ASSUME WindowInv, [Next]_vars PROVE WindowInv'
  OBVIOUS
<1>1. CASE \E r \in Replicas, d \in Digests : HandleRequest(r, d)
  BY <1>1, RequestStep
<1>2. CASE \E r \in Replicas : StartViewChange(r)
  BY <1>2, StartViewChangeStep
<1>3. CASE Deliver
  <2>1. queue # <<>>
    BY <1>3 DEF Deliver
  <2>2. CASE HandlePrePrepare(turn, queue[1])
    BY <2>1, <2>2, PrePrepareStep
  <2>3. CASE HandlePrepare(turn, queue[1])
    BY <2>1, <2>3, PrepareStep
  <2>4. CASE HandleCommit(turn, queue[1])
    BY <2>1, <2>4, CommitStep
  <2>5. CASE HandleViewChange(turn, queue[1])
    BY <2>1, <2>5, ViewChangeStep
  <2>6. CASE Ignore
    <3>1. Advance(<<>>) /\ <<>> \in Seq(MessageType)
      BY <2>6 DEF Ignore
    <3>2. queue' \in Seq(MessageType) /\ turn' \in Replicas
      BY <2>1, <3>1, AdvanceTyped
    <3>3. UNCHANGED <<view, seqNum, lastExecuted, log, checkpoint, executed>>
      BY <2>6 DEF Ignore
    <3>4. QED
      BY <3>2, <3>3 DEF WindowInv, StateType, Has
  <2>7. QED
    BY <1>3, <2>2, <2>3, <2>4, <2>5, <2>6 DEF Deliver
<1>4. CASE UNCHANGED vars
  BY <1>4 DEF vars, WindowInv, StateType, Has
<1>5. QED
  BY <1>1, <1>2, <1>3, <1>4 DEF Next

LEMMA WindowInvariant == Spec => []WindowInv
  BY WindowInit, WindowStep, PTL DEF Spec

-----------------------------------------------------------------------------
(* View changes *)

VoteAt(k) == queue[k].type = "view_change"

\* The vote of s is in the queue and has not been delivered to r yet.
Awaits(r, s) ==
    \E k \in DOMAIN queue : /\ VoteAt(k) /\ queue[k].sender = s /\ s # r
                            /\ k = 1 => r >= turn

Voter(s, top) == s \in votes[s][top]

\* Replica r completed the quorum for view top with its own vote.
Lags(r, top) == view[r] < top /\ Voter(r, top) /\ Cardinality(votes[r][top]) = Quorum

VotesType ==
    /\ votes \in [Replicas -> [Views -> SUBSET Replicas]]
    /\ active \subseteq Replicas
    /\ draining \in BOOLEAN
    /\ draining => queue # <<>>
    /\ ~draining => turn = 0

\* All votes in the queue are for view top, the highest voted for, one of each
\* replica at most.
Ballots(top) ==
    /\ \A k \in DOMAIN queue : VoteAt(k) =>
         /\ queue[k].view = top /\ top > 0 /\ Voter(queue[k].sender, top)
         /\ \A j \in DOMAIN queue : VoteAt(j) /\ queue[j].sender = queue[k].sender => j = k
    /\ \A r \in Replicas, v \in Views : v > top => votes[r][v] = {}

\* Between deliveries there are votes in the queue only for a view that nobody
\* has entered.
Calm(top) ==
    ~draining /\ (\E k \in DOMAIN queue : VoteAt(k)) => \A r \in Replicas : view[r] < top

\* A replica has the vote of another one, or awaits it.
Counted(top) ==
    \A r, s \in Replicas : r # s =>
        /\ s \in votes[r][top] => Voter(s, top) /\ ~Awaits(r, s)
        /\ Voter(s, top) => s \in votes[r][top] \/ Awaits(r, s)

\* The replicas in view top have a quorum for it, the others have none, or have
\* completed it with their own vote.
Entered(top) ==
    \A r \in Replicas :
        /\ view[r] <= top
        /\ view[r] = top => r \notin active /\ (top = 0 \/ Cardinality(votes[r][top]) >= Quorum)
        /\ view[r] < top => Cardinality(votes[r][top]) < Quorum \/ Lags(r, top)
        /\ Voter(r, top) => view[r] >= top - 1 /\ (view[r] < top => r \in active)

\* Of two that have completed the quorum, each awaits the vote of the other.
LastVoter(top) ==
    \A r, q \in Replicas : r # q /\ Lags(r, top) /\ Lags(q, top) => Awaits(q, r)

\* One replica at most lags behind the view before, which it cannot leave.
Behind(top) ==
    \A r \in Replicas : view[r] < top - 1 =>
        /\ r \in active /\ Cardinality(votes[r][top - 1]) = Quorum
        /\ \A q \in Replicas \ {r} : view[q] >= top - 1

LagAt(top) == /\ Ballots(top) /\ Calm(top) /\ Counted(top) /\ Entered(top)
              /\ LastVoter(top) /\ Behind(top)

LagInv == VotesType /\ \E top \in Views : LagAt(top)

LEMMA QuorumNumber == Quorum \in Nat /\ Quorum >= 1
BY PbftAssumption DEF Quorum, f

LEMMA ReplicaSets ==
    ASSUME NEW S \in SUBSET Replicas
    PROVE  /\ IsFiniteSet(S) /\ Cardinality(S) \in Nat
           /\ \A T \in SUBSET S : Cardinality(T) <= Cardinality(S)
           /\ \A r \in Replicas \ S : Cardinality(S \cup {r}) = Cardinality(S) + 1
<1>1. N - 1 \in Int
  BY PbftAssumption
<1>2. IsFiniteSet(Replicas)
  BY <1>1, FS_Interval DEF Replicas
<1>3. IsFiniteSet(S)
  BY <1>2, FS_Subset
<1>4. QED
  BY <1>3, FS_CardinalityType, FS_Subset, FS_AddElement

\* What delivery does to the queue: the first message leaves it after the last
\* replica's turn, and no vote comes.
LEMMA QueueAdvances ==
    ASSUME WindowInv, queue # <<>>, NEW out \in Seq(MessageType), Advance(out),
           \A k \in DOMAIN out : out[k].type # "view_change"
    PROVE  LET d == IF turn = N - 1 THEN 1 ELSE 0 IN
           /\ \A k \in DOMAIN queue' : VoteAt(k)' =>
                k \in Nat /\ k >= 1 /\ k + d \in DOMAIN queue /\ queue'[k] = queue[k + d]
           /\ \A j \in DOMAIN queue : j > d =>
                j \in Nat /\ j - d \in DOMAIN queue' /\ queue'[j - d] = queue[j]
           /\ turn' = IF turn = N - 1 THEN 0 ELSE turn + 1
<1> DEFINE d == IF turn = N - 1 THEN 1 ELSE 0
           rest == IF turn = N - 1 THEN Tail(queue) ELSE queue
<1>1. queue \in Seq(MessageType) /\ Len(queue) \in Nat /\ Len(queue) >= 1
      /\ DOMAIN queue = 1..Len(queue) /\ turn \in 0..(N - 1)
  BY DEF WindowInv, StateType, Replicas
<1>2. queue' = rest \o out
  BY DEF Advance
<1>3. /\ rest \in Seq(MessageType) /\ Len(rest) = Len(queue) - d
      /\ \A k \in 1..(Len(queue) - d) : rest[k] = queue[k + d]
  <2>1. CASE turn = N - 1
    BY <1>1, <2>1
  <2>2. CASE turn # N - 1
    BY <1>1, <2>2
  <2>3. QED
    BY <2>1, <2>2
<1>4. d \in {0, 1}
  OBVIOUS
<1> HIDE DEF rest, d
<1>5. /\ queue' \in Seq(MessageType) /\ Len(queue') = Len(rest) + Len(out)
      /\ \A k \in 1..(Len(rest) + Len(out)) :
           queue'[k] = IF k <= Len(rest) THEN rest[k] ELSE out[k - Len(rest)]
  BY <1>2, <1>3, ConcatProperties
<1>6. Len(out) \in Nat /\ DOMAIN out = 1..Len(out) /\ DOMAIN queue' = 1..Len(queue')
  BY <1>5
<1>7. ASSUME NEW k \in DOMAIN queue', VoteAt(k)'
      PROVE  k \in Nat /\ k >= 1 /\ k + d \in DOMAIN queue /\ queue'[k] = queue[k + d]
  <2>1. k \in 1..(Len(rest) + Len(out))
    BY <1>5, <1>6
  <2>2. CASE k <= Len(rest)
    BY <1>1, <1>3, <1>4, <1>5, <2>1, <2>2
  <2>3. CASE k > Len(rest)
    <3>1. k - Len(rest) \in DOMAIN out
      BY <1>1, <1>3, <1>4, <1>6, <2>1, <2>3
    <3>2. queue'[k] = out[k - Len(rest)]
      <4>1. ~(k <= Len(rest))
        BY <1>1, <1>3, <1>4, <2>1, <2>3
      <4>2. QED
        BY <1>5, <2>1, <4>1
    <3>3. QED
      BY <1>7, <3>1, <3>2 DEF VoteAt
  <2>4. QED
    BY <1>1, <1>3, <1>4, <2>1, <2>2, <2>3
<1>8. ASSUME NEW j \in DOMAIN queue, j > d
      PROVE  j \in Nat /\ j - d \in DOMAIN queue' /\ queue'[j - d] = queue[j]
  <2>1. j \in Nat /\ j - d \in 1..(Len(queue) - d)
    BY <1>1, <1>4, <1>8
  <2>2. rest[j - d] = queue[j]
    BY <1>3, <1>4, <2>1
  <2>3. j - d \in 1..(Len(rest) + Len(out)) /\ j - d <= Len(rest)
    BY <1>1, <1>3, <1>4, <1>6, <2>1
  <2>4. QED
    BY <1>5, <1>6, <2>1, <2>2, <2>3
<1>9. turn' = IF turn = N - 1 THEN 0 ELSE turn + 1
  <2>1. turn' = (turn + 1) % N
    BY DEF Advance
  <2>2. CASE turn = N - 1
    BY <2>1, <2>2, PbftAssumption
  <2>3. CASE turn # N - 1
    BY <1>1, <2>1, <2>3, PbftAssumption
  <2>4. QED
    BY <2>2, <2>3
<1>10. QED
  BY <1>7, <1>8, <1>9 DEF d

\* The replica whose turn it is gets the vote at the head of the queue, and
\* nobody else gets any.
LEMMA AwaitsAdvances ==
    ASSUME WindowInv, queue # <<>>, NEW out \in Seq(MessageType), Advance(out),
           \A k \in DOMAIN out : out[k].type # "view_change",
           NEW top \in Views, Ballots(top)
    PROVE  \A r \in Replicas : \A s :
             Awaits(r, s)' <=> /\ Awaits(r, s)
                               /\ ~(r = turn /\ VoteAt(1) /\ queue[1].sender = s)
<1> DEFINE d == IF turn = N - 1 THEN 1 ELSE 0
<1>1. /\ \A k \in DOMAIN queue' : VoteAt(k)' =>
           k \in Nat /\ k >= 1 /\ k + d \in DOMAIN queue /\ queue'[k] = queue[k + d]
      /\ \A j \in DOMAIN queue : j > d =>
           j \in Nat /\ j - d \in DOMAIN queue' /\ queue'[j - d] = queue[j]
      /\ turn' = IF turn = N - 1 THEN 0 ELSE turn + 1
  BY QueueAdvances
<1>2. queue \in Seq(MessageType) /\ DOMAIN queue = 1..Len(queue) /\ Len(queue) \in Nat
      /\ 1 \in DOMAIN queue /\ turn \in Nat /\ turn <= N - 1 /\ N \in Nat
  BY PbftAssumption DEF WindowInv, StateType, Replicas
<1>3. ASSUME NEW r \in Replicas, NEW s, Awaits(r, s)'
      PROVE  Awaits(r, s) /\ ~(r = turn /\ VoteAt(1) /\ queue[1].sender = s)
  <2>1. PICK k \in DOMAIN queue' : /\ VoteAt(k)' /\ queue'[k].sender = s /\ s # r
                                   /\ k = 1 => r >= turn'
    BY <1>3 DEF Awaits, VoteAt
  <2> DEFINE j == k + d
  <2>2. /\ k \in Nat /\ k >= 1 /\ j \in DOMAIN queue /\ VoteAt(j) /\ queue[j].sender = s
        /\ r \in Nat
    BY <1>1, <2>1 DEF VoteAt, Replicas
  <2>3. j = 1 => k = 1 /\ turn # N - 1 /\ r >= turn + 1
    BY <1>1, <2>1, <2>2
  <2>4. j = 1 => r >= turn /\ r # turn
    BY <1>2, <2>2, <2>3
  <2> HIDE DEF j, d
  <2>5. Awaits(r, s)
    BY <2>1, <2>2, <2>4 DEF Awaits
  <2>6. VoteAt(1) /\ queue[1].sender = s => j = 1
    BY <1>2, <2>2 DEF Ballots
  <2>7. QED
    BY <2>4, <2>5, <2>6
<1>4. ASSUME NEW r \in Replicas, NEW s, Awaits(r, s),
             ~(r = turn /\ VoteAt(1) /\ queue[1].sender = s)
      PROVE  Awaits(r, s)'
  <2>1. PICK j \in DOMAIN queue : /\ VoteAt(j) /\ queue[j].sender = s /\ s # r
                                  /\ j = 1 => r >= turn
    BY <1>4 DEF Awaits
  <2>2. j \in Nat /\ j >= 1 /\ r \in Nat /\ r <= N - 1
    BY <1>2 DEF Replicas
  <2>3. j = 1 => r # turn
    BY <1>4, <2>1
  <2>4. j > d
    BY <1>2, <2>1, <2>2, <2>3
  <2>5. j - d \in DOMAIN queue' /\ queue'[j - d] = queue[j]
    BY <1>1, <2>4
  <2>6. j - d = 1 => r >= turn'
    BY <1>1, <1>2, <2>1, <2>2, <2>3
  <2> HIDE DEF d
  <2>7. QED
    BY <2>1, <2>5, <2>6 DEF Awaits, VoteAt
<1>5. QED
  BY <1>3, <1>4

\* The votes that stay in the queue.
LEMMA BallotsAdvance ==
    ASSUME WindowInv, queue # <<>>, NEW out \in Seq(MessageType), Advance(out),
           \A k \in DOMAIN out : out[k].type # "view_change",
           NEW top \in Views, Ballots(top),
           \A s \in Replicas : Voter(s, top) => Voter(s, top)',
           \A r \in Replicas, v \in Views : v > top => votes'[r][v] = {}
    PROVE  Ballots(top)' /\ Calm(top)' /\ draining' \in BOOLEAN
           /\ (draining' => queue' # <<>>) /\ (~draining' => turn' = 0)
<1> DEFINE d == IF turn = N - 1 THEN 1 ELSE 0
<1>1. \A k \in DOMAIN queue' : VoteAt(k)' =>
        k \in Nat /\ k >= 1 /\ k + d \in DOMAIN queue /\ queue'[k] = queue[k + d]
  BY QueueAdvances
<1>2. /\ \A j \in DOMAIN queue : j > d => j - d \in DOMAIN queue'
      /\ turn' = IF turn = N - 1 THEN 0 ELSE turn + 1
  BY QueueAdvances
<1>3. d \in {0, 1}
  OBVIOUS
<1>4. queue \in Seq(MessageType) /\ 1 \in DOMAIN queue
  BY DEF WindowInv, StateType
<1>5. ~draining' => turn' = 0
  <2>1. draining' = (queue' # <<>>)
    BY DEF Advance
  <2>2. turn # N - 1 => queue' # <<>>
    BY <1>2, <1>4
  <2>3. QED
    BY <1>2, <2>1, <2>2
<1>6. draining' = (queue' # <<>>)
  BY DEF Advance
<1> HIDE DEF d
<1>7. ASSUME NEW k \in DOMAIN queue', VoteAt(k)'
      PROVE  /\ queue'[k].view = top /\ top > 0
             /\ queue'[k].sender \in votes'[queue'[k].sender][top]
             /\ \A j \in DOMAIN queue' : VoteAt(j)' /\ queue'[j].sender = queue'[k].sender => j = k
  <2>1. k \in Nat /\ k + d \in DOMAIN queue /\ queue'[k] = queue[k + d] /\ VoteAt(k + d)
    BY <1>1, <1>7 DEF VoteAt
  <2>2. queue[k + d] \in MessageType
    BY <1>4, <2>1
  <2>3. queue'[k].sender \in Replicas
    BY <2>1, <2>2 DEF MessageType
  <2>4. /\ queue'[k].view = top /\ top > 0
        /\ queue'[k].sender \in votes[queue'[k].sender][top]
    BY <2>1 DEF Ballots, Voter
  <2>5. ASSUME NEW j \in DOMAIN queue', VoteAt(j)', queue'[j].sender = queue'[k].sender
        PROVE  j = k
    <3>1. j \in Nat /\ j + d \in DOMAIN queue /\ queue'[j] = queue[j + d] /\ VoteAt(j + d)
      BY <1>1, <2>5 DEF VoteAt
    <3>2. j + d = k + d
      BY <2>1, <2>5, <3>1 DEF Ballots
    <3>3. QED
      BY <1>3, <2>1, <3>1, <3>2
  <2>6. queue'[k].sender \in votes'[queue'[k].sender][top]
    BY <2>3, <2>4 DEF Voter
  <2>7. QED
    BY <2>4, <2>5, <2>6
<1>8. Ballots(top)'
  <2>1. \A k \in DOMAIN queue' : VoteAt(k)' =>
          /\ queue'[k].view = top /\ top > 0 /\ queue'[k].sender \in votes'[queue'[k].sender][top]
          /\ \A j \in DOMAIN queue' : VoteAt(j)' /\ queue'[j].sender = queue'[k].sender => j = k
    BY <1>7 DEF Voter
  <2>2. QED
    BY <2>1 DEF Ballots, VoteAt, Voter
<1>9. Calm(top)'
  <2>1. ~draining' => queue' = <<>>
    BY <1>6
  <2>2. QED
    BY <2>1 DEF Calm
<1>10. QED
  BY <1>5, <1>6, <1>8, <1>9

\* A call is made between deliveries, so that its vote is for all others.
LEMMA AwaitsAppended ==
    ASSUME WindowInv, VotesType, ~draining, NEW m, queue' = Append(queue, m), turn' = turn
    PROVE  \A r, s \in Replicas :
             Awaits(r, s)' <=> \/ Awaits(r, s)
                               \/ m.type = "view_change" /\ m.sender = s /\ s # r
<1>1. queue \in Seq(MessageType) /\ turn = 0
  BY DEF WindowInv, StateType, VotesType
<1>2. /\ DOMAIN queue = 1..Len(queue) /\ DOMAIN queue' = 1..(Len(queue) + 1)
      /\ Len(queue) \in Nat
      /\ \A k \in 1..Len(queue) : queue'[k] = queue[k]
      /\ queue'[Len(queue) + 1] = m
  BY <1>1
<1>3. \A r \in Replicas : r >= turn /\ r >= turn'
  BY <1>1 DEF Replicas
<1>4. SUFFICES ASSUME NEW r \in Replicas, NEW s \in Replicas
               PROVE  Awaits(r, s)' <=> \/ Awaits(r, s)
                                        \/ m.type = "view_change" /\ m.sender = s /\ s # r
  OBVIOUS
<1>5. ASSUME Awaits(r, s)'
      PROVE  Awaits(r, s) \/ (m.type = "view_change" /\ m.sender = s /\ s # r)
  <2>1. PICK k \in DOMAIN queue' : queue'[k].type = "view_change" /\ queue'[k].sender = s /\ s # r
    BY <1>5 DEF Awaits, VoteAt
  <2>2. CASE k \in 1..Len(queue)
    <3>1. k \in DOMAIN queue /\ queue[k].type = "view_change" /\ queue[k].sender = s
      BY <1>2, <2>1, <2>2
    <3>2. QED
      BY <1>3, <2>1, <3>1 DEF Awaits, VoteAt
  <2>3. CASE k = Len(queue) + 1
    BY <1>2, <2>1, <2>3
  <2>4. QED
    BY <1>2, <2>2, <2>3
<1>6. ASSUME Awaits(r, s)
      PROVE  Awaits(r, s)'
  <2>1. PICK k \in DOMAIN queue : VoteAt(k) /\ queue[k].sender = s /\ s # r
    BY <1>6 DEF Awaits
  <2>2. k \in DOMAIN queue' /\ queue'[k] = queue[k]
    BY <1>2, <2>1
  <2>3. QED
    BY <1>3, <2>1, <2>2 DEF Awaits, VoteAt
<1>7. ASSUME m.type = "view_change", m.sender = s, s # r
      PROVE  Awaits(r, s)'
  <2>1. Len(queue) + 1 \in DOMAIN queue'
    BY <1>2
  <2>2. QED
    BY <1>2, <1>3, <1>7, <2>1 DEF Awaits, VoteAt
<1>8. QED
  BY <1>5, <1>6, <1>7

\* A step that counts and casts no vote.
LEMMA NothingCounted ==
    ASSUME NEW top \in Views, LagAt(top), UNCHANGED <<view, votes, active>>,
           \A r, s \in Replicas : Awaits(r, s)' <=> Awaits(r, s)
    PROVE  Counted(top)' /\ Entered(top)' /\ LastVoter(top)' /\ Behind(top)'
<1>1. \A r \in Replicas : Voter(r, top)' <=> Voter(r, top)
  BY DEF Voter
<1>2. \A r \in Replicas : Lags(r, top)' <=> Lags(r, top)
  BY <1>1 DEF Lags
<1>3. Counted(top)'
  BY <1>1 DEF LagAt, Counted
<1>4. Entered(top)'
  BY <1>1, <1>2 DEF LagAt, Entered
<1>5. LastVoter(top)'
  BY <1>2 DEF LagAt, LastVoter
<1>6. Behind(top)'
  BY DEF LagAt, Behind
<1>7. QED
  BY <1>3, <1>4, <1>5, <1>6

\* When no vote is on its way, all replicas count the same votes for the view:
\* one that has not entered it although another has, completed the quorum.
LEMMA Settled ==
    ASSUME WindowInv, VotesType, NEW top \in Views, LagAt(top), ~\E k \in DOMAIN queue : VoteAt(k)
    PROVE  /\ \A r, q \in Replicas : votes[r][top] = votes[q][top]
           /\ \A r, q \in Replicas : view[q] = top /\ top # 0 /\ view[r] < top =>
                Lags(r, top) /\ \A p \in Replicas \ {r} : view[p] = top
<1>1. \A r, s \in Replicas : ~Awaits(r, s)
  BY DEF Awaits
<1>2. \A r, s \in Replicas : s \in votes[r][top] <=> Voter(s, top)
  BY <1>1 DEF LagAt, Counted, Voter
<1>3. \A r, q \in Replicas : votes[r][top] = votes[q][top]
  <2>1. \A r \in Replicas : votes[r][top] \subseteq Replicas
    BY DEF VotesType
  <2>2. QED
    BY <1>2, <2>1
<1>4. ASSUME NEW r \in Replicas, NEW q \in Replicas, view[q] = top, top # 0, view[r] < top
      PROVE  Lags(r, top) /\ \A p \in Replicas \ {r} : view[p] = top
  <2>1. Cardinality(votes[q][top]) >= Quorum
    BY <1>4 DEF LagAt, Entered
  <2>2. \A p \in Replicas : view[p] < top => Lags(p, top)
    <3>1. SUFFICES ASSUME NEW p \in Replicas, view[p] < top, ~Lags(p, top)
                   PROVE  FALSE
      OBVIOUS
    <3>2. Cardinality(votes[p][top]) < Quorum
      BY <3>1 DEF LagAt, Entered
    <3>3. votes[p][top] = votes[q][top] /\ votes[p][top] \in SUBSET Replicas
      BY <1>3 DEF VotesType
    <3>4. QED
      BY <2>1, <3>2, <3>3, QuorumNumber, ReplicaSets
  <2>3. ASSUME NEW p \in Replicas \ {r}
        PROVE  view[p] = top
    <3>1. ~Lags(p, top)
      BY <1>1, <1>4, <2>2 DEF LagAt, LastVoter
    <3>2. ~(view[p] < top)
      BY <2>2, <3>1
    <3>3. view[p] <= top /\ view[p] \in Int
      BY DEF LagAt, Entered, WindowInv, StateType
    <3>4. QED
      BY <3>2, <3>3 DEF Views
  <2>4. QED
    BY <1>4, <2>2, <2>3
<1>5. QED
  BY <1>3, <1>4

LEMMA LagInit == Init => LagInv
<1> SUFFICES ASSUME Init PROVE LagInv
  OBVIOUS
<1>1. VotesType /\ 0 \in Views
  <2>1. 0 \in Views
    BY PbftAssumption DEF Views
  <2>2. votes \in [Replicas -> [Views -> SUBSET Replicas]]
    BY DEF Init
  <2>3. QED
    BY <2>1, <2>2 DEF Init, VotesType
<1>2. Cardinality({}) = 0
  BY FS_EmptySet
<1>3. LagAt(0)
  <2>1. Ballots(0) /\ Calm(0) /\ Counted(0)
    BY <1>1 DEF Init, Ballots, Calm, Counted, Voter, Replicas
  <2>2. Entered(0) /\ LastVoter(0) /\ Behind(0)
    BY <1>1 DEF Init, Entered, LastVoter, Behind, Voter, Lags
  <2>3. QED
    BY <2>1, <2>2 DEF LagAt
<1>4. QED
  BY <1>1, <1>3 DEF LagInv

\* handle_request: its message is no vote.
LEMMA LagRequest ==
    ASSUME WindowInv, LagInv, NEW r \in Replicas, NEW d \in Digests, HandleRequest(r, d)
    PROVE  LagInv'
<1> DEFINE m == Message("pre_prepare", view[r], seqNum[r], d, r)
<1>1. PICK top \in Views : LagAt(top)
  BY DEF LagInv
<1>2. /\ ~draining /\ queue' = Append(queue, m) /\ m.type # "view_change"
      /\ UNCHANGED <<turn, draining, view, votes, active>>
  BY DEF HandleRequest, Message
<1>3. VotesType /\ queue \in Seq(MessageType)
  BY DEF LagInv, WindowInv, StateType
<1> HIDE DEF m
<1>4. \A x, s \in Replicas : Awaits(x, s)' <=> Awaits(x, s)
  BY <1>2, <1>3, AwaitsAppended
<1>5. Counted(top)' /\ Entered(top)' /\ LastVoter(top)' /\ Behind(top)'
  BY <1>1, <1>2, <1>4, NothingCounted
<1>6. VotesType'
  BY <1>2, <1>3 DEF VotesType
<1>7. \A k \in DOMAIN queue' : VoteAt(k)' => k \in DOMAIN queue /\ queue'[k] = queue[k] /\ VoteAt(k)
  <2>1. /\ DOMAIN queue = 1..Len(queue) /\ DOMAIN queue' = 1..(Len(queue) + 1)
        /\ Len(queue) \in Nat
        /\ \A k \in 1..Len(queue) : queue'[k] = queue[k]
        /\ queue'[Len(queue) + 1] = m
    BY <1>2, <1>3
  <2>2. QED
    BY <1>2, <2>1 DEF VoteAt
<1>8. Ballots(top)' /\ Calm(top)'
  BY <1>1, <1>2, <1>7 DEF LagAt, Ballots, Calm, Voter, VoteAt
<1>9. QED
  BY <1>5, <1>6, <1>8 DEF LagInv, LagAt

\* A step of the delivery that counts no vote.
LEMMA LagQuiet ==
    ASSUME WindowInv, LagInv, queue # <<>>, NEW out \in Seq(MessageType), Advance(out),
           \A k \in DOMAIN out : out[k].type # "view_change",
           UNCHANGED <<view, votes, active>>,
           queue[1].type = "view_change" => queue[1].sender = turn
    PROVE  LagInv'
<1>1. PICK top \in Views : LagAt(top)
  BY DEF LagInv
<1>2. Ballots(top)
  BY <1>1 DEF LagAt
<1>3. \A x, s \in Replicas : Awaits(x, s)' <=> Awaits(x, s)
  <2>1. \A x \in Replicas : \A s : ~(Awaits(x, s) /\ x = turn /\ VoteAt(1) /\ queue[1].sender = s)
    BY DEF Awaits, VoteAt
  <2>2. QED
    BY <1>2, <2>1, AwaitsAdvances
<1>4. Counted(top)' /\ Entered(top)' /\ LastVoter(top)' /\ Behind(top)'
  BY <1>1, <1>3, NothingCounted
<1>5. /\ Ballots(top)' /\ Calm(top)' /\ draining' \in BOOLEAN
      /\ (draining' => queue' # <<>>) /\ (~draining' => turn' = 0)
  <2>1. \A s \in Replicas : Voter(s, top) => Voter(s, top)'
    BY DEF Voter
  <2>2. \A x \in Replicas, v \in Views : v > top => votes'[x][v] = {}
    BY <1>2 DEF Ballots
  <2>3. QED
    BY <1>2, <2>1, <2>2, BallotsAdvance
<1>6. VotesType'
  BY <1>5 DEF LagInv, VotesType
<1>7. QED
  BY <1>4, <1>5, <1>6 DEF LagInv, LagAt

\* handle_view_change: the vote counted is one the replica awaited.
LEMMA LagVote ==
    ASSUME WindowInv, LagInv, HandleViewChange(turn, queue[1])
    PROVE  LagInv'
<1> DEFINE r == turn
           s == queue[1].sender
<1>1. PICK top \in Views : LagAt(top)
  BY DEF LagInv
<1> DEFINE all == votes[r][top] \cup {s}
<1>2. /\ queue # <<>> /\ 1 \in DOMAIN queue /\ VoteAt(1) /\ r # s
      /\ r \in Replicas /\ s \in Replicas /\ r \in Nat
  <2>1. queue \in Seq(MessageType) /\ queue # <<>> /\ turn \in Replicas
    BY DEF HandleViewChange, Receives, WindowInv, StateType
  <2>2. 1 \in DOMAIN queue /\ queue[1] \in MessageType
    BY <2>1
  <2>3. QED
    BY <2>1, <2>2 DEF HandleViewChange, Receives, VoteAt, MessageType, Replicas
<1>3. Ballots(top) /\ queue[1].view = top /\ top > 0 /\ top \in Nat /\ Voter(s, top)
  BY <1>1, <1>2 DEF LagAt, Ballots, Views
<1>4. /\ votes' = [votes EXCEPT ![r] = [@ EXCEPT ![top] = all]]
      /\ IF EnoughVotes(all)
           THEN view' = [view EXCEPT ![r] = top] /\ active' = active \ {r}
           ELSE UNCHANGED <<view, active>>
      /\ Advance(<<>>)
  BY <1>3 DEF HandleViewChange
<1>5. VotesType /\ view \in [Replicas -> Nat] /\ votes \in [Replicas -> [Views -> SUBSET Replicas]]
  BY DEF LagInv, VotesType, WindowInv, StateType
<1>6. Awaits(r, s) /\ s \notin votes[r][top]
  <2>1. Awaits(r, s)
    BY <1>2 DEF Awaits, VoteAt
  <2>2. QED
    BY <1>1, <1>2, <2>1 DEF LagAt, Counted
<1>7. /\ Cardinality(all) = Cardinality(votes[r][top]) + 1
      /\ Cardinality(votes[r][top]) \in Nat /\ Quorum \in Nat
  <2>1. votes[r][top] \in SUBSET Replicas /\ s \in Replicas \ votes[r][top]
    BY <1>2, <1>5, <1>6
  <2>2. QED
    BY <2>1, ReplicaSets, QuorumNumber
<1>8. /\ \A x \in Replicas, v \in Views :
           votes'[x][v] = IF x = r /\ v = top THEN all ELSE votes[x][v]
      /\ votes' \in [Replicas -> [Views -> SUBSET Replicas]]
  BY <1>2, <1>4, <1>5
<1> HIDE DEF all
<1>9. \A x \in Replicas : x # r => view'[x] = view[x] /\ (x \in active' <=> x \in active)
  BY <1>2, <1>4, <1>5
<1>10. IF Cardinality(all) >= Quorum
         THEN view'[r] = top /\ r \notin active'
         ELSE view'[r] = view[r] /\ view[r] < top /\ active' = active
  <2>1. view[r] = top => Cardinality(votes[r][top]) >= Quorum
    BY <1>1, <1>2, <1>3 DEF LagAt, Entered
  <2>2. view[r] <= top
    BY <1>1, <1>2 DEF LagAt, Entered
  <2>3. QED
    BY <1>2, <1>3, <1>4, <1>5, <1>7, <2>1, <2>2 DEF EnoughVotes
<1>11. \A x \in Replicas : Voter(x, top)' <=> Voter(x, top)
  BY <1>2, <1>8 DEF Voter, all
<1>12. \A x \in Replicas : Lags(x, top)' <=> x # r /\ Lags(x, top)
  <2>1. ASSUME NEW x \in Replicas, x = r
        PROVE  ~Lags(x, top)'
    <3>1. Cardinality(votes'[x][top]) = Quorum => view'[x] = top
      BY <1>2, <1>7, <1>8, <1>10, <2>1
    <3>2. QED
      BY <1>3, <3>1 DEF Lags
  <2>2. ASSUME NEW x \in Replicas, x # r
        PROVE  Lags(x, top)' <=> Lags(x, top)
    <3>1. votes'[x][top] = votes[x][top] /\ view'[x] = view[x]
      BY <1>8, <1>9, <2>2
    <3>2. QED
      BY <1>11, <3>1 DEF Lags
  <2>3. QED
    BY <2>1, <2>2
<1>13. \A x, y \in Replicas : Awaits(x, y)' <=> Awaits(x, y) /\ ~(x = r /\ y = s)
  <2>1. <<>> \in Seq(MessageType) /\ \A k \in DOMAIN <<>> : <<>>[k].type # "view_change"
    OBVIOUS
  <2>2. QED
    BY <1>2, <1>3, <1>4, <2>1, AwaitsAdvances
<1>14. Counted(top)'
  <2>1. SUFFICES ASSUME NEW x \in Replicas, NEW y \in Replicas, x # y
                 PROVE  /\ y \in votes'[x][top] => Voter(y, top)' /\ ~Awaits(x, y)'
                        /\ Voter(y, top)' => y \in votes'[x][top] \/ Awaits(x, y)'
    BY DEF Counted
  <2>2. /\ y \in votes[x][top] => Voter(y, top) /\ ~Awaits(x, y)
        /\ Voter(y, top) => y \in votes[x][top] \/ Awaits(x, y)
    BY <1>1, <2>1 DEF LagAt, Counted
  <2>3. y \in votes'[x][top] <=> y \in votes[x][top] \/ (x = r /\ y = s)
    BY <1>8 DEF all
  <2>4. QED
    BY <1>3, <1>11, <1>13, <2>2, <2>3
<1>15. Entered(top)'
  <2>1. SUFFICES ASSUME NEW x \in Replicas
                 PROVE  /\ view'[x] <= top
                        /\ view'[x] = top => x \notin active' /\ (top = 0 \/ Cardinality(votes'[x][top]) >= Quorum)
                        /\ view'[x] < top => Cardinality(votes'[x][top]) < Quorum \/ Lags(x, top)'
                        /\ Voter(x, top)' => view'[x] >= top - 1 /\ (view'[x] < top => x \in active')
    BY DEF Entered
  <2>2. /\ view[x] <= top
        /\ view[x] = top => x \notin active /\ (top = 0 \/ Cardinality(votes[x][top]) >= Quorum)
        /\ view[x] < top => Cardinality(votes[x][top]) < Quorum \/ Lags(x, top)
        /\ Voter(x, top) => view[x] >= top - 1 /\ (view[x] < top => x \in active)
    BY <1>1 DEF LagAt, Entered
  <2>3. CASE x = r
    BY <1>3, <1>7, <1>8, <1>10, <1>11, <2>2, <2>3
  <2>4. CASE x # r
    BY <1>8, <1>9, <1>11, <1>12, <2>2, <2>4
  <2>5. QED
    BY <2>3, <2>4
<1>16. LastVoter(top)'
  BY <1>1, <1>12, <1>13 DEF LagAt, LastVoter
<1>17. Behind(top)'
  <2>1. SUFFICES ASSUME NEW x \in Replicas, view'[x] < top - 1
                 PROVE  /\ x \in active' /\ Cardinality(votes'[x][top - 1]) = Quorum
                        /\ \A q \in Replicas \ {x} : view'[q] >= top - 1
    BY DEF Behind
  <2>2. view'[x] = view[x] /\ (x \in active' <=> x \in active)
    BY <1>3, <1>9, <1>10, <2>1
  <2>3. /\ x \in active /\ Cardinality(votes[x][top - 1]) = Quorum
        /\ \A q \in Replicas \ {x} : view[q] >= top - 1
    BY <1>1, <2>1, <2>2 DEF LagAt, Behind
  <2>4. votes'[x][top - 1] = votes[x][top - 1]
    <3>1. top - 1 \in Views /\ top - 1 # top
      BY <1>3, PbftAssumption DEF Views
    <3>2. QED
      BY <1>8, <3>1
  <2>5. ASSUME NEW q \in Replicas \ {x} PROVE view'[q] >= top - 1
    BY <1>3, <1>9, <1>10, <2>3
  <2>6. QED
    BY <2>2, <2>3, <2>4, <2>5
<1>18. /\ Ballots(top)' /\ Calm(top)' /\ draining' \in BOOLEAN
       /\ (draining' => queue' # <<>>) /\ (~draining' => turn' = 0)
  <2>1. ASSUME NEW x \in Replicas, NEW v \in Views, v > top
        PROVE  votes'[x][v] = {}
    <3>1. votes[x][v] = {} /\ v # top
      BY <1>3, <2>1 DEF Ballots
    <3>2. QED
      BY <1>8, <3>1
  <2>2. <<>> \in Seq(MessageType) /\ \A k \in DOMAIN <<>> : <<>>[k].type # "view_change"
    OBVIOUS
  <2>3. \A x \in Replicas : Voter(x, top) => Voter(x, top)'
    BY <1>11
  <2>4. QED
    BY <1>2, <1>3, <1>4, <2>1, <2>2, <2>3, BallotsAdvance
<1>19. VotesType'
  <2>1. active' \subseteq Replicas
    BY <1>4, <1>5 DEF VotesType
  <2>2. QED
    BY <1>8, <1>18, <2>1 DEF VotesType
<1>20. QED
  BY <1>14, <1>15, <1>16, <1>17, <1>18, <1>19 DEF LagInv, LagAt

\* start_view_change, of a replica that votes for the view the others voted for.
LEMMA LagJoin ==
    ASSUME WindowInv, VotesType, NEW top \in Views, LagAt(top),
           NEW r \in Replicas, StartViewChange(r), view[r] = top - 1
    PROVE  LagAt(top)'
<1> DEFINE m == Message("view_change", view[r] + 1, 0, NoDigest, r)
<1>1. /\ ~draining /\ ~draining' /\ turn' = turn /\ view' = view /\ r \notin active
      /\ active' = active \cup {r} /\ queue' = Append(queue, m)
      /\ votes' = [votes EXCEPT ![r][top] = @ \cup {r}]
      /\ m.type = "view_change" /\ m.view = top /\ m.sender = r
  <2>1. view[r] + 1 = top
    BY DEF Views
  <2>2. QED
    BY <2>1 DEF StartViewChange, Message
<1> HIDE DEF m
<1>2. /\ queue \in Seq(MessageType) /\ view \in [Replicas -> Nat]
      /\ votes \in [Replicas -> [Views -> SUBSET Replicas]]
      /\ top \in Nat /\ top > 0 /\ turn = 0
  BY <1>1 DEF WindowInv, StateType, VotesType, Views
<1>3. /\ Ballots(top) /\ Calm(top) /\ Counted(top) /\ Entered(top) /\ LastVoter(top) /\ Behind(top)
  BY DEF LagAt
<1>4. /\ DOMAIN queue = 1..Len(queue) /\ DOMAIN queue' = 1..(Len(queue) + 1)
      /\ Len(queue) \in Nat
      /\ \A k \in 1..Len(queue) : queue'[k] = queue[k]
      /\ queue'[Len(queue) + 1] = m
  BY <1>1, <1>2
<1>5. ~Voter(r, top)
  BY <1>1, <1>2, <1>3 DEF Entered
<1>6. \A x \in Replicas : r \notin votes[x][top]
  BY <1>3, <1>5 DEF Counted, Voter
<1>7. \A x \in Replicas, v \in Views :
        votes'[x][v] = IF x = r /\ v = top THEN votes[x][v] \cup {r} ELSE votes[x][v]
  <2>1. SUFFICES ASSUME NEW x \in Replicas, NEW v \in Views
                 PROVE  votes'[x][v] = IF x = r /\ v = top THEN votes[x][v] \cup {r}
                                                           ELSE votes[x][v]
    OBVIOUS
  <2>2. CASE x = r
    <3>1. votes'[r] = [votes[r] EXCEPT ![top] = votes[r][top] \cup {r}]
      BY <1>1, <1>2
    <3>2. votes[r] \in [Views -> SUBSET Replicas]
      BY <1>2
    <3>3. QED
      BY <2>2, <3>1, <3>2
  <2>3. CASE x # r
    BY <1>1, <1>2, <2>3
  <2>4. QED
    BY <2>2, <2>3
<1>8. /\ Cardinality(votes[r][top]) \in Nat /\ Cardinality(votes[r][top]) < Quorum
      /\ Cardinality(votes'[r][top]) = Cardinality(votes[r][top]) + 1
  <2>1. votes[r][top] \in SUBSET Replicas /\ r \in Replicas \ votes[r][top]
    BY <1>2, <1>6
  <2>2. Cardinality(votes[r][top]) < Quorum
    BY <1>2, <1>3, <1>5 DEF Entered, Lags
  <2>3. votes'[r][top] = votes[r][top] \cup {r}
    BY <1>7
  <2>4. QED
    BY <2>1, <2>2, <2>3, ReplicaSets
<1>9. \A x \in Replicas : Voter(x, top)' <=> Voter(x, top) \/ x = r
  BY <1>7 DEF Voter
<1>10. \A x, y \in Replicas : Awaits(x, y)' <=> Awaits(x, y) \/ (y = r /\ y # x)
  BY <1>1, AwaitsAppended
<1>11. \A x \in Replicas : x # r => (Lags(x, top)' <=> Lags(x, top))
  BY <1>1, <1>7, <1>9 DEF Lags
<1>12. Ballots(top)'
  <2>1. ASSUME NEW k \in DOMAIN queue, VoteAt(k) PROVE queue[k].sender # r
    BY <1>3, <1>5, <2>1 DEF Ballots
  <2>2. ASSUME NEW k \in DOMAIN queue', VoteAt(k)'
        PROVE  /\ queue'[k].view = top /\ top > 0
               /\ queue'[k].sender \in votes'[queue'[k].sender][top]
               /\ \A j \in DOMAIN queue' : VoteAt(j)' /\ queue'[j].sender = queue'[k].sender => j = k
    <3>1. CASE k \in DOMAIN queue
      <4>1. /\ queue[k].view = top /\ queue[k].sender \in votes[queue[k].sender][top]
            /\ queue[k].sender # r /\ queue'[k] = queue[k] /\ VoteAt(k)
            /\ queue[k].sender \in Replicas
        <5>1. queue'[k] = queue[k] /\ VoteAt(k) /\ queue[k] \in MessageType
          BY <1>2, <1>4, <2>2, <3>1 DEF VoteAt
        <5>2. QED
          BY <1>3, <2>1, <3>1, <5>1 DEF Ballots, Voter, MessageType
      <4>2. queue'[k].sender \in votes'[queue'[k].sender][top]
        <5>1. \A x \in Replicas : x \in votes[x][top] /\ x # r => x \in votes'[x][top]
          BY <1>7
        <5>2. QED
          BY <4>1, <5>1
      <4>3. ASSUME NEW j \in DOMAIN queue', VoteAt(j)', queue'[j].sender = queue'[k].sender
            PROVE  j = k
        <5>1. j \in DOMAIN queue
          BY <1>1, <1>4, <4>1, <4>3
        <5>2. QED
          BY <1>3, <1>4, <3>1, <4>1, <4>3, <5>1 DEF Ballots, VoteAt
      <4>4. QED
        BY <1>2, <4>1, <4>2, <4>3
    <3>2. CASE k = Len(queue) + 1
      <4>1. queue'[k].sender \in votes'[queue'[k].sender][top]
        <5>1. r \in votes'[r][top]
          BY <1>7
        <5>2. QED
          BY <1>1, <1>4, <3>2, <5>1
      <4>2. ASSUME NEW j \in DOMAIN queue', VoteAt(j)', queue'[j].sender = queue'[k].sender
            PROVE  j = k
        <5>1. j \notin DOMAIN queue
          BY <1>1, <1>4, <2>1, <3>2, <4>2 DEF VoteAt
        <5>2. QED
          BY <1>4, <3>2, <5>1
      <4>3. QED
        BY <1>1, <1>2, <1>4, <3>2, <4>1, <4>2
    <3>3. QED
      BY <1>4, <3>1, <3>2
  <2>3. ASSUME NEW x \in Replicas, NEW v \in Views, v > top
        PROVE  votes'[x][v] = {}
    <3>1. votes[x][v] = {} /\ v # top
      BY <1>2, <1>3, <2>3 DEF Ballots
    <3>2. QED
      BY <1>7, <3>1
  <2>4. QED
    BY <2>2, <2>3 DEF Ballots, VoteAt, Voter
<1>13. \A x \in Replicas : view[x] < top
  <2>1. SUFFICES ASSUME NEW x \in Replicas, ~(view[x] < top)
                 PROVE  FALSE
    OBVIOUS
  <2>2. view[x] = top
    BY <1>2, <1>3, <2>1 DEF Entered
  <2>3. ~\E k \in DOMAIN queue : VoteAt(k)
    BY <1>1, <1>3, <2>1 DEF Calm
  <2>4. Lags(r, top)
    BY <1>2, <2>2, <2>3, Settled
  <2>5. QED
    BY <1>5, <2>4 DEF Lags
<1>14. Calm(top)'
  BY <1>1, <1>13 DEF Calm
<1>15. Counted(top)'
  <2>1. SUFFICES ASSUME NEW x \in Replicas, NEW y \in Replicas, x # y
                 PROVE  /\ y \in votes'[x][top] => Voter(y, top)' /\ ~Awaits(x, y)'
                        /\ Voter(y, top)' => y \in votes'[x][top] \/ Awaits(x, y)'
    BY DEF Counted
  <2>2. /\ y \in votes[x][top] => Voter(y, top) /\ ~Awaits(x, y)
        /\ Voter(y, top) => y \in votes[x][top] \/ Awaits(x, y)
    BY <1>3, <2>1 DEF Counted
  <2>3. y \in votes'[x][top] <=> y \in votes[x][top]
    <3>1. \/ votes'[x][top] = votes[x][top] \cup {r} /\ x = r
          \/ votes'[x][top] = votes[x][top]
      BY <1>7
    <3>2. QED
      BY <2>1, <3>1
  <2>4. QED
    BY <1>6, <1>9, <1>10, <2>1, <2>2, <2>3
<1>16. Entered(top)'
  <2>1. SUFFICES ASSUME NEW x \in Replicas
                 PROVE  /\ view'[x] <= top
                        /\ view'[x] = top => x \notin active' /\ (top = 0 \/ Cardinality(votes'[x][top]) >= Quorum)
                        /\ view'[x] < top => Cardinality(votes'[x][top]) < Quorum \/ Lags(x, top)'
                        /\ Voter(x, top)' => view'[x] >= top - 1 /\ (view'[x] < top => x \in active')
    BY DEF Entered
  <2>2. /\ view[x] <= top
        /\ view[x] < top => Cardinality(votes[x][top]) < Quorum \/ Lags(x, top)
        /\ Voter(x, top) => view[x] >= top - 1 /\ (view[x] < top => x \in active)
    BY <1>3 DEF Entered
  <2>3. view'[x] < top /\ view'[x] = view[x] /\ view[x] \in Nat
    BY <1>1, <1>2, <1>13
  <2>4. CASE x = r
    <3>1. Cardinality(votes'[x][top]) < Quorum \/ Cardinality(votes'[x][top]) = Quorum
      BY <1>8, <2>4, QuorumNumber
    <3>2. Voter(x, top)' /\ x \in active' /\ view'[x] >= top - 1
      BY <1>1, <1>2, <1>9, <2>3, <2>4
    <3>3. QED
      BY <1>2, <2>3, <3>1, <3>2 DEF Lags
  <2>5. CASE x # r
    <3>1. votes'[x][top] = votes[x][top]
      BY <1>7, <2>5
    <3>2. QED
      BY <1>1, <1>2, <1>9, <1>11, <2>2, <2>3, <2>5, <3>1
  <2>6. QED
    BY <2>4, <2>5
<1>17. LastVoter(top)'
  <2>1. SUFFICES ASSUME NEW x \in Replicas, NEW q \in Replicas, x # q,
                        Lags(x, top)', Lags(q, top)'
                 PROVE  Awaits(q, x)'
    BY DEF LastVoter
  <2>2. CASE x = r
    BY <1>10, <2>1, <2>2
  <2>3. CASE x # r /\ q # r
    BY <1>3, <1>10, <1>11, <2>1, <2>3 DEF LastVoter
  <2>4. CASE q = r
    <3>1. SUFFICES ASSUME ~Awaits(r, x)
                   PROVE  FALSE
      BY <1>10, <2>4
    <3>2. Lags(x, top) /\ Voter(x, top)
      BY <1>11, <2>1, <2>4 DEF Lags
    <3>3. ASSUME NEW y \in votes[x][top]
          PROVE  y \in votes[r][top]
      <4>1. y \in Replicas /\ y # r
        BY <1>2, <1>6
      <4>2. Voter(y, top)
        BY <1>3, <3>2, <4>1 DEF Counted
      <4>3. ~Awaits(r, y)
        <5>1. CASE y = x
          BY <3>1, <5>1
        <5>2. CASE y # x
          <6>1. ~Awaits(x, y)
            BY <1>3, <4>1, <5>2 DEF Counted
          <6>2. x >= turn
            BY <1>2 DEF Replicas
          <6>3. QED
            BY <5>2, <6>1, <6>2 DEF Awaits
        <5>3. QED
          BY <5>1, <5>2
      <4>4. QED
        BY <1>3, <4>1, <4>2, <4>3 DEF Counted
    <3>4. votes[r][top] \in SUBSET Replicas /\ votes[x][top] \in SUBSET votes[r][top]
      BY <1>2, <3>3
    <3>5. Cardinality(votes[x][top]) <= Cardinality(votes[r][top])
      BY <3>4, ReplicaSets
    <3>6. QED
      BY <1>8, <3>2, <3>5, QuorumNumber DEF Lags
  <2>5. QED
    BY <2>2, <2>3, <2>4
<1>18. Behind(top)'
  <2>1. SUFFICES ASSUME NEW x \in Replicas, view'[x] < top - 1
                 PROVE  /\ x \in active' /\ Cardinality(votes'[x][top - 1]) = Quorum
                        /\ \A q \in Replicas \ {x} : view'[q] >= top - 1
    BY DEF Behind
  <2>2. /\ x \in active /\ Cardinality(votes[x][top - 1]) = Quorum
        /\ \A q \in Replicas \ {x} : view[q] >= top - 1
    BY <1>1, <1>3, <2>1 DEF Behind
  <2>3. votes'[x][top - 1] = votes[x][top - 1]
    <3>1. top - 1 \in Views /\ top - 1 # top
      BY <1>2, PbftAssumption DEF Views
    <3>2. QED
      BY <1>7, <3>1
  <2>4. QED
    BY <1>1, <2>2, <2>3
<1>19. QED
  BY <1>12, <1>14, <1>15, <1>16, <1>17, <1>18 DEF LagAt

\* start_view_change, of a replica in the highest view voted for: it votes for
\* the next one, for which there is no other vote.
LEMMA LagOpen ==
    ASSUME WindowInv, VotesType, NEW top \in Views, LagAt(top),
           NEW r \in Replicas, StartViewChange(r), view[r] = top
    PROVE  top + 1 \in Views /\ LagAt(top + 1)'
<1> DEFINE t == top + 1
           m == Message("view_change", t, 0, NoDigest, r)
<1>1. /\ ~draining /\ ~draining' /\ turn' = turn /\ view' = view /\ r \notin active
      /\ active' = active \cup {r} /\ queue' = Append(queue, m)
      /\ votes' = [votes EXCEPT ![r][t] = @ \cup {r}]
      /\ m.type = "view_change" /\ m.view = t /\ m.sender = r
  BY DEF StartViewChange, Message
<1>2. /\ t \in Views /\ t \in Nat /\ t > top /\ top \in Nat /\ t # top /\ t - 1 = top
      /\ top < t /\ t > 0
  BY PbftAssumption, SMTT(30) DEF StartViewChange, Views
<1> HIDE DEF m, t
<1>3. /\ queue \in Seq(MessageType) /\ view \in [Replicas -> Nat]
      /\ votes \in [Replicas -> [Views -> SUBSET Replicas]] /\ turn = 0
  BY <1>1 DEF WindowInv, StateType, VotesType
<1>4. /\ Ballots(top) /\ Calm(top) /\ Counted(top) /\ Entered(top) /\ LastVoter(top) /\ Behind(top)
  BY DEF LagAt
<1>5. \A k \in DOMAIN queue : ~VoteAt(k)
  BY <1>1, <1>2, <1>4 DEF Calm
<1>6. /\ DOMAIN queue = 1..Len(queue) /\ DOMAIN queue' = 1..(Len(queue) + 1)
      /\ Len(queue) \in Nat
      /\ \A k \in 1..Len(queue) : queue'[k] = queue[k]
      /\ queue'[Len(queue) + 1] = m
  BY <1>1, <1>3
<1>7. /\ \A x \in Replicas, v \in Views : v # t \/ x # r => votes'[x][v] = votes[x][v]
      /\ \A x \in Replicas : votes'[x][t] = IF x = r THEN {r} ELSE {}
  <2>1. \A x \in Replicas : votes[x][t] = {}
    BY <1>2, <1>4 DEF Ballots
  <2>2. /\ votes[r] \in [Views -> SUBSET Replicas]
        /\ votes'[r] = [votes[r] EXCEPT ![t] = votes[r][t] \cup {r}]
        /\ \A x \in Replicas : x # r => votes'[x] = votes[x]
    BY <1>1, <1>3
  <2>3. \A v \in Views : v # t => votes'[r][v] = votes[r][v]
    BY <2>2
  <2>4. votes'[r][t] = {r}
    BY <1>2, <2>1, <2>2
  <2>5. QED
    BY <2>1, <2>2, <2>3, <2>4
<1>8. \A x \in Replicas : x \in votes'[x][t] <=> x = r
  BY <1>7
<1>9. \A k \in DOMAIN queue' : queue'[k].type = "view_change" => k = Len(queue) + 1 /\ queue'[k] = m
  BY <1>5, <1>6 DEF VoteAt
<1>10. Ballots(t)'
  <2>1. \A x \in Replicas, v \in Views : v > t => votes'[x][v] = {}
    <3>1. SUFFICES ASSUME NEW x \in Replicas, NEW v \in Views, v > t
                   PROVE  votes'[x][v] = {}
      OBVIOUS
    <3>2. v > top /\ v # t
      BY <1>2, <3>1 DEF Views
    <3>3. votes[x][v] = {}
      BY <1>4, <3>2 DEF Ballots
    <3>4. QED
      BY <1>7, <3>2, <3>3
  <2>2. ASSUME NEW k \in DOMAIN queue', queue'[k].type = "view_change"
        PROVE  /\ queue'[k].view = t /\ t > 0 /\ queue'[k].sender \in votes'[queue'[k].sender][t]
               /\ \A j \in DOMAIN queue' :
                    queue'[j].type = "view_change" /\ queue'[j].sender = queue'[k].sender => j = k
    BY <1>1, <1>2, <1>8, <1>9, <2>2
  <2>3. QED
    BY <1>2, <2>1, <2>2 DEF Ballots, VoteAt, Voter
<1>11. \A x \in Replicas : view'[x] <= top /\ view'[x] < t
  BY <1>1, <1>2, <1>3, <1>4 DEF Entered
<1>12. Calm(t)'
  BY <1>2, <1>11 DEF Calm
<1>13. Counted(t)'
  <2>1. \A x, y \in Replicas : x # y => y \notin votes'[x][t]
    BY <1>7
  <2>2. \A x \in Replicas : x # r => Awaits(x, r)'
    BY <1>1, AwaitsAppended
  <2>3. QED
    BY <1>2, <1>8, <2>1, <2>2 DEF Counted, Voter
<1>14. Entered(t)'
  <2>1. SUFFICES ASSUME NEW x \in Replicas
                 PROVE  /\ view'[x] <= t
                        /\ view'[x] = t => x \notin active' /\ (t = 0 \/ Cardinality(votes'[x][t]) >= Quorum)
                        /\ view'[x] < t => \/ Cardinality(votes'[x][t]) < Quorum
                                           \/ /\ view'[x] < t /\ x \in votes'[x][t]
                                              /\ Cardinality(votes'[x][t]) = Quorum
                        /\ x \in votes'[x][t] => view'[x] >= t - 1 /\ (view'[x] < t => x \in active')
    BY <1>2 DEF Entered, Lags, Voter
  <2>2. view'[x] < t /\ view'[x] \in Nat
    BY <1>1, <1>3, <1>11
  <2>3. CASE x # r
    <3>1. votes'[x][t] = {} /\ Cardinality({}) = 0 /\ x \notin votes'[x][t]
      BY <1>7, <2>3, FS_EmptySet
    <3>2. QED
      BY <1>2, <2>2, <3>1, QuorumNumber
  <2>4. CASE x = r
    <3>1. votes'[x][t] = {r} /\ Cardinality({r}) = 1 /\ x \in votes'[x][t]
      BY <1>7, <2>4, FS_Singleton
    <3>2. view'[x] = t - 1 /\ x \in active'
      BY <1>1, <1>2, <2>4
    <3>3. QED
      BY <1>2, <2>2, <3>1, <3>2, QuorumNumber
  <2>5. QED
    BY <2>3, <2>4
<1>15. LastVoter(t)'
  BY <1>2, <1>8 DEF LastVoter, Lags, Voter
<1>16. Behind(t)'
  <2>1. SUFFICES ASSUME NEW x \in Replicas, view'[x] < top
                 PROVE  /\ x \in active' /\ Cardinality(votes'[x][top]) = Quorum
                        /\ \A q \in Replicas \ {x} : view'[q] >= top
    BY <1>2 DEF Behind
  <2>2. view[x] < top /\ top # 0
    BY <1>1, <1>2, <1>3, <2>1
  <2>3. Lags(x, top) /\ \A p \in Replicas \ {x} : view[p] = top
    BY <1>5, <2>2, Settled
  <2>4. x \in active
    BY <1>4, <2>2, <2>3 DEF Entered, Lags
  <2>5. votes'[x][top] = votes[x][top]
    BY <1>2, <1>7
  <2>6. QED
    BY <1>1, <1>2, <2>3, <2>4, <2>5 DEF Lags
<1>17. QED
  BY <1>2, <1>10, <1>12, <1>13, <1>14, <1>15, <1>16 DEF LagAt, t

LEMMA LagStart ==
    ASSUME WindowInv, LagInv, NEW r \in Replicas, StartViewChange(r)
    PROVE  LagInv'
<1>1. PICK top \in Views : LagAt(top)
  BY DEF LagInv
<1>2. VotesType /\ view \in [Replicas -> Nat] /\ top \in Nat
  BY DEF LagInv, WindowInv, StateType, Views
<1>3. r \notin active /\ view[r] \in Nat /\ view[r] + 1 \in Views
  BY <1>2, PbftAssumption DEF StartViewChange, Views
<1>4. VotesType'
  <2>1. votes' = [votes EXCEPT ![r][view[r] + 1] = @ \cup {r}]
    BY DEF StartViewChange
  <2>2. votes' \in [Replicas -> [Views -> SUBSET Replicas]]
    BY <1>2, <1>3, <2>1 DEF VotesType
  <2>3. QED
    BY <1>2, <2>2 DEF StartViewChange, VotesType
<1>5. view[r] = top - 1 \/ view[r] = top
  <2>1. view[r] <= top /\ ~(view[r] < top - 1)
    BY <1>1, <1>3 DEF LagAt, Entered, Behind
  <2>2. QED
    BY <1>2, <1>3, <2>1
<1>6. QED
  BY <1>1, <1>2, <1>4, <1>5, LagJoin, LagOpen DEF LagInv

\* What the handlers of the other messages broadcast is no vote.
LEMMA PrePrepareSends ==
    ASSUME WindowInv, queue # <<>>, HandlePrePrepare(turn, queue[1])
    PROVE  \E out \in Seq(MessageType) :
             Advance(out) /\ \A k \in DOMAIN out : out[k].type # "view_change"
<1> DEFINE r   == turn
           m   == queue[1]
           own == [view |-> view[r], digest |-> m.digest]
           e   == [EntryFor(r, m) EXCEPT !.prepares = [@ EXCEPT ![r] = own]]
           msg == Message("prepare", view[r], m.n, m.digest, r)
           com == Commit(r, m.n, e)
<1>1. /\ r \in Replicas /\ m \in MessageType /\ view[r] \in Nat /\ m.n \in Numbers
      /\ m.digest \in AnyDigest /\ log[r][m.n] \in EntryType /\ m.view \in Nat
  BY HeadTyped DEF WindowInv, StateType
<1>2. view[r] % N # r
  BY DEF HandlePrePrepare, AcceptsPrePrepare, IsPrimary
<1>3. EntryFor(r, m) \in EntryType
  BY <1>1, EntryTyped DEF EntryFor
<1>4. e.digest \in AnyDigest
  BY <1>3 DEF EntryType, EntryShape
<1>5. msg \in MessageType /\ msg.type = "prepare"
  BY <1>1, <1>2, MessageTyped DEF Message
<1>6. com \in MessageType /\ com.type = "commit"
  <2> HIDE DEF e
  <2>1. QED
    BY <1>1, <1>4, MessageTyped DEF Commit, Message
<1>7. Advance(Append(<<msg>>, com)) \/ Advance(<<msg>>)
  BY DEF HandlePrePrepare
<1>8. QED
  <2> HIDE DEF msg, com, e, r, m
  <2>1. /\ <<msg>> \in Seq(MessageType)
        /\ \A k \in DOMAIN <<msg>> : <<msg>>[k].type # "view_change"
    BY <1>5
  <2>2. /\ Append(<<msg>>, com) \in Seq(MessageType)
        /\ \A k \in DOMAIN Append(<<msg>>, com) : Append(<<msg>>, com)[k].type # "view_change"
    BY <1>5, <1>6
  <2>3. QED
    BY <1>7, <2>1, <2>2

LEMMA PrepareSends ==
    ASSUME WindowInv, queue # <<>>, HandlePrepare(turn, queue[1])
    PROVE  \E out \in Seq(MessageType) :
             Advance(out) /\ \A k \in DOMAIN out : out[k].type # "view_change"
<1> DEFINE r    == turn
           m    == queue[1]
           sent == [view |-> m.view, digest |-> m.digest]
           e    == [log[r][m.n] EXCEPT !.prepares = [@ EXCEPT ![m.sender] = sent]]
           com  == Commit(r, m.n, e)
<1>1. /\ r \in Replicas /\ m \in MessageType /\ m.n \in Numbers /\ view[r] \in Nat
      /\ log[r][m.n] \in EntryType
  BY HeadTyped DEF WindowInv, StateType
<1>2. e.digest \in AnyDigest
  BY <1>1 DEF EntryType, EntryShape
<1>3. com \in MessageType /\ com.type = "commit"
  <2> HIDE DEF e
  <2>1. QED
    BY <1>1, <1>2, MessageTyped DEF Commit, Message
<1>4. Advance(<<com>>) \/ Advance(<<>>)
  BY DEF HandlePrepare
<1>5. QED
  <2> HIDE DEF com, e, r, m
  <2>1. /\ <<com>> \in Seq(MessageType)
        /\ \A k \in DOMAIN <<com>> : <<com>>[k].type # "view_change"
    BY <1>3
  <2>2. <<>> \in Seq(MessageType) /\ \A k \in DOMAIN <<>> : <<>>[k].type # "view_change"
    OBVIOUS
  <2>3. QED
    BY <1>4, <2>1, <2>2

LEMMA LagStep == WindowInv /\ LagInv /\ [Next]_vars => LagInv'
<1> SUFFICES ASSUME WindowInv, LagInv, [Next]_vars
             PROVE  LagInv'
  OBVIOUS
<1>1. ASSUME NEW r \in Replicas, NEW d \in Digests, HandleRequest(r, d)
      PROVE  LagInv'
  BY <1>1, LagRequest
<1>2. ASSUME NEW r \in Replicas, StartViewChange(r)
      PROVE  LagInv'
  BY <1>2, LagStart
<1>3. ASSUME Deliver
      PROVE  LagInv'
  <2> DEFINE m == queue[1]
  <2>1. queue # <<>> /\ turn \in Replicas /\ m \in MessageType
    BY <1>3 DEF Deliver, WindowInv, StateType
  <2>2. view[turn] \in Nat /\ m.n \in Numbers /\ m.digest \in AnyDigest
    BY <2>1 DEF WindowInv, StateType, MessageType
  <2>3. CASE HandleViewChange(turn, m)
    BY <2>3, LagVote
  <2>4. CASE Ignore
    <3>1. <<>> \in Seq(MessageType) /\ \A k \in DOMAIN <<>> : <<>>[k].type # "view_change"
      OBVIOUS
    <3>2. Advance(<<>>) /\ UNCHANGED <<view, votes, active>>
      BY <2>4 DEF Ignore
    <3>3. m.type = "view_change" => m.sender = turn
      BY <2>4 DEF Ignore
    <3>4. QED
      BY <2>1, <3>1, <3>2, <3>3, LagQuiet
  <2>5. ASSUME HandlePrePrepare(turn, m) \/ HandlePrepare(turn, m) \/ HandleCommit(turn, m)
        PROVE  LagInv'
    <3>1. PICK out \in Seq(MessageType) :
            Advance(out) /\ \A k \in DOMAIN out : out[k].type # "view_change"
      <4>1. CASE HandleCommit(turn, m)
        <5>1. <<>> \in Seq(MessageType) /\ \A k \in DOMAIN <<>> : <<>>[k].type # "view_change"
          OBVIOUS
        <5>2. QED
          BY <4>1, <5>1 DEF HandleCommit
      <4>2. QED
        BY <2>1, <2>5, <4>1, PrePrepareSends, PrepareSends
    <3>2. UNCHANGED <<view, votes, active>> /\ m.type # "view_change"
      BY <2>5 DEF HandlePrePrepare, HandlePrepare, HandleCommit, Receives
    <3>3. QED
      BY <2>1, <3>1, <3>2, LagQuiet
  <2>6. QED
    BY <1>3, <2>3, <2>4, <2>5 DEF Deliver
<1>4. CASE UNCHANGED vars
  BY <1>4 DEF vars, LagInv, VotesType, LagAt, Ballots, Calm, Counted, Entered, LastVoter,
              Behind, Lags, Voter, Awaits, VoteAt
<1>5. QED
  BY <1>1, <1>2, <1>3, <1>4 DEF Next

LEMMA LagInvariant == Spec => [](WindowInv /\ LagInv)
  BY WindowInvariant, LagInit, LagStep, PTL DEF Spec

\* When the queue has been delivered, a replica in an older view than another is
\* the only one, and has a quorum that its own vote completed.
THEOREM OnlyLastVoterLagsHolds == Spec => []OnlyLastVoterLags
<1>1. ASSUME WindowInv, LagInv PROVE OnlyLastVoterLags
  <2>1. SUFFICES ASSUME queue = <<>>, NEW r \in Replicas, NEW q \in Replicas, view[r] < view[q]
                 PROVE  /\ r \in active
                        /\ Cardinality(votes[r][view[q]]) = Quorum
                        /\ \A p \in Replicas \ {r} : view[p] = view[q]
    BY DEF OnlyLastVoterLags
  <2>2. PICK top \in Views : LagAt(top)
    BY <1>1 DEF LagInv
  <2>3. VotesType /\ view \in [Replicas -> Nat] /\ top \in Nat
    BY <1>1 DEF LagInv, WindowInv, StateType, Views
  <2>4. ~\E k \in DOMAIN queue : VoteAt(k)
    BY <2>1
  <2>5. ASSUME NEW x \in Replicas, NEW y \in Replicas, view[y] = top, view[x] < top
        PROVE  /\ Lags(x, top) /\ x \in active /\ view[x] >= top - 1
               /\ \A p \in Replicas \ {x} : view[p] = top
    <3>1. Lags(x, top) /\ \A p \in Replicas \ {x} : view[p] = top
      BY <1>1, <2>2, <2>3, <2>4, <2>5, Settled
    <3>2. QED
      BY <2>2, <2>5, <3>1 DEF LagAt, Entered, Lags
  <2>6. \A x \in Replicas : view[x] <= top
    BY <2>2 DEF LagAt, Entered
  <2>7. CASE view[q] = top
    BY <2>1, <2>5, <2>7 DEF Lags
  <2>8. CASE view[q] < top
    <3>1. view[r] < top - 1
      BY <2>1, <2>3, <2>8
    <3>2. /\ r \in active /\ Cardinality(votes[r][top - 1]) = Quorum
          /\ \A p \in Replicas \ {r} : view[p] >= top - 1
      BY <2>2, <3>1 DEF LagAt, Behind
    <3>3. \A p \in Replicas : view[p] # top
      BY <2>3, <2>5, <3>1
    <3>4. \A p \in Replicas \ {r} : view[p] = top - 1
      BY <2>3, <2>6, <3>2, <3>3
    <3>5. view[q] = top - 1
      BY <2>1, <2>3, <3>4
    <3>6. QED
      BY <3>2, <3>4, <3>5
  <2>9. QED
    BY <2>3, <2>6, <2>7, <2>8
<1>2. QED
  BY <1>1, LagInvariant, PTL
-----------------------------------------------------------------------------
(* Requests while no view change is under way: the queue goes through the  *)
(* three phases one after the other, each in the order of the numbers, and *)
(* what is delivered for a number is recorded by whom it is for.           *)

IsVote(m) == m.type = "view_change"
Phase(m)  == IF m.type = "pre_prepare" THEN 0 ELSE IF m.type = "prepare" THEN 1 ELSE 2

\* m comes before x in the queue, where a number has one pre_prepare.
Before(m, x) == \/ Phase(m) < Phase(x)
                \/ /\ Phase(m) = Phase(x) /\ m.n <= x.n
                   /\ Phase(m) = 0 => m.n < x.n

\* m may be in the queue when x is at its head: at most a phase later, and then
\* what was sent for a number that the head has come to.
Ahead(m, x) == Phase(m) <= Phase(x) \/ (Phase(m) = Phase(x) + 1 /\ m.n <= x.n)

Phased ==
    /\ \A i, j \in DOMAIN queue : IsVote(queue[i]) => IsVote(queue[j])
    /\ ~draining => /\ turn = 0
                    /\ \A k \in DOMAIN queue : IsVote(queue[k]) \/ Phase(queue[k]) = 0
    /\ \A i, j \in DOMAIN queue : i < j /\ ~IsVote(queue[i]) => Before(queue[i], queue[j])
    /\ \A k \in DOMAIN queue : ~IsVote(queue[k]) => Ahead(queue[k], queue[1])

\* Replica r is still to get the message of s of that type and number.
Expects(r, type, n, s) ==
    \E k \in DOMAIN queue : /\ queue[k].type = type /\ queue[k].n = n /\ queue[k].sender = s
                            /\ r # s /\ (k = 1 => r >= turn)

DigestOf(n) == accepted[n + 1][2]

AcceptedType ==
    /\ accepted \in Seq(Numbers \X Digests)
    /\ \A k \in DOMAIN accepted : accepted[k][1] = k - 1

\* A message is about an accepted request, of the view W[n] that it was accepted
\* in; a pre_prepare finds all replicas in that view.
Genuine(W, m) ==
    /\ m.n < Len(accepted) /\ m.digest = DigestOf(m.n)
    /\ m.type # "commit" => m.view = W[m.n]
    /\ m.type = "pre_prepare" =>
         m.sender = W[m.n] % N /\ \A r \in Replicas : view[r] = m.view

Entries(W) ==
    \A r \in Replicas, n \in Numbers : Has(r, n) =>
        n < Len(accepted) /\ log[r][n].digest = DigestOf(n) /\ log[r][n].view = W[n]

\* A replica has executed the first of the accepted requests, and says so.
InOrder(r) ==
    /\ Len(executed[r]) <= Len(accepted)
    /\ \A k \in DOMAIN executed[r] : executed[r][k] = accepted[k]
    /\ lastExecuted[r] = Len(executed[r]) - 1
    /\ \A n \in Numbers : Has(r, n) /\ log[r][n].executed <=> n < Len(executed[r])
    /\ IsPrimary(r) => seqNum[r] = Len(accepted)

PrepareFor(W, n)  == [view |-> W[n], digest |-> DigestOf(n)]
Prepares(W, r, n) == {s \in Replicas : log[r][n].prepares[s] = PrepareFor(W, n)}
Commits(r, n)     == {s \in Replicas \ {r} : log[r][n].commits[s] = DigestOf(n)}

\* What is known of number n: who has not recorded a message will still get it,
\* who has a quorum of prepares has committed, and who has a quorum of commits of
\* others has executed.
PrePrepared(W, n) ==
    /\ Has(W[n] % N, n)
    /\ \A r \in Replicas : r # W[n] % N =>
         /\ Has(r, n) <=> ~Expects(r, "pre_prepare", n, W[n] % N)
         /\ Has(r, n) => log[r][n].prepares[r] = PrepareFor(W, n)

PreparesCome(W, n) ==
    \A r, s \in Replicas : r # s /\ s # W[n] % N /\ Has(s, n) =>
        \/ Has(r, n) /\ log[r][n].prepares[s] = PrepareFor(W, n)
        \/ Expects(r, "prepare", n, s)

CommitsCome(n) ==
    \A r, s \in Replicas : r # s /\ Has(s, n) /\ log[s][n].commits[s] = DigestOf(n) =>
        \/ Has(r, n) /\ log[r][n].commits[s] = DigestOf(n)
        \/ Expects(r, "commit", n, s)

QuorumsActed(W, n) ==
    \A r \in Replicas : Has(r, n) =>
        /\ Cardinality(Prepares(W, r, n)) >= Quorum => log[r][n].commits[r] = DigestOf(n)
        /\ Cardinality(Commits(r, n)) >= Quorum => log[r][n].executed

Carried(W, n) ==
    PrePrepared(W, n) /\ PreparesCome(W, n) /\ CommitsCome(n) /\ QuorumsActed(W, n)

Unmixed(W) ==
    /\ Phased /\ AcceptedType
    /\ \A k \in DOMAIN queue : IsVote(queue[k]) \/ Genuine(W, queue[k])
    /\ Entries(W)
    /\ \A r \in Replicas : InOrder(r)
    /\ \A n \in Numbers : n < Len(accepted) => Carried(W, n)

\* The inductive invariant: until a view change and a request mix.
OrderInv == mixed \/ \E W \in [Numbers -> Nat] : Unmixed(W)

\* What delivery does to the queue when the handler broadcasts x or nothing.
LEMMA QueueMoves ==
    ASSUME WindowInv, queue # <<>>, NEW x, NEW out, out = <<>> \/ out = <<x>>, Advance(out)
    PROVE  LET d == IF turn = N - 1 THEN 1 ELSE 0 IN
           /\ \A k \in DOMAIN queue' : /\ k \in Nat /\ k >= 1
                                       /\ \/ k + d \in DOMAIN queue /\ queue'[k] = queue[k + d]
                                          \/ out = <<x>> /\ k + d = Len(queue) + 1 /\ queue'[k] = x
           /\ \A j \in DOMAIN queue : j > d =>
                j \in Nat /\ j - d \in DOMAIN queue' /\ queue'[j - d] = queue[j]
           /\ out = <<x>> => Len(queue) + 1 - d \in DOMAIN queue' /\ queue'[Len(queue) + 1 - d] = x
           /\ turn' = IF turn = N - 1 THEN 0 ELSE turn + 1
           /\ draining' = (queue' # <<>>)
<1> DEFINE d == IF turn = N - 1 THEN 1 ELSE 0
           rest == IF turn = N - 1 THEN Tail(queue) ELSE queue
<1>1. queue \in Seq(MessageType) /\ Len(queue) \in Nat /\ Len(queue) >= 1
      /\ DOMAIN queue = 1..Len(queue) /\ turn \in 0..(N - 1)
  BY DEF WindowInv, StateType, Replicas
<1>2. queue' = rest \o out /\ turn' = (turn + 1) % N /\ draining' = (queue' # <<>>)
  BY DEF Advance
<1>3. /\ rest \in Seq(MessageType) /\ Len(rest) = Len(queue) - d
      /\ \A k \in 1..(Len(queue) - d) : rest[k] = queue[k + d]
  <2>1. CASE turn = N - 1
    BY <1>1, <2>1
  <2>2. CASE turn # N - 1
    BY <1>1, <2>2
  <2>3. QED
    BY <2>1, <2>2
<1>4. d \in {0, 1}
  OBVIOUS
<1>5. turn' = IF turn = N - 1 THEN 0 ELSE turn + 1
  <2>1. turn' = (turn + 1) % N
    BY <1>2
  <2>2. CASE turn = N - 1
    BY <2>1, <2>2, PbftAssumption
  <2>3. CASE turn # N - 1
    BY <1>1, <2>1, <2>3, PbftAssumption
  <2>4. QED
    BY <2>2, <2>3
<1> HIDE DEF rest, d
<1>6. CASE out = <<>>
  <2>1. queue' = rest
    BY <1>2, <1>3, <1>6
  <2>2. DOMAIN queue' = 1..(Len(queue) - d)
    BY <1>1, <1>3, <1>4, <2>1
  <2>3. \A k \in DOMAIN queue' : k \in Nat /\ k >= 1 /\ k + d \in DOMAIN queue /\ queue'[k] = queue[k + d]
    BY <1>1, <1>3, <1>4, <2>1, <2>2
  <2>4. \A j \in DOMAIN queue : j > d =>
          j \in Nat /\ j - d \in DOMAIN queue' /\ queue'[j - d] = queue[j]
    BY <1>1, <1>3, <1>4, <2>1, <2>2, SMTT(30)
  <2>5. out # <<x>>
    BY <1>6
  <2>6. QED
    BY <1>2, <1>5, <2>3, <2>4, <2>5 DEF d
<1>7. CASE out = <<x>>
  <2>1. queue' = Append(rest, x)
    BY <1>2, <1>3, <1>7
  <2>2. /\ DOMAIN queue' = 1..(Len(queue) - d + 1)
        /\ \A k \in 1..(Len(queue) - d) : queue'[k] = queue[k + d]
        /\ queue'[Len(queue) - d + 1] = x
    BY <1>1, <1>3, <1>4, <2>1
  <2>3. ASSUME NEW k \in DOMAIN queue'
        PROVE  /\ k \in Nat /\ k >= 1
               /\ \/ k + d \in DOMAIN queue /\ queue'[k] = queue[k + d]
                  \/ k + d = Len(queue) + 1 /\ queue'[k] = x
    BY <1>1, <1>4, <2>2, <2>3
  <2>4. ASSUME NEW j \in DOMAIN queue, j > d
        PROVE  j \in Nat /\ j - d \in DOMAIN queue' /\ queue'[j - d] = queue[j]
    <3>1. j \in Nat /\ j - d \in 1..(Len(queue) - d) /\ (j - d) + d = j
      BY <1>1, <1>4, <2>4
    <3>2. queue'[j - d] = queue[(j - d) + d]
      BY <2>2, <3>1
    <3>3. QED
      BY <1>1, <1>4, <2>2, <3>1, <3>2
  <2>5. Len(queue) + 1 - d \in DOMAIN queue' /\ queue'[Len(queue) + 1 - d] = x
    BY <1>1, <1>4, <2>2
  <2>6. QED
    BY <1>2, <1>5, <1>7, <2>3, <2>4, <2>5 DEF d
<1>8. QED
  BY <1>6, <1>7

\* What replicas expect after a delivery.
LEMMA ExpectsMoves ==
    ASSUME WindowInv, queue # <<>>, NEW x, NEW out, out = <<>> \/ out = <<x>>, Advance(out),
           NEW r \in Replicas, NEW type, NEW n, NEW s
    PROVE  /\ Expects(r, type, n, s) =>
                \/ Expects(r, type, n, s)'
                \/ r = turn /\ queue[1].type = type /\ queue[1].n = n /\ queue[1].sender = s
           /\ Expects(r, type, n, s)' => \/ Expects(r, type, n, s)
                                         \/ out = <<x>> /\ x.type = type /\ x.n = n
           /\ out = <<x>> /\ r # x.sender => Expects(r, x.type, x.n, x.sender)'
           /\ r = turn /\ Expects(r, type, n, s)' =>
                \/ \E k \in DOMAIN queue : k > 1 /\ queue[k].type = type /\ queue[k].n = n
                \/ out = <<x>> /\ x.type = type /\ x.n = n
<1> DEFINE d == IF turn = N - 1 THEN 1 ELSE 0
<1>1. /\ \A k \in DOMAIN queue' : /\ k \in Nat /\ k >= 1
                                  /\ \/ k + d \in DOMAIN queue /\ queue'[k] = queue[k + d]
                                     \/ out = <<x>> /\ k + d = Len(queue) + 1 /\ queue'[k] = x
      /\ \A j \in DOMAIN queue : j > d =>
           j \in Nat /\ j - d \in DOMAIN queue' /\ queue'[j - d] = queue[j]
      /\ out = <<x>> => Len(queue) + 1 - d \in DOMAIN queue' /\ queue'[Len(queue) + 1 - d] = x
      /\ turn' = IF turn = N - 1 THEN 0 ELSE turn + 1
  BY QueueMoves
<1>2. /\ DOMAIN queue = 1..Len(queue) /\ Len(queue) \in Nat /\ Len(queue) >= 1
      /\ turn \in Nat /\ turn <= N - 1 /\ N \in Nat /\ r \in Nat /\ r <= N - 1
  BY PbftAssumption DEF WindowInv, StateType, Replicas
<1>3. ASSUME Expects(r, type, n, s),
             ~(r = turn /\ queue[1].type = type /\ queue[1].n = n /\ queue[1].sender = s)
      PROVE  Expects(r, type, n, s)'
  <2>1. PICK j \in DOMAIN queue : /\ queue[j].type = type /\ queue[j].n = n /\ queue[j].sender = s
                                  /\ r # s /\ (j = 1 => r >= turn)
    BY <1>3 DEF Expects
  <2>2. j \in Nat /\ j >= 1 /\ (j = 1 => r # turn)
    BY <1>2, <1>3, <2>1
  <2>3. j > d
    BY <1>2, <2>1, <2>2
  <2>4. j - d \in DOMAIN queue' /\ queue'[j - d] = queue[j]
    BY <1>1, <2>3
  <2>5. j - d = 1 => r >= turn'
    BY <1>1, <1>2, <2>1, <2>2
  <2> HIDE DEF d
  <2>6. QED
    BY <2>1, <2>4, <2>5 DEF Expects
<1>4. ASSUME NEW k \in DOMAIN queue', queue'[k].type = type, queue'[k].n = n, queue'[k].sender = s,
             r # s, k = 1 => r >= turn', ~(out = <<x>> /\ x.type = type /\ x.n = n)
      PROVE  Expects(r, type, n, s)
             /\ (r = turn => \E j \in DOMAIN queue : j > 1 /\ queue[j].type = type /\ queue[j].n = n)
  <2>1. k \in Nat /\ k >= 1 /\ k + d \in DOMAIN queue /\ queue'[k] = queue[k + d]
    BY <1>1, <1>4
  <2>2. k + d = 1 => r > turn
    BY <1>1, <1>2, <1>4, <2>1
  <2>3. r = turn => k + d > 1
    BY <1>2, <2>1, <2>2
  <2> HIDE DEF d
  <2>4. Expects(r, type, n, s)
    BY <1>2, <1>4, <2>1, <2>2 DEF Expects
  <2>5. QED
    BY <1>4, <2>1, <2>3, <2>4
<1>5. ASSUME out = <<x>>, r # x.sender
      PROVE  Expects(r, x.type, x.n, x.sender)'
  <2>1. Len(queue) + 1 - d \in DOMAIN queue' /\ queue'[Len(queue) + 1 - d] = x
    BY <1>1, <1>5
  <2>2. Len(queue) + 1 - d = 1 => r >= turn'
    BY <1>1, <1>2
  <2> HIDE DEF d
  <2>3. QED
    BY <1>5, <2>1, <2>2 DEF Expects
<1>6. ASSUME Expects(r, type, n, s)', ~(out = <<x>> /\ x.type = type /\ x.n = n)
      PROVE  Expects(r, type, n, s)
             /\ (r = turn => \E j \in DOMAIN queue : j > 1 /\ queue[j].type = type /\ queue[j].n = n)
  <2>1. PICK k \in DOMAIN queue' : /\ queue'[k].type = type /\ queue'[k].n = n
                                   /\ queue'[k].sender = s /\ r # s /\ (k = 1 => r >= turn')
    BY <1>6 DEF Expects
  <2>2. QED
    BY <1>4, <1>6, <2>1
<1>7. QED
  BY <1>3, <1>5, <1>6

LEMMA PhaseNumber ==
    ASSUME NEW m \in MessageType
    PROVE  Phase(m) \in 0..2 /\ m.n \in Nat
  BY PbftAssumption DEF Phase, MessageType, Numbers

LEMMA AheadBefore ==
    ASSUME NEW m \in MessageType, NEW x \in MessageType, NEW y \in MessageType,
           Ahead(m, x), Before(x, y)
    PROVE  Ahead(m, y)
<1>1. /\ Phase(m) \in Nat /\ Phase(x) \in Nat /\ Phase(y) \in Nat
      /\ m.n \in Nat /\ x.n \in Nat /\ y.n \in Nat
  BY PhaseNumber
<1>2. QED
  BY <1>1 DEF Ahead, Before

\* The phases stay in order when a message of the next one is broadcast for the
\* number at the head.
LEMMA PhasedMoves ==
    ASSUME WindowInv, Phased, queue # <<>>, ~IsVote(queue[1]),
           NEW x \in MessageType, NEW out, out = <<>> \/ out = <<x>>, Advance(out),
           out = <<x>> => /\ ~IsVote(x) /\ Phase(x) = Phase(queue[1]) + 1
                          /\ x.n = queue[1].n
    PROVE  Phased'
<1> DEFINE d == IF turn = N - 1 THEN 1 ELSE 0
           h == queue[1]
<1>1. /\ \A k \in DOMAIN queue' : /\ k \in Nat /\ k >= 1
                                  /\ \/ k + d \in DOMAIN queue /\ queue'[k] = queue[k + d]
                                     \/ out = <<x>> /\ k + d = Len(queue) + 1 /\ queue'[k] = x
      /\ \A j \in DOMAIN queue : j > d =>
           j \in Nat /\ j - d \in DOMAIN queue' /\ queue'[j - d] = queue[j]
      /\ turn' = IF turn = N - 1 THEN 0 ELSE turn + 1
      /\ draining' = (queue' # <<>>)
  BY QueueMoves
<1>2. /\ DOMAIN queue = 1..Len(queue) /\ Len(queue) \in Nat /\ Len(queue) >= 1
      /\ \A j \in DOMAIN queue : queue[j] \in MessageType
      /\ 1 \in DOMAIN queue
  BY DEF WindowInv, StateType
<1>3. \A j \in DOMAIN queue : ~IsVote(queue[j]) /\ Ahead(queue[j], h)
  BY <1>2 DEF Phased
<1>4. d \in {0, 1}
  OBVIOUS
<1>5. ~draining' => turn' = 0 /\ \A k \in DOMAIN queue' : FALSE
  <2>1. turn # N - 1 => queue' # <<>>
    BY <1>1, <1>2
  <2>2. ~draining' => queue' = <<>>
    BY <1>1
  <2>3. \A k \in DOMAIN <<>> : FALSE
    OBVIOUS
  <2>4. turn = N - 1 => turn' = 0
    BY <1>1
  <2>5. QED
    BY <2>1, <2>2, <2>3, <2>4
<1> HIDE DEF d
<1>6. ASSUME NEW k \in DOMAIN queue'
      PROVE  ~IsVote(queue'[k]) /\ queue'[k] \in MessageType
  <2>1. CASE k + d \in DOMAIN queue /\ queue'[k] = queue[k + d]
    BY <1>2, <1>3, <2>1
  <2>2. CASE out = <<x>> /\ queue'[k] = x
    BY <2>2
  <2>3. QED
    BY <1>1, <2>1, <2>2
<1>7. out = <<x>> => Ahead(x, h) /\ \A j \in DOMAIN queue : Before(queue[j], x)
  <2> SUFFICES ASSUME out = <<x>> PROVE Ahead(x, h) /\ \A j \in DOMAIN queue : Before(queue[j], x)
    OBVIOUS
  <2>1. /\ Phase(x) = Phase(h) + 1 /\ x.n = h.n /\ Phase(h) \in Nat /\ Phase(x) \in Nat
        /\ x.n \in Nat /\ h \in MessageType
    BY <1>2, PhaseNumber
  <2>2. ASSUME NEW j \in DOMAIN queue
        PROVE  Before(queue[j], x)
    <3>1. Phase(queue[j]) \in Nat /\ queue[j].n \in Nat /\ Ahead(queue[j], h)
      BY <1>2, <1>3, PhaseNumber
    <3> HIDE DEF h
    <3>2. QED
      BY <2>1, <3>1 DEF Ahead, Before
  <2>3. Ahead(x, h)
    <3> HIDE DEF h
    <3>1. QED
      BY <2>1 DEF Ahead
  <2>4. QED
    BY <2>2, <2>3
<1>8. ASSUME NEW i \in DOMAIN queue', NEW j \in DOMAIN queue', i < j
      PROVE  Before(queue'[i], queue'[j])
  <2>1. /\ i \in Nat /\ j \in Nat
        /\ \/ i + d \in DOMAIN queue /\ queue'[i] = queue[i + d]
           \/ out = <<x>> /\ i + d = Len(queue) + 1 /\ queue'[i] = x
        /\ \/ j + d \in DOMAIN queue /\ queue'[j] = queue[j + d]
           \/ out = <<x>> /\ j + d = Len(queue) + 1 /\ queue'[j] = x
    BY <1>1
  <2>2. i + d \in DOMAIN queue /\ queue'[i] = queue[i + d] /\ i + d < j + d
    BY <1>2, <1>4, <1>8, <2>1
  <2>3. CASE j + d \in DOMAIN queue /\ queue'[j] = queue[j + d]
    BY <1>3, <2>2, <2>3 DEF Phased
  <2>4. CASE out = <<x>> /\ queue'[j] = x
    BY <1>7, <2>2, <2>4
  <2>5. QED
    BY <2>1, <2>3, <2>4
<1>9. ASSUME NEW k \in DOMAIN queue'
      PROVE  Ahead(queue'[k], queue'[1])
  <2>1. k \in Nat /\ k >= 1
        /\ \/ k + d \in DOMAIN queue /\ queue'[k] = queue[k + d]
           \/ out = <<x>> /\ k + d = Len(queue) + 1 /\ queue'[k] = x
    BY <1>1
  <2>2. Ahead(queue'[k], h) /\ queue'[k] \in MessageType /\ h \in MessageType
    BY <1>2, <1>3, <1>6, <1>7, <2>1
  <2>3. CASE k = 1
    <3>1. Phase(queue'[k]) \in Nat
      BY <2>2, PhaseNumber
    <3>2. QED
      BY <2>3, <3>1 DEF Ahead
  <2>4. CASE k > 1
    <3>1. 1 + d \in DOMAIN queue
      BY <1>2, <1>4, <2>1, <2>4
    <3>2. (1 + d) - d \in DOMAIN queue' /\ queue'[(1 + d) - d] = queue[1 + d]
      BY <1>1, <1>4, <3>1
    <3>3. (1 + d) - d = 1
      BY <1>4
    <3>4. queue'[1] = queue[1 + d]
      BY <3>2, <3>3
    <3>5. CASE d = 0
      BY <2>2, <3>4, <3>5
    <3>6. CASE d = 1
      <4>1. Before(h, queue'[1]) /\ queue'[1] \in MessageType
        BY <1>2, <1>3, <3>1, <3>4, <3>6 DEF Phased
      <4>2. QED
        BY <2>2, <4>1, AheadBefore
    <3>7. QED
      BY <1>4, <3>5, <3>6
  <2>5. QED
    BY <2>1, <2>3, <2>4
<1>10. QED
  BY <1>5, <1>6, <1>8, <1>9 DEF Phased

\* Votes are followed by votes.
LEMMA PhasedVotes ==
    ASSUME WindowInv, Phased, queue # <<>>, IsVote(queue[1]), Advance(<<>>)
    PROVE  Phased' /\ (\A k \in DOMAIN queue : IsVote(queue[k]))
           /\ \A k \in DOMAIN queue' : IsVote(queue'[k])
<1> DEFINE d == IF turn = N - 1 THEN 1 ELSE 0
<1>1. /\ \A k \in DOMAIN queue' : k + d \in DOMAIN queue /\ queue'[k] = queue[k + d]
      /\ \A j \in DOMAIN queue : j > d => j - d \in DOMAIN queue'
      /\ turn' = IF turn = N - 1 THEN 0 ELSE turn + 1
      /\ draining' = (queue' # <<>>)
  <2>1. <<>> # <<0>>
    OBVIOUS
  <2>2. QED
    BY <2>1, QueueMoves
<1>2. DOMAIN queue = 1..Len(queue) /\ Len(queue) \in Nat /\ Len(queue) >= 1 /\ 1 \in DOMAIN queue
  BY DEF WindowInv, StateType
<1>3. \A k \in DOMAIN queue : IsVote(queue[k])
  BY <1>2 DEF Phased
<1>4. \A k \in DOMAIN queue' : IsVote(queue'[k])
  BY <1>1, <1>3
<1>5. ~draining' => turn' = 0
  <2>1. turn # N - 1 => queue' # <<>>
    BY <1>1, <1>2
  <2>2. QED
    BY <1>1, <2>1
<1>6. QED
  BY <1>3, <1>4, <1>5 DEF Phased

\* What is carried for a number that a step neither records nor delivers.
LEMMA CarriedSame ==
    ASSUME NEW W \in [Numbers -> Nat], NEW k \in Numbers, Carried(W, k),
           DigestOf(k)' = DigestOf(k),
           \A r \in Replicas : log'[r][k] = log[r][k],
           \A r, s \in Replicas : \A type \in {"pre_prepare", "prepare", "commit"} :
             Expects(r, type, k, s) => Expects(r, type, k, s)',
           \A r, s \in Replicas :
             Expects(r, "pre_prepare", k, s)' => Expects(r, "pre_prepare", k, s)
    PROVE  Carried(W, k)'
<1>1. W[k] % N \in Replicas
  BY Constants
<1>2. \A r \in Replicas : Has(r, k)' <=> Has(r, k)
  BY DEF Has
<1>3. PrepareFor(W, k)' = PrepareFor(W, k)
  BY DEF PrepareFor
<1>4. PrePrepared(W, k)'
  BY <1>1, <1>2, <1>3 DEF Carried, PrePrepared
<1>5. PreparesCome(W, k)'
  BY <1>1, <1>2, <1>3 DEF Carried, PreparesCome
<1>6. CommitsCome(k)'
  BY <1>1, <1>2 DEF Carried, CommitsCome
<1>7. QuorumsActed(W, k)'
  <2>1. \A r \in Replicas : Prepares(W, r, k)' = Prepares(W, r, k) /\ Commits(r, k)' = Commits(r, k)
    BY <1>3 DEF Prepares, Commits
  <2>2. QED
    BY <1>2, <2>1 DEF Carried, QuorumsActed
<1>8. QED
  BY <1>4, <1>5, <1>6, <1>7 DEF Carried

\* With four replicas or more, all but one are a quorum, and one is none.
LEMMA QuorumOfOthers ==
    ASSUME N >= 4
    PROVE  /\ Quorum \in Nat /\ Quorum > 1 /\ Quorum <= N - 1
           /\ \A p \in Replicas : Cardinality(Replicas \ {p}) = N - 1
<1>1. N \in Nat /\ N - 1 \in Int
  BY PbftAssumption
<1>2. f \in Nat /\ f >= 1 /\ 3 * f <= N - 1
  BY <1>1 DEF f
<1>3. Quorum \in Nat /\ Quorum > 1 /\ Quorum <= N - 1
  BY <1>1, <1>2 DEF Quorum
<1>4. IsFiniteSet(Replicas) /\ Cardinality(Replicas) = N
  BY <1>1, FS_Interval DEF Replicas
<1>5. \A p \in Replicas : Cardinality(Replicas \ {p}) = N - 1
  BY <1>4, FS_RemoveElement
<1>6. QED
  BY <1>3, <1>5

\* What a replica recorded of a number from all others is a quorum.
LEMMA OthersSuffice ==
    ASSUME N >= 4, NEW p \in Replicas, NEW S \in SUBSET Replicas, Replicas \ {p} \subseteq S
    PROVE  Cardinality(S) >= Quorum
<1>1. Cardinality(Replicas \ {p}) <= Cardinality(S) /\ Cardinality(S) \in Nat
  BY ReplicaSets
<1>2. QED
  BY <1>1, QuorumOfOthers, PbftAssumption

\* A number of which nothing is in the queue has been executed everywhere.
LEMMA Finished ==
    ASSUME WindowInv, N >= 4, NEW W \in [Numbers -> Nat], Unmixed(W),
           NEW n \in Numbers, n < Len(accepted),
           \A k \in DOMAIN queue : IsVote(queue[k]) \/ queue[k].n # n
    PROVE  \A r \in Replicas : Has(r, n) /\ log[r][n].executed /\ n < Len(executed[r])
<1> DEFINE p == W[n] % N
<1>1. p \in Replicas
  BY Constants
<1>2. \A r, s \in Replicas : \A type \in {"pre_prepare", "prepare", "commit"} : ~Expects(r, type, n, s)
  BY DEF Expects, IsVote
<1>3. Carried(W, n)
  BY DEF Unmixed
<1>4. \A r \in Replicas : Has(r, n)
  BY <1>1, <1>2, <1>3 DEF Carried, PrePrepared
<1>5. \A r \in Replicas : log[r][n].commits[r] = DigestOf(n)
  <2> SUFFICES ASSUME NEW r \in Replicas PROVE log[r][n].commits[r] = DigestOf(n)
    OBVIOUS
  <2>1. \A s \in Replicas \ {p} : log[r][n].prepares[s] = PrepareFor(W, n)
    <3> SUFFICES ASSUME NEW s \in Replicas, s # p PROVE log[r][n].prepares[s] = PrepareFor(W, n)
      OBVIOUS
    <3>1. CASE r = s
      BY <1>3, <1>4, <3>1 DEF Carried, PrePrepared
    <3>2. CASE r # s
      BY <1>2, <1>3, <1>4, <3>2 DEF Carried, PreparesCome
    <3>3. QED
      BY <3>1, <3>2
  <2>2. Replicas \ {p} \subseteq Prepares(W, r, n) /\ Prepares(W, r, n) \in SUBSET Replicas
    BY <2>1 DEF Prepares
  <2>3. Cardinality(Prepares(W, r, n)) >= Quorum
    BY <1>1, <2>2, OthersSuffice
  <2>4. QED
    BY <1>3, <1>4, <2>3 DEF Carried, QuorumsActed
<1>6. \A r \in Replicas : log[r][n].executed
  <2> SUFFICES ASSUME NEW r \in Replicas PROVE log[r][n].executed
    OBVIOUS
  <2>1. \A s \in Replicas \ {r} : log[r][n].commits[s] = DigestOf(n)
    BY <1>2, <1>3, <1>4, <1>5 DEF Carried, CommitsCome
  <2>2. Replicas \ {r} \subseteq Commits(r, n) /\ Commits(r, n) \in SUBSET Replicas
    BY <2>1 DEF Commits
  <2>3. Cardinality(Commits(r, n)) >= Quorum
    BY <2>2, OthersSuffice
  <2>4. QED
    BY <1>3, <1>4, <2>3 DEF Carried, QuorumsActed
<1>7. QED
  BY <1>4, <1>6 DEF Unmixed, InOrder

\* The message at the head of the queue while there are no votes.
LEMMA HeadGenuine ==
    ASSUME WindowInv, NEW W \in [Numbers -> Nat], Unmixed(W), queue # <<>>, ~IsVote(queue[1])
    PROVE  LET m == queue[1] IN
           /\ Genuine(W, m) /\ m \in MessageType /\ m.n \in Numbers /\ m.n \in Nat
           /\ m.sender \in Replicas /\ m.n < Len(accepted) /\ Carried(W, m.n)
           /\ DigestOf(m.n) \in Digests /\ DigestOf(m.n) # NoDigest
           /\ \A k \in DOMAIN queue : ~IsVote(queue[k]) /\ (k > 1 => Before(m, queue[k]))
           /\ m.type = "pre_prepare" \/
                \A r, s \in Replicas, n \in Numbers : ~Expects(r, "pre_prepare", n, s)
<1> DEFINE m == queue[1]
<1>1. /\ queue \in Seq(MessageType) /\ 1 \in DOMAIN queue /\ m \in MessageType
      /\ \A k \in DOMAIN queue : k \in Nat
  BY DEF WindowInv, StateType
<1>2. Genuine(W, m) /\ m.n \in Numbers /\ m.n \in Nat /\ m.sender \in Replicas /\ m.n < Len(accepted)
  BY <1>1, HeadTyped DEF Unmixed, Genuine
<1>3. Carried(W, m.n)
  BY <1>2 DEF Unmixed
<1>4. DigestOf(m.n) \in Digests /\ DigestOf(m.n) # NoDigest
  <2>1. accepted \in Seq(Numbers \X Digests)
    BY DEF Unmixed, AcceptedType
  <2>2. m.n + 1 \in 1..Len(accepted)
    BY <1>2, <2>1
  <2>3. accepted[m.n + 1] \in Numbers \X Digests
    BY <2>1, <2>2
  <2>4. QED
    BY <2>3, PbftAssumption DEF DigestOf
<1>5. \A k \in DOMAIN queue : ~IsVote(queue[k]) /\ (k > 1 => Before(m, queue[k]))
  BY <1>1 DEF Unmixed, Phased
<1>6. ASSUME m.type # "pre_prepare", NEW k \in DOMAIN queue
      PROVE  queue[k].type # "pre_prepare"
  <2>1. Phase(m) \in Nat /\ Phase(m) # 0 /\ Phase(queue[k]) \in Nat /\ queue[k] \in MessageType
    BY <1>1, <1>6, PhaseNumber DEF Phase
  <2>2. Phase(queue[k]) # 0
    BY <1>1, <1>5, <2>1 DEF Before
  <2>3. QED
    BY <2>2 DEF Phase
<1>7. QED
  BY <1>1, <1>2, <1>3, <1>4, <1>5, <1>6 DEF Expects

\* What is the same for every handler that broadcasts x or nothing: the other
\* numbers are carried as before.
LEMMA Delivered ==
    ASSUME WindowInv, NEW W \in [Numbers -> Nat], Unmixed(W), queue # <<>>, ~IsVote(queue[1]),
           NEW x \in MessageType, NEW out, out = <<>> \/ out = <<x>>, Advance(out),
           UNCHANGED <<view, accepted>>,
           out = <<x>> => /\ ~IsVote(x) /\ Phase(x) = Phase(queue[1]) + 1
                          /\ x.n = queue[1].n /\ Genuine(W, x)
    PROVE  /\ Phased' /\ AcceptedType'
           /\ \A k \in DOMAIN queue' : IsVote(queue'[k]) \/ Genuine(W, queue[k])'
           /\ \A k \in Numbers : k < Len(accepted) /\ k # queue[1].n
                                 /\ (\A r \in Replicas : log'[r][k] = log[r][k]) => Carried(W, k)'
<1> DEFINE d == IF turn = N - 1 THEN 1 ELSE 0
<1>1. Phased /\ AcceptedType
  BY DEF Unmixed
<1>2. Phased'
  BY <1>1, PhasedMoves
<1>3. AcceptedType'
  BY <1>1 DEF AcceptedType
<1>4. ASSUME NEW k \in DOMAIN queue'
      PROVE  IsVote(queue'[k]) \/ Genuine(W, queue[k])'
  <2>1. \/ k + d \in DOMAIN queue /\ queue'[k] = queue[k + d]
        \/ out = <<x>> /\ queue'[k] = x
    BY QueueMoves
  <2>2. Genuine(W, x) \/ out # <<x>>
    OBVIOUS
  <2> HIDE DEF d
  <2>3. \A j \in DOMAIN queue : Genuine(W, queue[j])
    BY HeadGenuine DEF Unmixed
  <2>4. CASE k + d \in DOMAIN queue /\ queue'[k] = queue[k + d]
    <3>1. Genuine(W, queue[k + d])
      BY <2>3, <2>4
    <3>2. QED
      BY <2>4, <3>1 DEF Genuine, DigestOf
  <2>5. CASE out = <<x>> /\ queue'[k] = x
    BY <2>2, <2>5 DEF Genuine, DigestOf
  <2>6. QED
    BY <2>1, <2>4, <2>5
<1>5. ASSUME NEW k \in Numbers, k < Len(accepted), k # queue[1].n,
             \A r \in Replicas : log'[r][k] = log[r][k]
      PROVE  Carried(W, k)'
  <2>1. Carried(W, k)
    BY <1>5 DEF Unmixed
  <2>2. out = <<x>> => x.n # k
    BY <1>5
  <2>3. \A r, s \in Replicas : \A type \in {"pre_prepare", "prepare", "commit"} :
          Expects(r, type, k, s)' <=> Expects(r, type, k, s)
    BY <1>5, <2>2, ExpectsMoves
  <2>4. DigestOf(k)' = DigestOf(k)
    BY DEF DigestOf
  <2>5. QED
    BY <1>5, <2>1, <2>3, <2>4, CarriedSame
<1>6. QED
  BY <1>2, <1>3, <1>4, <1>5

\* What is sent before the delivery begins is expected besides what was.
LEMMA ExpectsAppended ==
    ASSUME queue \in Seq(MessageType), NEW x \in MessageType, queue' = Append(queue, x),
           turn = 0, turn' = 0, NEW r \in Replicas, NEW type, NEW n, NEW s
    PROVE  /\ Expects(r, type, n, s) => Expects(r, type, n, s)'
           /\ Expects(r, type, n, s)' => \/ Expects(r, type, n, s)
                                         \/ x.type = type /\ x.n = n
           /\ r # x.sender => Expects(r, x.type, x.n, x.sender)'
<1>1. /\ DOMAIN queue = 1..Len(queue) /\ Len(queue) \in Nat /\ r \in Nat
      /\ DOMAIN queue' = 1..(Len(queue) + 1)
      /\ \A k \in DOMAIN queue : k \in DOMAIN queue' /\ queue'[k] = queue[k]
      /\ \A k \in DOMAIN queue' : k \in DOMAIN queue \/ queue'[k] = x
      /\ Len(queue) + 1 \in DOMAIN queue' /\ queue'[Len(queue) + 1] = x
  BY Constants
<1>2. Expects(r, type, n, s) => Expects(r, type, n, s)'
  BY <1>1 DEF Expects
<1>3. Expects(r, type, n, s)' => Expects(r, type, n, s) \/ (x.type = type /\ x.n = n)
  BY <1>1 DEF Expects
<1>4. r # x.sender => Expects(r, x.type, x.n, x.sender)'
  BY <1>1 DEF Expects
<1>5. QED
  BY <1>2, <1>3, <1>4

LEMMA OrderInit == Init => OrderInv
<1> SUFFICES ASSUME Init PROVE OrderInv
  OBVIOUS
<1>1. PICK W \in [Numbers -> Nat] : W = [n \in Numbers |-> 0]
  OBVIOUS
<1>2. queue = <<>> /\ accepted = <<>> /\ turn = 0 /\ DOMAIN queue = {} /\ Len(accepted) = 0
      /\ DOMAIN accepted = {}
  BY DEF Init
<1>3. Phased /\ AcceptedType
  BY <1>2 DEF Phased, AcceptedType
<1>4. \A r \in Replicas, n \in Numbers : ~Has(r, n)
  BY DEF Init, Has, Absent, Entry
<1>5. ASSUME NEW r \in Replicas
      PROVE  InOrder(r)
  <2>1. executed[r] = <<>> /\ Len(executed[r]) = 0 /\ DOMAIN executed[r] = {}
        /\ lastExecuted[r] = -1 /\ seqNum[r] = 0
    BY DEF Init
  <2>2. \A n \in Numbers : ~(n < 0)
    BY PbftAssumption DEF Numbers
  <2>3. QED
    BY <1>2, <1>4, <2>1, <2>2 DEF InOrder
<1>6. \A n \in Numbers : ~(n < Len(accepted))
  BY <1>2, PbftAssumption DEF Numbers
<1>7. Unmixed(W)
  BY <1>2, <1>3, <1>4, <1>5, <1>6 DEF Unmixed, Entries
<1>8. QED
  BY <1>1, <1>7 DEF OrderInv

\* A request is accepted in the view that all replicas are in.
LEMMA OrderRequest ==
    ASSUME WindowInv, N >= 4, NEW V \in [Numbers -> Nat], Unmixed(V),
           NEW r \in Replicas, NEW d \in Digests, HandleRequest(r, d), ~mixed'
    PROVE  OrderInv'
<1>1. PICK L \in Nat, v \in Nat : L = Len(accepted) /\ v = view[r]
  BY DEF Unmixed, AcceptedType, WindowInv, StateType
<1>2. PICK x \in MessageType : x = Message("pre_prepare", v, L, d, r)
  <2>1. seqNum[r] \in Numbers /\ seqNum[r] = L
    BY <1>1 DEF HandleRequest, Unmixed, InOrder
  <2>2. QED
    BY <1>1, <2>1, MessageTyped DEF AnyDigest
<1>3. /\ seqNum[r] = L /\ L \in Numbers /\ turn = 0 /\ turn' = 0 /\ ~draining /\ ~draining'
      /\ queue' = Append(queue, x) /\ accepted' = Append(accepted, <<L, d>>)
      /\ log' = [log EXCEPT ![r] = [log[r] EXCEPT ![L] = Entry(v, d)]]
      /\ seqNum' = [seqNum EXCEPT ![r] = L + 1]
      /\ UNCHANGED <<view, lastExecuted, executed>>
  BY <1>1, <1>2 DEF HandleRequest, Unmixed, InOrder, Phased, OwnEntry
<1>4. /\ \A q \in Replicas : view[q] = v
      /\ v % N = r
      /\ \A k \in DOMAIN queue : ~IsVote(queue[k]) /\ Phase(queue[k]) = 0
  BY <1>1, <1>3 DEF HandleRequest, SameView, Queued, IsVote, Unmixed, Phased, IsPrimary
<1>5. PICK W \in [Numbers -> Nat] : W = [V EXCEPT ![L] = v]
  BY <1>3
<1>6. W[L] = v /\ \A n \in Numbers : n # L => W[n] = V[n]
  BY <1>3, <1>5
<1>7. /\ queue \in Seq(MessageType) /\ DOMAIN queue = 1..Len(queue) /\ Len(queue) \in Nat
      /\ DOMAIN queue' = 1..(Len(queue) + 1)
      /\ \A k \in DOMAIN queue : queue'[k] = queue[k] /\ queue[k] \in MessageType
                                 /\ queue[k].n \in Numbers
      /\ \A k \in DOMAIN queue' : k \in DOMAIN queue \/ (k = Len(queue) + 1 /\ queue'[k] = x)
  <2>1. queue \in Seq(MessageType) /\ x \in MessageType
    BY <1>2 DEF WindowInv, StateType
  <2>2. \A m \in MessageType : m.n \in Numbers
    BY DEF MessageType
  <2>3. QED
    BY <1>3, <2>1, <2>2
<1>8. /\ x.type = "pre_prepare" /\ x.view = v /\ x.n = L /\ x.digest = d /\ x.sender = r
      /\ ~IsVote(x) /\ Phase(x) = 0
  BY <1>2 DEF Message, IsVote, Phase
<1>9. /\ accepted \in Seq(Numbers \X Digests) /\ Len(accepted') = L + 1
      /\ accepted' \in Seq(Numbers \X Digests)
      /\ DOMAIN accepted = 1..L /\ DOMAIN accepted' = 1..(L + 1)
      /\ \A k \in 1..L : accepted'[k] = accepted[k]
      /\ accepted'[L + 1] = <<L, d>>
  BY <1>1, <1>3 DEF Unmixed, AcceptedType
<1>10. /\ \A n \in Numbers : n < L => DigestOf(n)' = DigestOf(n)
       /\ DigestOf(L)' = d
  <2>1. \A n \in Numbers : n < L => n + 1 \in 1..L
    BY <1>1, PbftAssumption DEF Numbers
  <2>2. QED
    BY <1>9, <2>1 DEF DigestOf
<1>11. AcceptedType'
  <2>1. \A k \in DOMAIN accepted : accepted[k][1] = k - 1
    BY DEF Unmixed, AcceptedType
  <2>2. accepted'[L + 1][1] = (L + 1) - 1
    BY <1>1, <1>9
  <2>3. \A k \in DOMAIN accepted' : k \in DOMAIN accepted \/ k = L + 1
    BY <1>1, <1>9
  <2>4. \A k \in DOMAIN accepted' : accepted'[k][1] = k - 1
    BY <1>9, <2>1, <2>2, <2>3
  <2>5. QED
    BY <1>9, <2>4 DEF AcceptedType
<1>12. \A k \in DOMAIN queue : Genuine(V, queue[k])
  BY <1>4 DEF Unmixed
<1>13. Phased'
  <2>1. \A k \in DOMAIN queue' : ~IsVote(queue'[k]) /\ Phase(queue'[k]) = 0
    BY <1>4, <1>7, <1>8
  <2>2. ASSUME NEW i \in DOMAIN queue', NEW j \in DOMAIN queue', i < j
        PROVE  Before(queue'[i], queue'[j])
    <3>1. i \in DOMAIN queue
      BY <1>7, <2>2
    <3>2. CASE j \in DOMAIN queue
      BY <1>4, <1>7, <2>2, <3>1, <3>2 DEF Unmixed, Phased
    <3>3. CASE queue'[j] = x
      <4>1. queue[i].n < L /\ queue[i].n \in Nat
        BY <1>1, <1>7, <1>12, <3>1, PbftAssumption DEF Genuine, Numbers
      <4>2. QED
        BY <1>1, <1>4, <1>7, <1>8, <3>1, <3>3, <4>1 DEF Before
    <3>4. QED
      BY <1>7, <3>2, <3>3
  <2>3. 1 \in DOMAIN queue'
    BY <1>7
  <2>4. \A k \in DOMAIN queue' : Ahead(queue'[k], queue'[1])
    BY <2>1, <2>3 DEF Ahead
  <2>5. QED
    BY <1>3, <2>1, <2>2, <2>4 DEF Phased
<1>14. ASSUME NEW k \in DOMAIN queue'
       PROVE  Genuine(W, queue[k])'
  <2>1. CASE k \in DOMAIN queue
    <3>1. Genuine(V, queue[k]) /\ queue'[k] = queue[k] /\ queue[k].n \in Numbers /\ queue[k].n < L
      BY <1>1, <1>7, <1>12, <2>1 DEF Genuine
    <3>2. accepted'[queue[k].n + 1][2] = DigestOf(queue[k].n)
      BY <1>10, <3>1 DEF DigestOf
    <3>3. queue[k].n < Len(accepted') /\ queue[k].n # L /\ W[queue[k].n] = V[queue[k].n]
      <4>1. queue[k].n \in Nat
        BY <3>1, PbftAssumption DEF Numbers
      <4>2. Len(accepted') = L + 1 /\ queue[k].n < L
        BY <1>9, <3>1
      <4>3. queue[k].n < L + 1 /\ queue[k].n # L
        BY <1>1, <4>1, <4>2
      <4>4. QED
        BY <1>6, <3>1, <4>2, <4>3
    <3>4. QED
      BY <1>3, <3>1, <3>2, <3>3 DEF Genuine, DigestOf
  <2>2. CASE queue'[k] = x
    <3>1. L < Len(accepted') /\ accepted'[L + 1][2] = d
      BY <1>9
    <3>2. QED
      BY <1>3, <1>4, <1>6, <1>8, <2>2, <3>1 DEF Genuine, DigestOf
  <2>3. QED
    BY <1>7, <2>1, <2>2
<1>15. /\ log'[r][L] = Entry(v, d)
       /\ \A q \in Replicas, n \in Numbers : q # r \/ n # L => log'[q][n] = log[q][n]
  BY <1>3 DEF WindowInv, StateType
<1>16. \A n \in Numbers : n # L /\ n < Len(accepted') => n < L
  BY <1>9, PbftAssumption DEF Numbers
<1>17. \A q \in Replicas, n \in Numbers : Has(q, n) => n < L
  BY <1>1 DEF Unmixed, Entries
<1>18. Entries(W)'
  <2> SUFFICES ASSUME NEW q \in Replicas, NEW n \in Numbers, Has(q, n)'
               PROVE  /\ n < Len(accepted') /\ log'[q][n].digest = accepted'[n + 1][2]
                      /\ log'[q][n].view = W[n]
    BY DEF Entries, DigestOf
  <2>1. CASE q = r /\ n = L
    BY <1>1, <1>6, <1>9, <1>15, <2>1 DEF Entry
  <2>2. CASE q # r \/ n # L
    <3>1. Has(q, n) /\ log'[q][n] = log[q][n]
      BY <1>15, <2>2 DEF Has
    <3>2. n < L /\ log[q][n].digest = DigestOf(n) /\ log[q][n].view = V[n]
      BY <1>1, <3>1 DEF Unmixed, Entries
    <3>3. n < Len(accepted') /\ n # L
      BY <1>1, <1>9, <3>2, PbftAssumption DEF Numbers
    <3>4. accepted'[n + 1][2] = DigestOf(n)
      BY <1>10, <3>2 DEF DigestOf
    <3>5. QED
      BY <1>6, <3>1, <3>2, <3>3, <3>4
  <2>3. QED
    BY <2>1, <2>2
<1>19. ASSUME NEW q \in Replicas
       PROVE  InOrder(q)'
  <2>1. InOrder(q) /\ Len(executed[q]) \in Nat /\ DOMAIN executed[q] = 1..Len(executed[q])
    BY DEF Unmixed, WindowInv, StateType
  <2>2. Len(executed[q]) <= L
    BY <1>1, <2>1 DEF InOrder
  <2>3. \A k \in DOMAIN executed[q] : executed[q][k] = accepted'[k]
    <3>1. \A k \in DOMAIN executed[q] : k \in 1..L
      BY <2>1, <2>2
    <3>2. \A k \in DOMAIN executed[q] : executed[q][k] = accepted[k]
      BY <2>1 DEF InOrder
    <3>3. QED
      BY <1>9, <3>1, <3>2
  <2>4. \A n \in Numbers : (Has(q, n) /\ log[q][n].executed)' <=> Has(q, n) /\ log[q][n].executed
    <3> TAKE n \in Numbers
    <3>1. CASE q = r /\ n = L
      <4>1. ~log'[r][L].executed
        BY <1>15 DEF Entry
      <4>2. ~Has(r, L)
        BY <1>3, <1>17
      <4>3. QED
        BY <3>1, <4>1, <4>2
    <3>2. CASE q # r \/ n # L
      BY <1>15, <3>2 DEF Has
    <3>3. QED
      BY <3>1, <3>2
  <2>5. IsPrimary(q)' => seqNum'[q] = L + 1
    BY <1>3, <1>4 DEF IsPrimary, WindowInv, StateType
  <2>6. QED
    BY <1>3, <1>9, <2>1, <2>2, <2>3, <2>4, <2>5 DEF InOrder
<1>20. ASSUME NEW k \in Numbers, k < L
       PROVE  Carried(W, k)'
  <2>1. k # L /\ W[k] = V[k]
    BY <1>6, <1>20, PbftAssumption DEF Numbers
  <2>2. Carried(V, k)
    BY <1>1, <1>20 DEF Unmixed
  <2>3. Carried(W, k)
    BY <2>1, <2>2 DEF Carried, PrePrepared, PreparesCome, QuorumsActed, Prepares, PrepareFor
  <2>4. \A q, s \in Replicas : \A type \in {"pre_prepare", "prepare", "commit"} :
          Expects(q, type, k, s)' <=> Expects(q, type, k, s)
    BY <1>3, <1>7, <1>8, <2>1, ExpectsAppended
  <2>5. QED
    BY <1>10, <1>15, <1>20, <2>1, <2>3, <2>4, CarriedSame
<1>21. Carried(W, L)'
  <2>1. /\ \A q \in Replicas : Has(q, L)' <=> q = r
        /\ d # NoDigest /\ W[L] % N = r
    BY <1>3, <1>4, <1>6, <1>15, <1>17, PbftAssumption DEF Has, Entry
  <2>2. \A q \in Replicas : q # r => Expects(q, "pre_prepare", L, r)'
    BY <1>3, <1>7, <1>8, ExpectsAppended
  <2>3. PrePrepared(W, L)'
    BY <2>1, <2>2 DEF PrePrepared
  <2>4. PreparesCome(W, L)'
    BY <2>1 DEF PreparesCome
  <2>5. log'[r][L].commits = [s \in Replicas |-> NoDigest]
        /\ log'[r][L].prepares = [s \in Replicas |-> NoPrepare]
    BY <1>15 DEF Entry
  <2>6. CommitsCome(L)'
    BY <1>10, <2>1, <2>5 DEF CommitsCome
  <2>7. QuorumsActed(W, L)'
    <3>1. Prepares(W, r, L)' = {}
      <4>1. W[L] \in Nat /\ W[L] # -1
        BY <1>3, <1>5
      <4>2. PrepareFor(W, L)' # NoPrepare
        BY <4>1 DEF PrepareFor, NoPrepare
      <4>3. QED
        BY <2>5, <4>2 DEF Prepares
    <3>2. Commits(r, L)' = {}
      BY <1>10, <2>1, <2>5 DEF Commits
    <3>3. ~(0 >= Quorum) /\ Cardinality({}) = 0
      BY QuorumOfOthers, FS_EmptySet
    <3>4. QED
      BY <2>1, <3>1, <3>2, <3>3 DEF QuorumsActed
  <2>8. QED
    BY <2>3, <2>4, <2>6, <2>7 DEF Carried
<1>22. Unmixed(W)'
  BY <1>11, <1>13, <1>14, <1>16, <1>18, <1>19, <1>20, <1>21 DEF Unmixed
<1>23. QED
  BY <1>22 DEF OrderInv

\* While only votes are queued.
LEMMA OrderVotes ==
    ASSUME WindowInv, NEW W \in [Numbers -> Nat], Unmixed(W), Phased',
           \A k \in DOMAIN queue : IsVote(queue[k]), \A k \in DOMAIN queue' : IsVote(queue'[k]),
           UNCHANGED <<log, accepted, executed, lastExecuted>>,
           \A r \in Replicas : IsPrimary(r)' => seqNum'[r] = Len(accepted)
    PROVE  OrderInv'
<1>1. AcceptedType' /\ Entries(W)'
  BY DEF Unmixed, AcceptedType, Entries, Has, DigestOf
<1>2. \A r \in Replicas : InOrder(r)'
  BY DEF Unmixed, InOrder, Has
<1>3. ASSUME NEW n \in Numbers, n < Len(accepted')
      PROVE  Carried(W, n)'
  <2>1. \A r, s \in Replicas : \A type \in {"pre_prepare", "prepare", "commit"} :
          ~Expects(r, type, n, s) /\ ~Expects(r, type, n, s)'
    BY DEF Expects, IsVote
  <2>2. Carried(W, n)
    BY <1>3 DEF Unmixed
  <2>3. DigestOf(n)' = DigestOf(n)
    BY DEF DigestOf
  <2>4. QED
    BY <2>1, <2>2, <2>3, CarriedSame
<1>4. Unmixed(W)'
  BY <1>1, <1>2, <1>3 DEF Unmixed
<1>5. QED
  BY <1>4 DEF OrderInv

LEMMA OrderStart ==
    ASSUME WindowInv, NEW W \in [Numbers -> Nat], Unmixed(W),
           NEW r \in Replicas, StartViewChange(r), ~mixed'
    PROVE  OrderInv'
<1>1. PICK x : queue' = Append(queue, x) /\ IsVote(x)
  BY DEF StartViewChange, Message, IsVote
<1>2. /\ turn = 0 /\ turn' = 0 /\ ~draining /\ ~draining'
      /\ \A k \in DOMAIN queue : queue[k].type # "pre_prepare"
  BY DEF StartViewChange, Queued, Unmixed, Phased
<1>3. \A k \in DOMAIN queue : IsVote(queue[k])
  BY <1>2 DEF Unmixed, Phased, Phase
<1>4. /\ queue \in Seq(MessageType) /\ DOMAIN queue = 1..Len(queue) /\ Len(queue) \in Nat
      /\ DOMAIN queue' = 1..(Len(queue) + 1)
      /\ \A k \in DOMAIN queue : queue'[k] = queue[k]
      /\ \A k \in DOMAIN queue' : k \in DOMAIN queue \/ queue'[k] = x
  <2>1. queue \in Seq(MessageType)
    BY DEF WindowInv, StateType
  <2>2. QED
    BY <1>1, <2>1
<1>5. \A k \in DOMAIN queue' : IsVote(queue'[k])
  BY <1>1, <1>3, <1>4
<1>6. Phased'
  BY <1>2, <1>5 DEF Phased
<1>7. UNCHANGED <<log, accepted, executed, lastExecuted, view, seqNum>>
  BY DEF StartViewChange
<1>8. \A q \in Replicas : IsPrimary(q)' => seqNum'[q] = Len(accepted)
  BY <1>7 DEF IsPrimary, Unmixed, InOrder
<1>9. QED
  BY <1>3, <1>5, <1>6, <1>7, <1>8, OrderVotes

\* When the votes are delivered, all that was accepted has been executed, so that
\* the new primary goes on with the next number.
LEMMA OrderViewChange ==
    ASSUME WindowInv, N >= 4, NEW W \in [Numbers -> Nat], Unmixed(W), queue # <<>>,
           HandleViewChange(turn, queue[1])
    PROVE  OrderInv'
<1>1. turn \in Replicas /\ IsVote(queue[1]) /\ Advance(<<>>) /\ Phased
  BY DEF HandleViewChange, Receives, IsVote, WindowInv, StateType, Unmixed
<1>2. /\ Phased'
      /\ \A k \in DOMAIN queue : IsVote(queue[k])
      /\ \A k \in DOMAIN queue' : IsVote(queue'[k])
  BY <1>1, PhasedVotes
<1>3. UNCHANGED <<log, accepted, executed, lastExecuted>>
  BY DEF HandleViewChange
<1>4. FirstNumber(turn) = Len(accepted)
  <2>1. /\ Len(accepted) \in Nat /\ Len(executed[turn]) \in Nat
        /\ accepted \in Seq(Numbers \X Digests)
        /\ \A k \in DOMAIN accepted : accepted[k][1] = k - 1
    BY <1>1 DEF Unmixed, AcceptedType, WindowInv, StateType
  <2>2. Len(executed[turn]) <= Len(accepted) /\ lastExecuted[turn] = Len(executed[turn]) - 1
    BY <1>1 DEF Unmixed, InOrder
  <2>3. Len(accepted) > 0 => Len(accepted) - 1 \in Numbers
    BY <2>1, SMTT(30)
  <2>4. Len(accepted) > 0 => Len(accepted) - 1 < Len(executed[turn])
    <3>1. SUFFICES ASSUME NEW n \in Numbers, n = Len(accepted) - 1, n < Len(accepted)
                   PROVE  n < Len(executed[turn])
      BY <2>1, <2>3
    <3>2. QED
      BY <1>1, <1>2, <3>1, Finished
  <2>5. QED
    BY <2>1, <2>2, <2>4 DEF FirstNumber
<1>5. ASSUME NEW q \in Replicas, IsPrimary(q)'
      PROVE  seqNum'[q] = Len(accepted)
  <2>1. CASE UNCHANGED <<view, seqNum>>
    BY <1>5, <2>1 DEF IsPrimary, Unmixed, InOrder
  <2>2. CASE /\ view' = [view EXCEPT ![turn] = queue[1].view]
             /\ seqNum' = [seqNum EXCEPT ![turn] = FirstNumber(turn)]
    <3>1. CASE q = turn
      BY <1>4, <2>2, <3>1 DEF WindowInv, StateType
    <3>2. CASE q # turn
      <4>1. seqNum'[q] = seqNum[q] /\ view'[q] = view[q]
        BY <2>2, <3>2 DEF WindowInv, StateType
      <4>2. QED
        BY <1>5, <4>1 DEF IsPrimary, Unmixed, InOrder
    <3>3. QED
      BY <3>1, <3>2
  <2>3. QED
    BY <2>1, <2>2 DEF HandleViewChange
<1>6. QED
  BY <1>2, <1>3, <1>5, OrderVotes

\* Who gets a PREPARE or a COMMIT has the number.
LEMMA HeadKnown ==
    ASSUME WindowInv, NEW W \in [Numbers -> Nat], Unmixed(W), queue # <<>>,
           ~IsVote(queue[1]), queue[1].type # "pre_prepare"
    PROVE  \A r \in Replicas : Has(r, queue[1].n)
<1>1. queue[1].n \in Numbers /\ W[queue[1].n] % N \in Replicas
  BY HeadGenuine, Constants
<1>2. \A r, s \in Replicas : ~Expects(r, "pre_prepare", queue[1].n, s)
  BY <1>1, HeadGenuine
<1>3. PrePrepared(W, queue[1].n)
  BY HeadGenuine DEF Carried
<1>4. QED
  BY <1>1, <1>2, <1>3 DEF PrePrepared

\* A PRE-PREPARE is for all but its sender.
LEMMA HeadAccepted ==
    ASSUME WindowInv, NEW W \in [Numbers -> Nat], Unmixed(W), queue # <<>>,
           queue[1].type = "pre_prepare", turn # queue[1].sender
    PROVE  AcceptsPrePrepare(turn, queue[1])
<1> DEFINE m == queue[1]
<1>1. /\ Genuine(W, m) /\ m.n \in Numbers /\ m.n \in Nat /\ turn \in Replicas
      /\ PrePrepared(W, m.n)
  BY HeadGenuine DEF IsVote, Carried, WindowInv, StateType
<1>2. m.sender = W[m.n] % N /\ view[turn] = m.view /\ m.view = W[m.n] /\ m.sender \in Replicas
  BY <1>1, Constants DEF Genuine
<1>3. m.n < Window
  BY <1>1, <1>2 DEF PrePrepared, WindowInv
<1>4. checkpoint[turn] = 0
  BY <1>1 DEF WindowInv
<1>5. QED
  BY <1>1, <1>2, <1>3, <1>4, PbftAssumption DEF AcceptsPrePrepare, IsPrimary, HighWater

\* What is ignored is a vote, or a message that comes to its sender.
LEMMA OrderIgnore ==
    ASSUME WindowInv, NEW W \in [Numbers -> Nat], Unmixed(W), queue # <<>>, Ignore
    PROVE  OrderInv'
<1> DEFINE m == queue[1]
<1>1. /\ Advance(<<>>) /\ turn \in Replicas /\ m \in MessageType
      /\ UNCHANGED <<log, view, seqNum, accepted, executed, lastExecuted>>
  BY HeadTyped DEF Ignore, WindowInv, StateType
<1>2. CASE IsVote(m)
  <2>1. /\ Phased'
        /\ \A k \in DOMAIN queue : IsVote(queue[k])
        /\ \A k \in DOMAIN queue' : IsVote(queue'[k])
    BY <1>1, <1>2, PhasedVotes DEF Unmixed
  <2>2. \A r \in Replicas : IsPrimary(r)' => seqNum'[r] = Len(accepted)
    BY <1>1 DEF IsPrimary, Unmixed, InOrder
  <2>3. QED
    BY <1>1, <2>1, <2>2, OrderVotes
<1>3. CASE ~IsVote(m)
  <2>1. turn = m.sender
    BY <1>1, <1>3, HeadKnown, HeadAccepted DEF Ignore
  <2>2. <<>> # <<m>>
    OBVIOUS
  <2>3. /\ Phased' /\ AcceptedType'
        /\ \A k \in DOMAIN queue' : IsVote(queue'[k]) \/ Genuine(W, queue[k])'
        /\ \A k \in Numbers : k < Len(accepted) /\ k # m.n => Carried(W, k)'
    BY <1>1, <1>3, <2>2, Delivered
  <2>4. PICK n : n = m.n
    OBVIOUS
  <2>5. Carried(W, n)'
    <3>1. n \in Numbers /\ Carried(W, n)
      BY <1>3, <2>4, HeadGenuine
    <3>2. ASSUME NEW r \in Replicas, NEW s \in Replicas,
                 NEW type \in {"pre_prepare", "prepare", "commit"}
          PROVE  Expects(r, type, n, s)' <=> Expects(r, type, n, s)
      <4>1. Expects(r, type, n, s) => r # s
        BY DEF Expects
      <4>2. /\ Expects(r, type, n, s) => Expects(r, type, n, s)' \/ (r = turn /\ m.sender = s)
            /\ Expects(r, type, n, s)' => Expects(r, type, n, s)
        BY <1>1, <2>2, ExpectsMoves
      <4>3. QED
        BY <2>1, <4>1, <4>2
    <3>3. QED
      BY <1>1, <3>1, <3>2, CarriedSame DEF DigestOf
  <2>6. Entries(W)' /\ \A r \in Replicas : InOrder(r)'
    BY <1>1 DEF Unmixed, Entries, InOrder, Has, DigestOf, IsPrimary
  <2>7. Unmixed(W)'
    BY <1>1, <2>3, <2>4, <2>5, <2>6 DEF Unmixed
  <2>8. QED
    BY <2>7 DEF OrderInv
<1>4. QED
  BY <1>2, <1>3

\* An entry that stands for the accepted request is written, and nothing executed.
LEMMA EntryWritten ==
    ASSUME WindowInv, NEW W \in [Numbers -> Nat], Unmixed(W), NEW r \in Replicas,
           NEW n \in Numbers, NEW e, n < Len(accepted), SetEntry(r, n, e),
           e.digest = DigestOf(n), e.view = W[n], DigestOf(n) # NoDigest,
           UNCHANGED <<view, seqNum, accepted>>
    PROVE  /\ Entries(W)'
           /\ log'[r][n] = e
           /\ \A q \in Replicas, k \in Numbers : q # r \/ k # n => log'[q][k] = log[q][k]
           /\ /\ UNCHANGED <<executed, lastExecuted>>
              /\ e.executed <=> Has(r, n) /\ log[r][n].executed
              => \A q \in Replicas : InOrder(q)'
<1>1. /\ log'[r][n] = e
      /\ \A q \in Replicas, k \in Numbers : q # r \/ k # n => log'[q][k] = log[q][k]
  BY DEF SetEntry, WindowInv, StateType
<1>2. Entries(W)'
  <2> SUFFICES ASSUME NEW q \in Replicas, NEW k \in Numbers, Has(q, k)'
               PROVE  /\ k < Len(accepted) /\ log'[q][k].digest = DigestOf(k)
                      /\ log'[q][k].view = W[k]
    BY DEF Entries, DigestOf
  <2>1. CASE q = r /\ k = n
    BY <1>1, <2>1
  <2>2. CASE q # r \/ k # n
    BY <1>1, <2>2 DEF Unmixed, Entries, Has
  <2>3. QED
    BY <2>1, <2>2
<1>3. ASSUME UNCHANGED <<executed, lastExecuted>>,
             e.executed <=> Has(r, n) /\ log[r][n].executed,
             NEW q \in Replicas
      PROVE  InOrder(q)'
  <2>1. \A k \in Numbers : (Has(q, k) /\ log[q][k].executed)' <=> Has(q, k) /\ log[q][k].executed
    <3> TAKE k \in Numbers
    <3>1. CASE q = r /\ k = n
      BY <1>1, <1>3, <3>1 DEF Has
    <3>2. CASE q # r \/ k # n
      BY <1>1, <3>2 DEF Has
    <3>3. QED
      BY <3>1, <3>2
  <2>2. QED
    BY <1>3, <2>1 DEF Unmixed, InOrder, IsPrimary
<1>4. QED
  BY <1>1, <1>2, <1>3

\* A backup enters the PRE-PREPARE and broadcasts its PREPARE.
LEMMA OrderPrePrepare ==
    ASSUME WindowInv, N >= 4, NEW W \in [Numbers -> Nat], Unmixed(W), queue # <<>>,
           HandlePrePrepare(turn, queue[1])
    PROVE  OrderInv'
<1>1. PICK r \in Replicas, m \in MessageType, n \in Numbers, D \in Digests :
        r = turn /\ m = queue[1] /\ n = m.n /\ D = DigestOf(n)
  BY HeadGenuine DEF WindowInv, StateType, HandlePrePrepare, Receives, IsVote
<1>2. PICK p \in Replicas : p = W[n] % N
  BY Constants
<1>3. /\ m.type = "pre_prepare" /\ r # p /\ m.sender = p /\ m.digest = D /\ m.view = W[n]
      /\ ~IsVote(queue[1]) /\ Phase(queue[1]) = 0
      /\ \A q \in Replicas : view[q] = W[n]
      /\ n < Len(accepted) /\ Carried(W, n) /\ D # NoDigest /\ W[n] \in Nat
      /\ 1 \in DOMAIN queue /\ DOMAIN queue \subseteq Nat
      /\ \A k \in DOMAIN queue : k > 1 => Before(m, queue[k]) /\ queue[k] \in MessageType
  <2>1. m.type = "pre_prepare" /\ r # m.sender /\ ~IsVote(m) /\ Phase(m) = 0
    BY <1>1 DEF HandlePrePrepare, Receives, IsVote, Phase
  <2>2. queue \in Seq(MessageType)
    BY DEF WindowInv, StateType
  <2>3. QED
    BY <1>1, <1>2, <2>1, <2>2, HeadGenuine DEF Genuine
<1>4. ~Has(r, n)
  <2>1. Expects(r, "pre_prepare", n, p)
    <3>1. r >= turn
      BY <1>1, Constants
    <3>2. QED
      BY <1>1, <1>3, <3>1 DEF Expects
  <2>2. QED
    BY <1>2, <1>3, <2>1 DEF Carried, PrePrepared
<1>5. PICK e : e = [Entry(W[n], D) EXCEPT !.prepares = [@ EXCEPT ![r] = PrepareFor(W, n)]]
  OBVIOUS
<1>6. /\ e.digest = D /\ e.view = W[n] /\ e.executed = FALSE
      /\ e.commits = [s \in Replicas |-> NoDigest]
      /\ e.prepares = [s \in Replicas |-> IF s = r THEN PrepareFor(W, n) ELSE NoPrepare]
  BY <1>5 DEF Entry
<1>7. PrepareFor(W, n) # NoPrepare /\ PrepareFor(W, n) = [view |-> W[n], digest |-> D]
  <2>1. W[n] # -1
    BY <1>3
  <2>2. QED
    BY <1>1, <2>1 DEF PrepareFor, NoPrepare
<1>8. {s \in Replicas : e.prepares[s] = PrepareFor(W, n)} = {r}
  BY <1>6, <1>7
<1>9. Cardinality({r}) = 1 /\ ~(1 >= Quorum) /\ ~(0 >= Quorum)
  <2>1. Cardinality({r}) = 1
    BY FS_Singleton
  <2>2. Quorum \in Nat /\ Quorum > 1
    BY QuorumOfOthers
  <2>3. QED
    BY <2>1, <2>2
<1>10. ~Prepared(e, W[n])
  <2>1. {s \in Replicas : e.prepares[s] = [view |-> W[n], digest |-> e.digest]} = {r}
    BY <1>6, <1>7, <1>8
  <2>2. QED
    BY <1>9, <2>1 DEF Prepared
<1>11. PICK x \in MessageType : x = Message("prepare", W[n], n, D, r)
  BY <1>1, <1>2, <1>3, MessageTyped DEF AnyDigest
<1>12. /\ SetEntry(r, n, e) /\ Advance(<<x>>)
       /\ UNCHANGED <<view, seqNum, lastExecuted, accepted, executed>>
  <2>1. EntryFor(r, m) = Entry(W[n], D)
    BY <1>1, <1>3, <1>4 DEF EntryFor
  <2>2. view[r] = W[n] /\ [view |-> view[r], digest |-> m.digest] = PrepareFor(W, n)
    BY <1>3, <1>7
  <2>3. e = [EntryFor(r, m) EXCEPT
               !.prepares = [@ EXCEPT ![r] = [view |-> view[r], digest |-> m.digest]]]
    BY <1>5, <2>1, <2>2
  <2>4. x = Message("prepare", view[r], m.n, m.digest, r)
    BY <1>1, <1>3, <1>11
  <2>5. QED
    BY <1>1, <1>10, <2>2, <2>3, <2>4 DEF HandlePrePrepare
<1>13. /\ x.type = "prepare" /\ x.n = n /\ x.sender = r /\ x.view = W[n] /\ x.digest = D
       /\ ~IsVote(x) /\ Phase(x) = Phase(queue[1]) + 1 /\ Genuine(W, x) /\ x.n = queue[1].n
  <2>1. /\ x.type = "prepare" /\ x.n = n /\ x.sender = r /\ x.view = W[n] /\ x.digest = D
        /\ ~IsVote(x) /\ Phase(x) = 1
    BY <1>11 DEF Message, IsVote, Phase
  <2>2. QED
    BY <1>1, <1>3, <2>1 DEF Genuine
<1>14. /\ Entries(W)' /\ \A q \in Replicas : InOrder(q)'
       /\ log'[r][n] = e
       /\ \A q \in Replicas, k \in Numbers : q # r \/ k # n => log'[q][k] = log[q][k]
  BY <1>1, <1>3, <1>4, <1>6, <1>12, EntryWritten
<1>15. /\ Phased' /\ AcceptedType'
       /\ \A k \in DOMAIN queue' : IsVote(queue'[k]) \/ Genuine(W, queue[k])'
       /\ \A k \in Numbers : k < Len(accepted) /\ k # n => Carried(W, k)'
  BY <1>1, <1>3, <1>12, <1>13, <1>14, Delivered
<1>16. /\ \A q \in Replicas : Has(q, n)' <=> q = r \/ Has(q, n)
       /\ PrepareFor(W, n)' = PrepareFor(W, n) /\ DigestOf(n)' = D
  BY <1>1, <1>3, <1>6, <1>12, <1>14 DEF Has, PrepareFor, DigestOf
<1>17. ASSUME NEW q \in Replicas, NEW s \in Replicas
       PROVE  /\ \A type \in {"prepare", "commit"} : Expects(q, type, n, s) => Expects(q, type, n, s)'
              /\ q # r => (Expects(q, "pre_prepare", n, s)' <=> Expects(q, "pre_prepare", n, s))
              /\ ~Expects(r, "pre_prepare", n, s)'
              /\ q # r => Expects(q, "prepare", n, r)'
  <2>1. \A type \in {"prepare", "commit"} : Expects(q, type, n, s) => Expects(q, type, n, s)'
    BY <1>1, <1>3, <1>12, ExpectsMoves
  <2>2. q # r => (Expects(q, "pre_prepare", n, s)' <=> Expects(q, "pre_prepare", n, s))
    BY <1>1, <1>12, <1>13, ExpectsMoves
  <2>3. ~Expects(r, "pre_prepare", n, s)'
    <3>1. ASSUME NEW k \in DOMAIN queue, k > 1, queue[k].type = "pre_prepare"
          PROVE  queue[k].n # n
      <4>1. Phase(queue[k]) = 0 /\ Phase(m) = 0
        BY <1>1, <1>3, <3>1 DEF Phase
      <4>2. m.n < queue[k].n /\ m.n \in Nat /\ queue[k].n \in Nat
        BY <1>3, <3>1, <4>1, PhaseNumber DEF Before
      <4>3. QED
        BY <1>1, <4>2
    <3>2. QED
      BY <1>1, <1>12, <1>13, <3>1, ExpectsMoves
  <2>4. q # r => Expects(q, "prepare", n, r)'
    BY <1>12, <1>13, ExpectsMoves
  <2>5. QED
    BY <2>1, <2>2, <2>3, <2>4
<1>18. PrePrepared(W, n)'
  <2>1. PrePrepared(W, n)
    BY <1>3 DEF Carried
  <2>2. Has(p, n)'
    BY <1>2, <1>16, <2>1 DEF PrePrepared
  <2>3. ASSUME NEW q \in Replicas, q # p
        PROVE  /\ Has(q, n)' <=> ~Expects(q, "pre_prepare", n, p)'
               /\ Has(q, n)' => log'[q][n].prepares[q] = PrepareFor(W, n)
    <3>1. CASE q = r
      BY <1>6, <1>14, <1>16, <1>17, <3>1
    <3>2. CASE q # r
      BY <1>2, <1>14, <1>16, <1>17, <2>1, <2>3, <3>2 DEF PrePrepared
    <3>3. QED
      BY <3>1, <3>2
  <2>4. QED
    BY <1>2, <1>16, <2>2, <2>3 DEF PrePrepared
<1>19. PreparesCome(W, n)'
  <2> SUFFICES ASSUME NEW q \in Replicas, NEW s \in Replicas, q # s, s # p, Has(s, n)'
               PROVE  \/ Has(q, n)' /\ log'[q][n].prepares[s] = PrepareFor(W, n)
                      \/ Expects(q, "prepare", n, s)'
    BY <1>2, <1>16 DEF PreparesCome
  <2>1. CASE s = r
    BY <1>17, <2>1
  <2>2. CASE s # r
    <3>1. Has(s, n)
      BY <1>16, <2>2
    <3>2. \/ Has(q, n) /\ log[q][n].prepares[s] = PrepareFor(W, n)
          \/ Expects(q, "prepare", n, s)
      BY <1>2, <1>3, <3>1 DEF Carried, PreparesCome
    <3>3. QED
      BY <1>4, <1>14, <1>16, <1>17, <3>2
  <2>3. QED
    BY <2>1, <2>2
<1>20. CommitsCome(n)'
  <2> SUFFICES ASSUME NEW q \in Replicas, NEW s \in Replicas, q # s, Has(s, n)',
                      log'[s][n].commits[s] = D
               PROVE  \/ Has(q, n)' /\ log'[q][n].commits[s] = D
                      \/ Expects(q, "commit", n, s)'
    BY <1>16 DEF CommitsCome
  <2>1. s # r
    BY <1>3, <1>6, <1>14
  <2>2. Has(s, n) /\ log[s][n].commits[s] = D
    BY <1>14, <1>16, <2>1
  <2>3. \/ Has(q, n) /\ log[q][n].commits[s] = D
        \/ Expects(q, "commit", n, s)
    BY <1>1, <1>3, <2>2 DEF Carried, CommitsCome
  <2>4. QED
    BY <1>4, <1>14, <1>16, <1>17, <2>3
<1>21. QuorumsActed(W, n)'
  <2> SUFFICES ASSUME NEW q \in Replicas, Has(q, n)'
               PROVE  /\ Cardinality(Prepares(W, q, n)') >= Quorum => log'[q][n].commits[q] = D
                      /\ Cardinality(Commits(q, n)') >= Quorum => log'[q][n].executed
    BY <1>16 DEF QuorumsActed
  <2>1. CASE q = r
    <3>1. Prepares(W, r, n)' = {r}
      BY <1>8, <1>14, <1>16 DEF Prepares
    <3>2. Commits(r, n)' = {} /\ Cardinality({}) = 0
      BY <1>3, <1>6, <1>14, <1>16, FS_EmptySet DEF Commits
    <3>3. QED
      BY <1>9, <2>1, <3>1, <3>2
  <2>2. CASE q # r
    <3>1. Prepares(W, q, n)' = Prepares(W, q, n) /\ Commits(q, n)' = Commits(q, n)
      BY <1>1, <1>14, <1>16, <2>2 DEF Prepares, Commits
    <3>2. QED
      BY <1>1, <1>3, <1>14, <1>16, <2>2, <3>1 DEF Carried, QuorumsActed
  <2>3. QED
    BY <2>1, <2>2
<1>22. Carried(W, n)'
  BY <1>18, <1>19, <1>20, <1>21 DEF Carried
<1>23. Unmixed(W)'
  BY <1>12, <1>14, <1>15, <1>22 DEF Unmixed
<1>24. QED
  BY <1>23 DEF OrderInv

\* A replica records a PREPARE, and broadcasts its COMMIT once the entry is prepared.
LEMMA OrderPrepare ==
    ASSUME WindowInv, NEW W \in [Numbers -> Nat], Unmixed(W), queue # <<>>,
           HandlePrepare(turn, queue[1])
    PROVE  OrderInv'
<1>1. PICK r \in Replicas, m \in MessageType, n \in Numbers, D \in Digests, from \in Replicas :
        r = turn /\ m = queue[1] /\ n = m.n /\ D = DigestOf(n) /\ from = m.sender
  BY HeadGenuine DEF WindowInv, StateType, HandlePrepare, Receives, IsVote
<1>2. PICK p \in Replicas : p = W[n] % N
  BY Constants
<1>3. /\ m.type = "prepare" /\ r # from /\ m.digest = D /\ m.view = W[n]
      /\ ~IsVote(queue[1]) /\ Phase(queue[1]) = 1
      /\ n < Len(accepted) /\ Carried(W, n) /\ D # NoDigest
      /\ \A q \in Replicas : Has(q, n)
      /\ \A q, s \in Replicas : ~Expects(q, "pre_prepare", n, s)
  <2>1. m.type = "prepare" /\ r # from /\ ~IsVote(m) /\ Phase(m) = 1 /\ m.type # "pre_prepare"
    BY <1>1 DEF HandlePrepare, Receives, IsVote, Phase
  <2>2. \A q \in Replicas : Has(q, n)
    BY <1>1, <2>1, HeadKnown
  <2>3. QED
    BY <1>1, <2>1, <2>2, HeadGenuine DEF Genuine
<1>4. PICK own : own = log[r][n]
  OBVIOUS
<1>5. own \in EntryType /\ own.digest = D /\ own.view = W[n] /\ view[r] \in Nat
  BY <1>1, <1>3, <1>4 DEF WindowInv, StateType, Unmixed, Entries
<1>6. PICK e : e = [own EXCEPT !.prepares = [@ EXCEPT ![from] = PrepareFor(W, n)]]
  OBVIOUS
<1>7. PICK x \in MessageType : x = Message("commit", view[r], n, D, r)
  BY <1>1, <1>5, MessageTyped DEF AnyDigest
<1>8. PICK done : done = IF Prepared(e, W[n]) THEN WithCommit(r, e) ELSE e
  OBVIOUS
<1>9. PICK out : out = IF Prepared(e, W[n]) THEN <<x>> ELSE <<>>
  OBVIOUS
<1>10. /\ e.digest = D /\ e.view = W[n] /\ e.executed = own.executed
       /\ e.commits = own.commits /\ e.commits \in [Replicas -> AnyDigest]
       /\ \A s \in Replicas :
            e.prepares[s] = IF s = from THEN PrepareFor(W, n) ELSE own.prepares[s]
  <2>1. own \in EntryShape
    BY <1>5 DEF EntryType
  <2>2. /\ e.digest = D /\ e.view = W[n] /\ e.executed = own.executed
        /\ e.commits = own.commits
        /\ e.prepares = [own.prepares EXCEPT ![from] = PrepareFor(W, n)]
    BY <1>5, <1>6, <2>1 DEF EntryShape
  <2>3. own.commits \in [Replicas -> AnyDigest]
    BY <2>1 DEF EntryShape
  <2>4. DOMAIN own.prepares = Replicas
    BY <2>1 DEF EntryShape
  <2>5. QED
    BY <2>2, <2>3, <2>4
<1>11. /\ done.digest = D /\ done.view = W[n] /\ done.executed = own.executed
       /\ done.prepares = e.prepares
       /\ \A s \in Replicas : done.commits[s] = IF s = r /\ Prepared(e, W[n]) THEN D
                                               ELSE own.commits[s]
  <2>1. own \in EntryShape
    BY <1>5 DEF EntryType
  <2>2. CASE Prepared(e, W[n])
    <3>1. /\ done.digest = e.digest /\ done.view = e.view /\ done.executed = e.executed
          /\ done.prepares = e.prepares
          /\ done.commits = [e.commits EXCEPT ![r] = e.digest]
      BY <1>6, <1>8, <2>1, <2>2 DEF WithCommit, EntryShape
    <3>2. QED
      BY <1>10, <2>2, <3>1
  <2>3. CASE ~Prepared(e, W[n])
    BY <1>8, <1>10, <2>3
  <2>4. QED
    BY <2>2, <2>3
<1>12. /\ SetEntry(r, n, done) /\ Advance(out) /\ (out = <<>> \/ out = <<x>>)
       /\ UNCHANGED <<view, seqNum, lastExecuted, accepted, executed>>
  <2>1. PrepareFor(W, n) = [view |-> m.view, digest |-> m.digest]
    BY <1>1, <1>3 DEF PrepareFor
  <2>2. e = [log[r][m.n] EXCEPT
               !.prepares = [@ EXCEPT ![m.sender] = [view |-> m.view, digest |-> m.digest]]]
    BY <1>1, <1>4, <1>6, <2>1
  <2>3. x = Commit(r, m.n, e)
    BY <1>1, <1>7, <1>10 DEF Commit
  <2>4. QED
    BY <1>1, <1>3, <1>8, <1>9, <2>2, <2>3 DEF HandlePrepare
<1>13. /\ x.type = "commit" /\ x.n = n /\ x.sender = r
       /\ ~IsVote(x) /\ Phase(x) = Phase(queue[1]) + 1 /\ Genuine(W, x) /\ x.n = queue[1].n
  <2>1. /\ x.type = "commit" /\ x.n = n /\ x.sender = r /\ x.digest = D
        /\ ~IsVote(x) /\ Phase(x) = 2
    BY <1>7 DEF Message, IsVote, Phase
  <2>2. QED
    BY <1>1, <1>3, <2>1 DEF Genuine
<1>14. /\ Entries(W)' /\ \A q \in Replicas : InOrder(q)'
       /\ log'[r][n] = done
       /\ \A q \in Replicas, k \in Numbers : q # r \/ k # n => log'[q][k] = log[q][k]
  BY <1>1, <1>3, <1>4, <1>11, <1>12, EntryWritten
<1>15. /\ Phased' /\ AcceptedType'
       /\ \A k \in DOMAIN queue' : IsVote(queue'[k]) \/ Genuine(W, queue[k])'
       /\ \A k \in Numbers : k < Len(accepted) /\ k # n => Carried(W, k)'
  BY <1>1, <1>3, <1>12, <1>13, <1>14, Delivered
<1>16. /\ \A q \in Replicas : Has(q, n)'
       /\ PrepareFor(W, n)' = PrepareFor(W, n) /\ DigestOf(n)' = D
  BY <1>1, <1>3, <1>11, <1>12, <1>14 DEF Has, PrepareFor, DigestOf
<1>17. ASSUME NEW q \in Replicas, NEW s \in Replicas
       PROVE  /\ Expects(q, "commit", n, s) => Expects(q, "commit", n, s)'
              /\ Expects(q, "prepare", n, s) =>
                   Expects(q, "prepare", n, s)' \/ (q = r /\ s = from)
              /\ ~Expects(q, "pre_prepare", n, s)'
              /\ q # r /\ out = <<x>> => Expects(q, "commit", n, r)'
  <2>1. Expects(q, "commit", n, s) => Expects(q, "commit", n, s)'
    BY <1>1, <1>3, <1>12, ExpectsMoves
  <2>2. Expects(q, "prepare", n, s) => Expects(q, "prepare", n, s)' \/ (q = r /\ s = from)
    BY <1>1, <1>12, ExpectsMoves
  <2>3. ~Expects(q, "pre_prepare", n, s)'
    BY <1>3, <1>12, <1>13, ExpectsMoves
  <2>4. q # r /\ out = <<x>> => Expects(q, "commit", n, r)'
    BY <1>12, <1>13, ExpectsMoves
  <2>5. QED
    BY <2>1, <2>2, <2>3, <2>4
<1>18. PrePrepared(W, n)'
  <2>1. \A q \in Replicas : q # p => log[q][n].prepares[q] = PrepareFor(W, n)
    BY <1>2, <1>3 DEF Carried, PrePrepared
  <2>2. \A q \in Replicas : q # p => log'[q][n].prepares[q] = PrepareFor(W, n)
    BY <1>4, <1>10, <1>11, <1>14, <2>1
  <2>3. QED
    BY <1>2, <1>16, <1>17, <2>2 DEF PrePrepared
<1>19. PreparesCome(W, n)'
  <2> SUFFICES ASSUME NEW q \in Replicas, NEW s \in Replicas, q # s, s # p
               PROVE  \/ log'[q][n].prepares[s] = PrepareFor(W, n)
                      \/ Expects(q, "prepare", n, s)'
    BY <1>2, <1>16 DEF PreparesCome
  <2>1. log[q][n].prepares[s] = PrepareFor(W, n) \/ Expects(q, "prepare", n, s)
    BY <1>2, <1>3 DEF Carried, PreparesCome
  <2>2. log[q][n].prepares[s] = PrepareFor(W, n) => log'[q][n].prepares[s] = PrepareFor(W, n)
    BY <1>4, <1>10, <1>11, <1>14
  <2>3. q = r /\ s = from => log'[q][n].prepares[s] = PrepareFor(W, n)
    BY <1>10, <1>11, <1>14
  <2>4. QED
    BY <1>17, <2>1, <2>2, <2>3
<1>20. CommitsCome(n)'
  <2> SUFFICES ASSUME NEW q \in Replicas, NEW s \in Replicas, q # s,
                      log'[s][n].commits[s] = D
               PROVE  log'[q][n].commits[s] = D \/ Expects(q, "commit", n, s)'
    BY <1>16 DEF CommitsCome
  <2>1. log'[q][n].commits[s] = log[q][n].commits[s]
    BY <1>4, <1>11, <1>14
  <2>2. CASE log[s][n].commits[s] = D
    <3>1. log[q][n].commits[s] = D \/ Expects(q, "commit", n, s)
      BY <1>1, <1>3, <2>2 DEF Carried, CommitsCome
    <3>2. QED
      BY <1>17, <2>1, <3>1
  <2>3. CASE log[s][n].commits[s] # D
    <3>1. s = r /\ Prepared(e, W[n])
      BY <1>4, <1>11, <1>14, <2>3
    <3>2. QED
      BY <1>9, <1>17, <3>1
  <2>4. QED
    BY <2>2, <2>3
<1>21. QuorumsActed(W, n)'
  <2> SUFFICES ASSUME NEW q \in Replicas
               PROVE  /\ Cardinality(Prepares(W, q, n)') >= Quorum => log'[q][n].commits[q] = D
                      /\ Cardinality(Commits(q, n)') >= Quorum => log'[q][n].executed
    BY <1>16 DEF QuorumsActed
  <2>1. Cardinality(Commits(q, n)) >= Quorum => log[q][n].executed
    BY <1>3 DEF Carried, QuorumsActed
  <2>2. Commits(q, n)' = Commits(q, n) /\ log'[q][n].executed = log[q][n].executed
    BY <1>1, <1>4, <1>11, <1>14, <1>16 DEF Commits
  <2>3. CASE q = r
    <3>1. Prepares(W, r, n)' = {s \in Replicas : e.prepares[s] = PrepareFor(W, n)}
      BY <1>11, <1>14, <1>16 DEF Prepares
    <3>2. PrepareFor(W, n) = [view |-> W[n], digest |-> e.digest]
      BY <1>1, <1>10 DEF PrepareFor
    <3>3. Cardinality(Prepares(W, r, n)') >= Quorum => Prepared(e, W[n])
      BY <1>10, <3>1, <3>2 DEF Prepared
    <3>4. QED
      BY <1>11, <1>14, <2>1, <2>2, <2>3, <3>3
  <2>4. CASE q # r
    <3>1. Prepares(W, q, n)' = Prepares(W, q, n)
      BY <1>14, <1>16, <2>4 DEF Prepares
    <3>2. QED
      BY <1>1, <1>3, <1>14, <2>1, <2>2, <2>4, <3>1 DEF Carried, QuorumsActed
  <2>5. QED
    BY <2>3, <2>4
<1>22. Carried(W, n)'
  BY <1>18, <1>19, <1>20, <1>21 DEF Carried
<1>23. Unmixed(W)'
  BY <1>12, <1>14, <1>15, <1>22 DEF Unmixed
<1>24. QED
  BY <1>23 DEF OrderInv

\* A replica that has not executed the number of a COMMIT has executed all before it.
LEMMA InTurn ==
    ASSUME WindowInv, N >= 4, NEW W \in [Numbers -> Nat], Unmixed(W), queue # <<>>,
           queue[1].type = "commit", NEW r \in Replicas, NEW n \in Numbers, n = queue[1].n,
           Has(r, n), ~log[r][n].executed
    PROVE  Len(executed[r]) = n
<1>1. /\ ~IsVote(queue[1]) /\ Phase(queue[1]) = 2
      /\ n \in Nat /\ n < Len(accepted) /\ Len(accepted) \in Nat /\ Len(executed[r]) \in Nat
      /\ \A k \in DOMAIN queue : k = 1 \/ k > 1
      /\ \A k \in DOMAIN queue : queue[k] \in MessageType
  <2>1. ~IsVote(queue[1]) /\ Phase(queue[1]) = 2
    BY DEF IsVote, Phase
  <2>2. queue \in Seq(MessageType) /\ executed[r] \in Seq(InWindow \X AnyDigest)
        /\ accepted \in Seq(Numbers \X Digests)
    BY DEF WindowInv, StateType, Unmixed, AcceptedType
  <2>3. QED
    BY <2>1, <2>2, HeadGenuine
<1>2. ASSUME NEW k \in DOMAIN queue
      PROVE  queue[k].n >= n /\ queue[k].n \in Nat
  <2>1. Phase(queue[k]) \in 0..2 /\ queue[k].n \in Nat
    BY <1>1, PhaseNumber
  <2>2. CASE k = 1
    BY <1>1, <2>1, <2>2
  <2>3. CASE k > 1
    <3>1. Before(queue[1], queue[k])
      BY <1>1, <2>3, HeadGenuine
    <3>2. QED
      BY <1>1, <2>1, <3>1 DEF Before
  <2>4. QED
    BY <1>1, <2>2, <2>3
<1>3. ASSUME n > 0
      PROVE  n - 1 < Len(executed[r])
  <2>1. PICK j \in Numbers : j = n - 1
    BY <1>1, <1>3, PbftAssumption DEF Numbers
  <2>2. j < Len(accepted) /\ \A k \in DOMAIN queue : queue[k].n # j
    BY <1>1, <1>2, <2>1
  <2>3. j < Len(executed[r])
    BY <2>2, Finished
  <2>4. QED
    BY <2>1, <2>3
<1>4. ~(n < Len(executed[r]))
  BY DEF Unmixed, InOrder
<1>5. QED
  BY <1>1, <1>3, <1>4

\* Replica r records the COMMIT at the head as done, and executes the number in turn
\* if that is a quorum.
CommitRecorded(W, r, n, D, from, done) ==
    /\ r = turn /\ n = queue[1].n /\ from = queue[1].sender /\ D = DigestOf(n)
    /\ r # from /\ n < Len(accepted) /\ Has(r, n)
    /\ SetEntry(r, n, done) /\ Advance(<<>>)
    /\ UNCHANGED <<view, seqNum, accepted>>
    /\ done.digest = D /\ done.view = W[n] /\ done.prepares = log[r][n].prepares
    /\ \A s \in Replicas :
         done.commits[s] = IF s = from THEN D ELSE log[r][n].commits[s]
    /\ log[r][n].executed => done.executed
    /\ Cardinality({s \in Replicas : done.commits[s] = D}) >= Quorum => done.executed
    /\ IF done.executed /\ ~log[r][n].executed
         THEN /\ Len(executed[r]) = n
              /\ executed' = [executed EXCEPT ![r] = Append(@, <<n, D>>)]
              /\ lastExecuted' = [lastExecuted EXCEPT ![r] = n]
         ELSE UNCHANGED <<executed, lastExecuted>>

\* What handle_commit does: record the COMMIT, and execute in turn.
LEMMA CommitExecutes ==
    ASSUME WindowInv, N >= 4, NEW W \in [Numbers -> Nat], Unmixed(W), queue # <<>>,
           HandleCommit(turn, queue[1])
    PROVE  \E r \in Replicas, n \in Numbers, D \in Digests, from \in Replicas, done \in EntryType :
             CommitRecorded(W, r, n, D, from, done)
<1>1. PICK r \in Replicas, m \in MessageType, n \in Numbers, D \in Digests, from \in Replicas :
        r = turn /\ m = queue[1] /\ n = m.n /\ D = DigestOf(n) /\ from = m.sender
  BY HeadGenuine DEF WindowInv, StateType, HandleCommit, Receives, IsVote
<1>2. /\ m.type = "commit" /\ r # from /\ m.digest = D /\ n < Len(accepted) /\ Has(r, n)
      /\ D # NoDigest /\ n \in Nat
  <2>1. m.type = "commit" /\ r # from /\ ~IsVote(m) /\ Has(r, n)
    BY <1>1 DEF HandleCommit, Receives, IsVote
  <2>2. QED
    BY <1>1, <2>1, HeadGenuine DEF Genuine
<1>3. PICK own : own = log[r][n]
  OBVIOUS
<1>4. /\ own \in EntryShape /\ own.digest = D /\ own.view = W[n] /\ own.executed \in BOOLEAN
      /\ own \in EntryType
  <2>1. own \in EntryType
    BY <1>3 DEF WindowInv, StateType
  <2>2. own \in EntryShape
    BY <2>1 DEF EntryType
  <2>3. QED
    BY <1>1, <1>2, <1>3, <2>1, <2>2 DEF EntryShape, Unmixed, Entries
<1>5. PICK e : e = [own EXCEPT !.commits = [@ EXCEPT ![from] = D]]
  OBVIOUS
<1>6. /\ e \in EntryType /\ [e EXCEPT !.executed = TRUE] \in EntryType
      /\ e.digest = D /\ e.view = W[n] /\ e.executed = own.executed /\ e.prepares = own.prepares
      /\ \A s \in Replicas : e.commits[s] = IF s = from THEN D ELSE own.commits[s]
  <2>1. e.commits = [own.commits EXCEPT ![from] = D] /\ DOMAIN own.commits = Replicas
    BY <1>4, <1>5 DEF EntryShape
  <2>2. /\ e.digest = D /\ e.view = W[n] /\ e.executed = own.executed
        /\ e.prepares = own.prepares
    BY <1>4, <1>5 DEF EntryShape
  <2>3. e \in EntryType /\ [e EXCEPT !.executed = TRUE] \in EntryType
    BY <1>4, <1>5, CommitTyped DEF AnyDigest
  <2>4. QED
    BY <2>1, <2>2, <2>3
<1>7. e = [log[r][m.n] EXCEPT !.commits = [@ EXCEPT ![m.sender] = m.digest]]
  BY <1>1, <1>2, <1>3, <1>5
<1>8. Advance(<<>>) /\ UNCHANGED <<view, seqNum, accepted>>
  BY DEF HandleCommit
<1>9. Cardinality({s \in Replicas : e.commits[s] = D}) >= Quorum => Committed(e)
  BY <1>6 DEF Committed
<1>10. CASE Executes(e)
  <2>1. Execute(r, n, e)
    BY <1>1, <1>7, <1>10 DEF HandleCommit
  <2>2. ~own.executed /\ Len(executed[r]) = n
    BY <1>1, <1>2, <1>3, <1>6, <1>10, InTurn DEF Executes
  <2>3. PICK done : done = [e EXCEPT !.executed = TRUE]
    OBVIOUS
  <2>4. /\ done.digest = D /\ done.view = W[n] /\ done.prepares = own.prepares
        /\ done.commits = e.commits /\ done.executed
    BY <1>4, <1>5, <1>6, <2>3 DEF EntryShape
  <2>5. n < Window
    BY <1>2 DEF WindowInv
  <2>6. ~CheckpointDue(r, n)
    BY <2>5, CheckpointNotDue
  <2>7. SetEntry(r, n, done)
    BY <2>1, <2>3, <2>6 DEF Execute, SetEntry
  <2>8. executed' = [executed EXCEPT ![r] = Append(@, <<n, D>>)]
    BY <1>6, <2>1 DEF Execute
  <2>9. lastExecuted' = [lastExecuted EXCEPT ![r] = n]
    <3>1. lastExecuted[r] = n - 1
      BY <2>2 DEF Unmixed, InOrder
    <3>2. n > lastExecuted[r]
      BY <1>2, <3>1
    <3>3. QED
      BY <2>1, <3>2 DEF Execute
  <2>10. CommitRecorded(W, r, n, D, from, done)
    BY <1>1, <1>2, <1>3, <1>6, <1>8, <2>2, <2>4, <2>7, <2>8, <2>9, SMTT(30) DEF CommitRecorded
  <2>11. done \in EntryType
    BY <1>6, <2>3
  <2>12. QED
    BY <2>10, <2>11
<1>11. CASE ~Executes(e)
  <2>1. SetEntry(r, n, e) /\ UNCHANGED <<executed, lastExecuted>>
    BY <1>1, <1>7, <1>11 DEF HandleCommit
  <2>2. Cardinality({s \in Replicas : e.commits[s] = D}) >= Quorum => e.executed
    BY <1>9, <1>11 DEF Executes
  <2>3. ~(e.executed /\ ~own.executed)
    BY <1>6
  <2>4. CommitRecorded(W, r, n, D, from, e)
    BY <1>1, <1>2, <1>3, <1>6, <1>8, <2>1, <2>2, <2>3 DEF CommitRecorded
  <2>5. QED
    BY <1>6, <2>4
<1>12. QED
  BY <1>10, <1>11

LEMMA OrderCommit ==
    ASSUME WindowInv, N >= 4, NEW W \in [Numbers -> Nat], Unmixed(W), queue # <<>>,
           HandleCommit(turn, queue[1])
    PROVE  OrderInv'
<1> USE DEF CommitRecorded
<1>1. PICK r \in Replicas, n \in Numbers, D \in Digests, from \in Replicas, done \in EntryType :
        CommitRecorded(W, r, n, D, from, done)
  BY CommitExecutes
<1>2. PICK p \in Replicas : p = W[n] % N
  BY Constants
<1>3. /\ queue[1].type = "commit" /\ ~IsVote(queue[1]) /\ queue[1] \in MessageType
      /\ Carried(W, n) /\ D # NoDigest /\ n \in Nat
      /\ \A q \in Replicas : Has(q, n)
      /\ \A q, s \in Replicas : ~Expects(q, "pre_prepare", n, s)
  <2>1. queue[1].type = "commit" /\ ~IsVote(queue[1]) /\ queue[1].type # "pre_prepare"
    BY DEF HandleCommit, Receives, IsVote
  <2>2. \A q \in Replicas : Has(q, n)
    BY <1>1, <2>1, HeadKnown
  <2>3. QED
    BY <1>1, <2>1, <2>2, HeadGenuine
<1>4. <<>> # <<queue[1]>>
  OBVIOUS
<1>5. /\ Entries(W)'
      /\ log'[r][n] = done
      /\ \A q \in Replicas, k \in Numbers : q # r \/ k # n => log'[q][k] = log[q][k]
  BY <1>1, <1>3, EntryWritten
<1>6. /\ Phased' /\ AcceptedType'
      /\ \A k \in DOMAIN queue' : IsVote(queue'[k]) \/ Genuine(W, queue[k])'
      /\ \A k \in Numbers : k < Len(accepted) /\ k # n => Carried(W, k)'
  BY <1>1, <1>3, <1>4, <1>5, Delivered
<1>7. /\ \A q \in Replicas : Has(q, n)'
      /\ PrepareFor(W, n)' = PrepareFor(W, n) /\ DigestOf(n)' = D
  BY <1>1, <1>3, <1>5 DEF Has, PrepareFor, DigestOf
<1>8. ASSUME NEW q \in Replicas, NEW s \in Replicas
      PROVE  /\ Expects(q, "prepare", n, s) => Expects(q, "prepare", n, s)'
             /\ Expects(q, "commit", n, s) =>
                  Expects(q, "commit", n, s)' \/ (q = r /\ s = from)
             /\ ~Expects(q, "pre_prepare", n, s)'
  <2>1. Expects(q, "prepare", n, s) => Expects(q, "prepare", n, s)'
    BY <1>1, <1>3, <1>4, ExpectsMoves
  <2>2. Expects(q, "commit", n, s) => Expects(q, "commit", n, s)' \/ (q = r /\ s = from)
    BY <1>1, <1>4, ExpectsMoves
  <2>3. ~Expects(q, "pre_prepare", n, s)'
    BY <1>1, <1>3, <1>4, ExpectsMoves
  <2>4. QED
    BY <2>1, <2>2, <2>3
<1>9. PrePrepared(W, n)'
  <2>1. \A q \in Replicas : q # p => log[q][n].prepares[q] = PrepareFor(W, n)
    BY <1>2, <1>3 DEF Carried, PrePrepared
  <2>2. \A q \in Replicas : q # p => log'[q][n].prepares[q] = PrepareFor(W, n)
    BY <1>1, <1>5, <2>1, SMTT(30)
  <2>3. QED
    BY <1>2, <1>7, <1>8, <2>2 DEF PrePrepared
<1>10. PreparesCome(W, n)'
  <2> SUFFICES ASSUME NEW q \in Replicas, NEW s \in Replicas, q # s, s # p
               PROVE  \/ log'[q][n].prepares[s] = PrepareFor(W, n)
                      \/ Expects(q, "prepare", n, s)'
    BY <1>2, <1>7 DEF PreparesCome
  <2>1. log[q][n].prepares[s] = PrepareFor(W, n) \/ Expects(q, "prepare", n, s)
    BY <1>2, <1>3 DEF Carried, PreparesCome
  <2>2. log'[q][n].prepares[s] = log[q][n].prepares[s]
    BY <1>1, <1>5
  <2>3. QED
    BY <1>8, <2>1, <2>2
<1>11. CommitsCome(n)'
  <2> SUFFICES ASSUME NEW q \in Replicas, NEW s \in Replicas, q # s,
                      log'[s][n].commits[s] = D
               PROVE  log'[q][n].commits[s] = D \/ Expects(q, "commit", n, s)'
    BY <1>7 DEF CommitsCome
  <2>1. log[s][n].commits[s] = D
    BY <1>1, <1>5
  <2>2. log[q][n].commits[s] = D \/ Expects(q, "commit", n, s)
    BY <1>1, <1>3, <2>1, ZenonT(60) DEF Carried, CommitsCome
  <2>3. log[q][n].commits[s] = D => log'[q][n].commits[s] = D
    <3>1. CASE q = r
      BY <1>1, <1>5, <3>1
    <3>2. CASE q # r
      BY <1>5, <3>2
    <3>3. QED
      BY <3>1, <3>2
  <2>4. q = r /\ s = from => log'[q][n].commits[s] = D
    BY <1>1, <1>5, SMTT(30)
  <2>5. QED
    BY <1>8, <2>2, <2>3, <2>4
<1>12. QuorumsActed(W, n)'
  <2> SUFFICES ASSUME NEW q \in Replicas
               PROVE  /\ Cardinality(Prepares(W, q, n)') >= Quorum => log'[q][n].commits[q] = D
                      /\ Cardinality(Commits(q, n)') >= Quorum => log'[q][n].executed
    BY <1>7 DEF QuorumsActed
  <2>1. Prepares(W, q, n)' = Prepares(W, q, n)
    BY <1>1, <1>5, <1>7, SMTT(30) DEF Prepares
  <2>2. Cardinality(Prepares(W, q, n)') >= Quorum => log'[q][n].commits[q] = D
    <3>1. Cardinality(Prepares(W, q, n)) >= Quorum => log[q][n].commits[q] = D
      BY <1>1, <1>3 DEF Carried, QuorumsActed
    <3>2. log'[q][n].commits[q] = log[q][n].commits[q]
      BY <1>1, <1>5
    <3>3. QED
      BY <2>1, <3>1, <3>2
  <2>3. CASE q = r
    <3>1. PICK all \in SUBSET Replicas : all = {s \in Replicas : done.commits[s] = D}
      OBVIOUS
    <3>2. Commits(r, n)' \subseteq all
      BY <1>5, <1>7, <3>1 DEF Commits
    <3>3. Cardinality(Commits(r, n)') <= Cardinality(all)
          /\ Cardinality(Commits(r, n)') \in Nat /\ Cardinality(all) \in Nat
      BY <3>2, ReplicaSets
    <3>4. Quorum \in Nat
      BY QuorumNumber
    <3>5. Cardinality(Commits(r, n)') >= Quorum => done.executed
      BY <1>1, <3>1, <3>3, <3>4
    <3>6. QED
      BY <1>5, <2>2, <2>3, <3>5
  <2>4. CASE q # r
    <3>1. Commits(q, n)' = Commits(q, n) /\ log'[q][n].executed = log[q][n].executed
      BY <1>1, <1>5, <1>7, <2>4, SMTT(30) DEF Commits
    <3>2. QED
      BY <1>3, <2>2, <3>1 DEF Carried, QuorumsActed
  <2>5. QED
    BY <2>3, <2>4
<1>13. Carried(W, n)'
  BY <1>9, <1>10, <1>11, <1>12 DEF Carried
<1>14. \A q \in Replicas : InOrder(q)'
  <2>1. CASE done.executed /\ ~log[r][n].executed
    <3> SUFFICES ASSUME NEW q \in Replicas PROVE InOrder(q)'
      OBVIOUS
    <3>1. CASE q # r
      <4>1. executed'[q] = executed[q] /\ lastExecuted'[q] = lastExecuted[q]
            /\ \A k \in Numbers : log'[q][k] = log[q][k]
        BY <1>1, <1>5, <2>1, <3>1 DEF WindowInv, StateType
      <4>2. QED
        BY <1>1, <4>1 DEF Unmixed, InOrder, IsPrimary, Has
    <3>2. CASE q = r
      <4>1. executed[r] \in Seq(InWindow \X AnyDigest) /\ accepted \in Seq(Numbers \X Digests)
            /\ Len(accepted) \in Nat
        <5>1. executed[r] \in Seq(InWindow \X AnyDigest)
          BY DEF WindowInv, StateType
        <5>2. accepted \in Seq(Numbers \X Digests)
          BY DEF Unmixed, AcceptedType
        <5>3. QED
          BY <5>1, <5>2
      <4>2. executed'[r] = Append(executed[r], <<n, D>>) /\ lastExecuted'[r] = n
        BY <1>1, <2>1 DEF WindowInv, StateType
      <4>3. /\ Len(executed'[r]) = n + 1 /\ DOMAIN executed'[r] = 1..(n + 1)
            /\ DOMAIN executed[r] = 1..n
            /\ \A k \in 1..n : executed'[r][k] = executed[r][k]
            /\ executed'[r][n + 1] = <<n, D>>
        BY <1>1, <1>3, <2>1, <4>1, <4>2, SMTT(30)
      <4>4. accepted[n + 1] = <<n, D>>
        <5>1. n + 1 \in DOMAIN accepted
          BY <1>1, <1>3, <4>1
        <5>2. accepted[n + 1] \in Numbers \X Digests /\ accepted[n + 1][1] = (n + 1) - 1
          BY <4>1, <5>1 DEF Unmixed, AcceptedType
        <5>3. accepted[n + 1][1] = n /\ accepted[n + 1][2] = D
          BY <1>1, <1>3, <5>2 DEF DigestOf
        <5>4. QED
          BY <5>2, <5>3
      <4>5. \A k \in 1..(n + 1) : k \in 1..n \/ k = n + 1
        BY <1>3
      <4>6. \A k \in DOMAIN executed'[r] : executed'[r][k] = accepted[k]
        BY <4>3, <4>4, <4>5 DEF Unmixed, InOrder
      <4>7. \A k \in Numbers : (Has(r, k) /\ log[r][k].executed)' <=> k < n + 1
        <5> TAKE k \in Numbers
        <5>1. k \in Nat
          BY PbftAssumption DEF Numbers
        <5>2. Has(r, k) /\ log[r][k].executed <=> k < n
          BY <1>1, <2>1 DEF Unmixed, InOrder
        <5>3. CASE k = n
          BY <1>3, <1>5, <1>7, <2>1, <5>3
        <5>4. CASE k # n
          <6>1. (Has(r, k) /\ log[r][k].executed)' <=> k < n
            BY <1>5, <5>2, <5>4 DEF Has
          <6>2. QED
            BY <1>3, <5>1, <5>4, <6>1
        <5>5. QED
          BY <5>3, <5>4
      <4>8. IsPrimary(r)' => seqNum'[r] = Len(accepted)
        BY <1>1 DEF Unmixed, InOrder, IsPrimary
      <4>9. n + 1 <= Len(accepted) /\ n = (n + 1) - 1
        BY <1>1, <1>3, <4>1
      <4>10. QED
        BY <1>1, <3>2, <4>2, <4>3, <4>6, <4>7, <4>8, <4>9, ZenonT(60) DEF InOrder
    <3>3. QED
      BY <3>1, <3>2
  <2>2. CASE ~(done.executed /\ ~log[r][n].executed)
    <3>1. UNCHANGED <<executed, lastExecuted>>
      BY <1>1, <2>2
    <3>2. done.executed <=> Has(r, n) /\ log[r][n].executed
      BY <1>1, <2>2
    <3>3. QED
      BY <1>1, <1>3, <3>1, <3>2, EntryWritten
  <2>3. QED
    BY <2>1, <2>2
<1>15. Unmixed(W)'
  BY <1>1, <1>5, <1>6, <1>13, <1>14 DEF Unmixed
<1>16. QED
  BY <1>15 DEF OrderInv

LEMMA OrderStep ==
    ASSUME N >= 4
    PROVE  WindowInv /\ OrderInv /\ [Next]_vars => OrderInv'
<1> SUFFICES ASSUME WindowInv, OrderInv, [Next]_vars, ~mixed'
             PROVE  OrderInv'
  BY DEF OrderInv
<1>1. ASSUME NEW r \in Replicas, NEW d \in Digests, HandleRequest(r, d)
      PROVE  OrderInv'
  <2>1. ~mixed
    BY <1>1 DEF HandleRequest
  <2>2. QED
    BY <1>1, <2>1, OrderRequest DEF OrderInv
<1>2. ASSUME NEW r \in Replicas, StartViewChange(r)
      PROVE  OrderInv'
  <2>1. ~mixed
    BY <1>2 DEF StartViewChange
  <2>2. QED
    BY <1>2, <2>1, OrderStart DEF OrderInv
<1>3. CASE Deliver
  <2>1. queue # <<>>
    BY <1>3 DEF Deliver
  <2>2. ~mixed
    BY <1>3 DEF Deliver, HandlePrePrepare, HandlePrepare, HandleCommit, HandleViewChange, Ignore
  <2>3. PICK W \in [Numbers -> Nat] : Unmixed(W)
    BY <2>2 DEF OrderInv
  <2>4. QED
    BY <1>3, <2>1, <2>3, OrderPrePrepare, OrderPrepare, OrderCommit, OrderViewChange, OrderIgnore
       DEF Deliver
<1>4. CASE UNCHANGED vars
  <2>1. PICK W \in [Numbers -> Nat] : Unmixed(W)
    BY <1>4 DEF OrderInv, vars
  <2>2. \A n \in Numbers : Carried(W, n) => Carried(W, n)'
    <3>1. \A r, s \in Replicas, n \in Numbers :
            \A type \in {"pre_prepare", "prepare", "commit"} :
              Expects(r, type, n, s)' <=> Expects(r, type, n, s)
      BY <1>4 DEF vars, Expects
    <3>2. \A n \in Numbers : DigestOf(n)' = DigestOf(n)
      BY <1>4 DEF vars, DigestOf
    <3>3. QED
      BY <1>4, <3>1, <3>2, CarriedSame DEF vars
  <2>3. Unmixed(W)'
    BY <1>4, <2>1, <2>2
       DEF vars, Unmixed, Phased, AcceptedType, Genuine, Entries, InOrder, IsPrimary, DigestOf, Has
  <2>4. QED
    BY <2>3 DEF OrderInv
<1>5. QED
  BY <1>1, <1>2, <1>3, <1>4 DEF Next

LEMMA OrderInvariant == N >= 4 => (Spec => [](WindowInv /\ OrderInv))
<1> SUFFICES ASSUME N >= 4 PROVE Spec => [](WindowInv /\ OrderInv)
  OBVIOUS
<1>1. Init => OrderInv
  BY OrderInit
<1>2. WindowInv /\ OrderInv /\ [Next]_vars => OrderInv'
  BY OrderStep
<1>3. QED
  BY <1>1, <1>2, WindowInvariant, PTL DEF Spec

\* When the queue has been delivered, every replica has executed all that was
\* accepted, in the order of acceptance, unless a view change and a request were
\* under way at once.  N >= 4 is the N = 3f + 1 of the class with a fault to
\* tolerate: a cluster of one, whose messages reach nobody, executes nothing.
THEOREM AcceptedIsExecutedHolds == N >= 4 => (Spec => []AcceptedIsExecuted)
<1> SUFFICES ASSUME N >= 4 PROVE Spec => []AcceptedIsExecuted
  OBVIOUS
<1>1. ASSUME WindowInv, OrderInv PROVE AcceptedIsExecuted
  <2> SUFFICES ASSUME queue = <<>>, ~mixed, NEW r \in Replicas
               PROVE  executed[r] = accepted
    BY DEF AcceptedIsExecuted
  <2>1. PICK W \in [Numbers -> Nat] : Unmixed(W)
    BY <1>1 DEF OrderInv
  <2>2. DOMAIN queue = {}
    OBVIOUS
  <2>3. executed[r] \in Seq(InWindow \X AnyDigest) /\ Len(executed[r]) \in Nat
        /\ DOMAIN executed[r] = 1..Len(executed[r])
    BY <1>1 DEF WindowInv, StateType
  <2>4. accepted \in Seq(Numbers \X Digests) /\ Len(accepted) \in Nat
        /\ DOMAIN accepted = 1..Len(accepted)
        /\ \A k \in DOMAIN accepted : accepted[k][1] = k - 1
    BY <2>1 DEF Unmixed, AcceptedType
  <2>5. Len(executed[r]) <= Len(accepted)
        /\ \A k \in DOMAIN executed[r] : executed[r][k] = accepted[k]
    BY <2>1 DEF Unmixed, InOrder
  <2>6. Len(executed[r]) = Len(accepted)
    <3>1. SUFFICES ASSUME NEW n \in Numbers, n = Len(accepted) - 1, n < Len(accepted)
                   PROVE  n < Len(executed[r])
      <4>1. Len(accepted) > 0 => Len(accepted) \in DOMAIN accepted
        BY <2>4
      <4>2. Len(accepted) > 0 => accepted[Len(accepted)] \in Numbers \X Digests
        BY <2>4, <4>1
      <4>3. Len(accepted) > 0 => Len(accepted) - 1 \in Numbers
        BY <2>4, <4>1, <4>2
      <4>4. QED
        BY <2>3, <2>4, <2>5, <4>3
    <3>2. QED
      BY <1>1, <2>1, <2>2, <3>1, Finished
  <2>7. executed[r] \in [1..Len(accepted) -> Numbers \X AnyDigest]
    <3>1. \A k \in DOMAIN executed[r] : executed[r][k] \in Numbers \X AnyDigest
      BY <2>3 DEF InWindow
    <3>2. QED
      BY <2>3, <2>6, <3>1
  <2>8. accepted \in [1..Len(accepted) -> Numbers \X AnyDigest]
    <3>1. \A k \in DOMAIN accepted : accepted[k] \in Numbers \X AnyDigest
      BY <2>4 DEF AnyDigest
    <3>2. QED
      BY <2>4, <3>1
  <2>9. \A k \in 1..Len(accepted) : executed[r][k] = accepted[k]
    BY <2>3, <2>5, <2>6
  <2>10. QED
    BY <2>7, <2>8, <2>9
<1>2. QED
  BY <1>1, OrderInvariant, PTL

\* The digests that replicas executed as number n.
ExecutedAs(n) == {d \in Digests : \E r \in Replicas :
                    \E k \in DOMAIN executed[r] : executed[r][k] = <<n, d>>}

\* While nothing mixes, a number stands for the request it was accepted for.
LEMMA ChosenIs ==
    ASSUME WindowInv, NEW W \in [Numbers -> Nat], Unmixed(W), NEW n \in Numbers
    PROVE  /\ Chosen(n) \in {NoDigest, DigestOf(n)}
           /\ \A r \in Replicas : \A k \in DOMAIN executed[r] :
                executed[r][k] = accepted[k] /\ executed[r][k][1] = k - 1 /\ k \in Nat
<1>1. \A r \in Replicas : /\ Len(executed[r]) \in Nat /\ Len(executed[r]) <= Len(accepted)
                          /\ DOMAIN executed[r] = 1..Len(executed[r])
                          /\ \A k \in DOMAIN executed[r] : executed[r][k] = accepted[k]
  BY DEF WindowInv, StateType, Unmixed, InOrder
<1>2. /\ accepted \in Seq(Numbers \X Digests) /\ Len(accepted) \in Nat
      /\ DOMAIN accepted = 1..Len(accepted)
      /\ \A k \in DOMAIN accepted : accepted[k][1] = k - 1
      /\ \A k \in DOMAIN accepted : accepted[k] \in Numbers \X Digests
      /\ n \in Nat
  BY PbftAssumption DEF Unmixed, AcceptedType, Numbers
<1>3. \A r \in Replicas : \A k \in DOMAIN executed[r] :
        executed[r][k] = accepted[k] /\ executed[r][k][1] = k - 1 /\ k \in Nat
  BY <1>1, <1>2
<1>4. \A d \in ExecutedAs(n) : d = DigestOf(n)
  <2> SUFFICES ASSUME NEW d \in Digests, NEW r \in Replicas, NEW k \in DOMAIN executed[r],
                      executed[r][k] = <<n, d>>
               PROVE  d = DigestOf(n)
    BY DEF ExecutedAs
  <2>1. k = n + 1 /\ accepted[k] = <<n, d>>
    BY <1>2, <1>3
  <2>2. QED
    BY <2>1 DEF DigestOf
<1>5. Chosen(n) = IF ExecutedAs(n) = {} THEN NoDigest ELSE CHOOSE d \in ExecutedAs(n) : TRUE
  BY DEF Chosen, ExecutedAs
<1>6. Chosen(n) \in {NoDigest, DigestOf(n)}
  BY <1>4, <1>5
<1>7. QED
  BY <1>3, <1>6

LEMMA LogInit == Init => Log!Init
<1> SUFFICES ASSUME Init PROVE Log!Init
  OBVIOUS
<1>1. accepted = <<>> /\ \A r \in Replicas : executed[r] = <<>>
  BY DEF Init
<1>2. {accepted[k] : k \in DOMAIN accepted} = {}
  BY <1>1
<1>3. \A n \in Numbers : Chosen(n) = NoDigest
  BY <1>1 DEF Chosen
<1>4. \A r \in Replicas : [k \in DOMAIN executed[r] |-> executed[r][k][1]] = <<>>
  <2>1. \A r \in Replicas : DOMAIN executed[r] = {}
    BY <1>1
  <2>2. QED
    BY <2>1
<1>5. QED
  BY <1>2, <1>3, <1>4 DEF Log!Init

\* A step that neither accepts nor executes leaves the log alone.
LEMMA LogStutters ==
    ASSUME UNCHANGED <<accepted, executed>>
    PROVE  UNCHANGED Log!logVars
  BY DEF Log!logVars, Chosen

LEMMA LogRequest ==
    ASSUME WindowInv, NEW W \in [Numbers -> Nat], Unmixed(W),
           NEW r \in Replicas, NEW d \in Digests, HandleRequest(r, d)
    PROVE  Log!Next
<1>1. PICK n \in Numbers : n = seqNum[r] /\ accepted' = Append(accepted, <<n, d>>)
  BY DEF HandleRequest
<1>2. /\ accepted \in Seq(Numbers \X Digests) /\ <<n, d>> \in Numbers \X Digests
  BY DEF Unmixed, AcceptedType
<1>3. /\ Len(accepted) \in Nat /\ DOMAIN accepted = 1..Len(accepted)
      /\ DOMAIN accepted' = 1..(Len(accepted) + 1)
      /\ \A k \in DOMAIN accepted : accepted'[k] = accepted[k]
      /\ accepted'[Len(accepted) + 1] = <<n, d>>
  BY <1>1, <1>2
<1>4. DOMAIN accepted' = DOMAIN accepted \cup {Len(accepted) + 1}
  BY <1>3
<1>5. {accepted'[k] : k \in DOMAIN accepted'} = {accepted[k] : k \in DOMAIN accepted} \cup {<<n, d>>}
  BY <1>3, <1>4, ZenonT(60)
<1>6. executed' = executed
  BY DEF HandleRequest
<1>7. Log!Request(n, d)
  BY <1>5, <1>6 DEF Log!Request, Chosen
<1>8. QED
  BY <1>7 DEF Log!Next

\* A replica that executes a number applies it.
LEMMA LogApply ==
    ASSUME WindowInv, N >= 4,
           NEW W \in [Numbers -> Nat], Unmixed(W), queue # <<>>,
           HandleCommit(turn, queue[1])
    PROVE  Log!Next \/ UNCHANGED Log!logVars
<1>1. PICK r \in Replicas, n \in Numbers, D \in Digests, from \in Replicas, done \in EntryType :
        CommitRecorded(W, r, n, D, from, done)
  BY CommitExecutes
<1>2. D = DigestOf(n) /\ n < Len(accepted) /\ accepted' = accepted
  BY <1>1 DEF CommitRecorded
<1>3. CASE ~(done.executed /\ ~log[r][n].executed)
  <2>1. UNCHANGED <<accepted, executed>>
    BY <1>1, <1>3 DEF CommitRecorded
  <2>2. QED
    BY <2>1, LogStutters
<1>4. CASE done.executed /\ ~log[r][n].executed
  <2>1. Len(executed[r]) = n /\ executed' = [executed EXCEPT ![r] = Append(@, <<n, D>>)]
    BY <1>1, <1>4 DEF CommitRecorded
  <2>2. executed \in [Replicas -> Seq(InWindow \X AnyDigest)] /\ executed[r] \in Seq(InWindow \X AnyDigest)
        /\ n \in Nat
    BY PbftAssumption, SMTT(30) DEF WindowInv, StateType, Numbers
  <2>3. /\ executed'[r] = Append(executed[r], <<n, D>>)
        /\ \A q \in Replicas : q # r => executed'[q] = executed[q]
    BY <2>1, <2>2
  <2>4. /\ DOMAIN executed[r] = 1..n /\ DOMAIN executed'[r] = 1..(n + 1)
        /\ \A k \in 1..n : executed'[r][k] = executed[r][k]
        /\ executed'[r][n + 1] = <<n, D>> /\ Len(executed'[r]) = n + 1
    BY <2>1, <2>2, <2>3
  <2>5. accepted[n + 1] = <<n, D>> /\ n + 1 \in DOMAIN accepted
    <3>1. accepted \in Seq(Numbers \X Digests) /\ \A k \in DOMAIN accepted : accepted[k][1] = k - 1
      BY DEF Unmixed, AcceptedType
    <3>2. n + 1 \in DOMAIN accepted
      BY <1>2, <2>2, <3>1
    <3>3. accepted[n + 1] \in Numbers \X Digests /\ accepted[n + 1][1] = n
      BY <2>2, <3>1, <3>2
    <3>4. QED
      BY <1>2, <3>2, <3>3 DEF DigestOf
  <2>6. <<n, D>> \in {accepted[k] : k \in DOMAIN accepted}
    BY <2>5
  <2>7. \A q \in Replicas : \A k \in DOMAIN executed[q] :
          executed[q][k] = accepted[k] /\ executed[q][k][1] = k - 1 /\ k \in Nat
    BY ChosenIs
  <2>8. Chosen(n) \in {NoDigest, D}
    BY <1>2, ChosenIs
  <2>9. \A q \in Replicas : \A k \in DOMAIN executed'[q] :
          \/ k \in DOMAIN executed[q] /\ executed'[q][k] = executed[q][k]
          \/ executed'[q][k] = <<n, D>>
    <3>1. \A k \in 1..(n + 1) : k \in 1..n \/ k = n + 1
      BY <2>2
    <3>2. QED
      BY <2>3, <2>4, <3>1
  <2>10. \A q \in Replicas : \A k \in DOMAIN executed[q] :
           k \in DOMAIN executed'[q] /\ executed'[q][k] = executed[q][k]
    <3>1. \A k \in 1..n : k \in 1..(n + 1)
      BY <2>2
    <3>2. \A k \in DOMAIN executed[r] : k \in DOMAIN executed'[r] /\ executed'[r][k] = executed[r][k]
      BY <2>4, <3>1
    <3>3. QED
      BY <2>3, <3>2
  <2>11. ExecutedAs(n)' = {D}
    <3>1. D \in ExecutedAs(n)'
      BY <2>2, <2>4 DEF ExecutedAs
    <3>2. ASSUME NEW d \in Digests, NEW q \in Replicas, NEW k \in DOMAIN executed'[q],
                 executed'[q][k] = <<n, d>>
          PROVE  d = D
      <4>1. CASE executed'[q][k] = <<n, D>>
        BY <3>2, <4>1
      <4>2. CASE k \in DOMAIN executed[q] /\ executed'[q][k] = executed[q][k]
        <5>1. accepted[k] = <<n, d>> /\ k = n + 1
          BY <2>2, <2>7, <3>2, <4>2
        <5>2. QED
          BY <2>5, <5>1
      <4>3. QED
        BY <2>9, <4>1, <4>2
    <3>3. QED
      BY <3>1, <3>2 DEF ExecutedAs
  <2>12. \A j \in Numbers : j # n => ExecutedAs(j)' = ExecutedAs(j)
    BY <2>9, <2>10 DEF ExecutedAs
  <2>13. \A j \in Numbers : /\ Chosen(j) = IF ExecutedAs(j) = {} THEN NoDigest
                                           ELSE CHOOSE d \in ExecutedAs(j) : TRUE
                            /\ Chosen(j)' = IF ExecutedAs(j)' = {} THEN NoDigest
                                            ELSE CHOOSE d \in ExecutedAs(j)' : TRUE
    BY DEF Chosen, ExecutedAs
  <2>14. Chosen(n)' = D /\ \A j \in Numbers : j # n => Chosen(j)' = Chosen(j)
    <3>1. Chosen(n)' = CHOOSE d \in {D} : TRUE
      BY <2>11, <2>13
    <3>2. \A j \in Numbers : j # n => Chosen(j)' = Chosen(j)
      BY <2>12, <2>13
    <3>3. (CHOOSE d \in {D} : TRUE) = D
      OBVIOUS
    <3>4. QED
      BY <3>1, <3>2, <3>3
  <2> DEFINE applied == [q \in Replicas |-> [k \in DOMAIN executed[q] |-> executed[q][k][1]]]
             chosen  == [j \in Numbers |-> Chosen(j)]
  <2>15. chosen' = [chosen EXCEPT ![n] = D]
    BY <2>14
  <2>16. applied' = [applied EXCEPT ![r] = Append(@, n)]
    <3>1. applied[r] = [k \in 1..n |-> k - 1] /\ applied'[r] = [k \in 1..(n + 1) |-> k - 1]
      <4>1. \A k \in 1..n : executed[r][k][1] = k - 1
        BY <2>4, <2>7
      <4>2. \A k \in 1..(n + 1) : executed'[r][k][1] = k - 1
        <5>1. \A k \in 1..(n + 1) : k \in 1..n \/ k = n + 1
          BY <2>2
        <5>2. executed'[r][n + 1][1] = (n + 1) - 1
          BY <2>2, <2>4
        <5>3. QED
          BY <2>4, <4>1, <5>1, <5>2
      <4>3. QED
        BY <2>4, <4>1, <4>2
    <3>2. applied'[r] = Append(applied[r], n)
      <4>1. PICK s \in Seq(Nat) : s = [k \in 1..n |-> k - 1]
        <5>1. [k \in 1..n |-> k - 1] \in [1..n -> Nat]
          BY <2>2
        <5>2. [1..n -> Nat] \subseteq UNION {[1..i -> Nat] : i \in Nat}
          BY <2>2
        <5>3. QED
          BY <5>1, <5>2, SeqDef
      <4>2. Len(s) = n /\ Append(s, n) = [k \in 1..(n + 1) |-> IF k = n + 1 THEN n ELSE s[k]]
        BY <2>2, <4>1
      <4>3. Append(s, n) = [k \in 1..(n + 1) |-> k - 1]
        BY <2>2, <4>1, <4>2
      <4>4. QED
        BY <3>1, <4>1, <4>3
    <3>3. \A q \in Replicas : q # r => applied'[q] = applied[q]
      BY <2>3
    <3>4. QED
      BY <3>2, <3>3
  <2>17. \A k \in DOMAIN applied[r] : applied[r][k] < n
    <3>1. \A k \in 1..n : executed[r][k][1] < n
      BY <2>2, <2>4, <2>7
    <3>2. DOMAIN applied[r] = 1..n /\ \A k \in 1..n : applied[r][k] = executed[r][k][1]
      BY <2>4
    <3>3. QED
      BY <3>1, <3>2
  <2>18. Log!Apply(r, n, D)
    <3>1. chosen[n] \in {NoDigest, D}
      BY <2>8
    <3>2. UNCHANGED {accepted[k] : k \in DOMAIN accepted}
      BY <1>2
    <3>3. QED
      BY <2>6, <2>15, <2>16, <2>17, <3>1, <3>2 DEF Log!Apply
  <2>19. QED
    BY <2>18 DEF Log!Next
<1>5. QED
  BY <1>3, <1>4

LEMMA LogStep ==
    ASSUME N >= 4
    PROVE  WindowInv /\ OrderInv /\ [Next]_vars => [mixed' \/ Log!Next]_(Log!logVars)
<1> SUFFICES ASSUME WindowInv, OrderInv, [Next]_vars, ~mixed'
             PROVE  Log!Next \/ UNCHANGED Log!logVars
  OBVIOUS
<1>1. ~mixed
  BY DEF Next, HandleRequest, StartViewChange, Deliver, HandlePrePrepare, HandlePrepare,
         HandleCommit, HandleViewChange, Ignore, vars
<1>2. PICK W \in [Numbers -> Nat] : Unmixed(W)
  BY <1>1 DEF OrderInv
<1>3. CASE \E r \in Replicas, d \in Digests : HandleRequest(r, d)
  BY <1>2, <1>3, LogRequest
<1>4. CASE \E r \in Replicas : StartViewChange(r)
  BY <1>4, LogStutters DEF StartViewChange
<1>5. CASE Deliver
  <2>1. queue # <<>>
    BY <1>5 DEF Deliver
  <2>2. CASE HandleCommit(turn, queue[1])
    BY <1>2, <2>1, <2>2, LogApply
  <2>3. CASE ~HandleCommit(turn, queue[1])
    BY <1>5, <2>3, LogStutters
       DEF Deliver, HandlePrePrepare, HandlePrepare, HandleViewChange, Ignore
  <2>4. QED
    BY <2>2, <2>3
<1>6. CASE UNCHANGED vars
  BY <1>6, LogStutters DEF vars
<1>7. QED
  BY <1>3, <1>4, <1>5, <1>6 DEF Next

\* Until a view change and a request are under way at once, the replicas implement a
\* replicated log: what is executed was requested, a number stands for the same
\* request on all replicas, and each executes the numbers in order, over any number
\* of view changes.
THEOREM ImplementsLogHolds == N >= 4 => (Spec => ImplementsLog)
<1> SUFFICES ASSUME N >= 4 PROVE Spec => ImplementsLog
  OBVIOUS
<1>1. Init => Log!Init
  BY LogInit
<1>2. WindowInv /\ OrderInv /\ [Next]_vars => [mixed' \/ Log!Next]_(Log!logVars)
  BY LogStep
<1>3. Spec => [](WindowInv /\ OrderInv)
  BY OrderInvariant
<1>4. QED
  BY <1>1, <1>2, <1>3, PTL DEF Spec, ImplementsLog
=============================================================================
